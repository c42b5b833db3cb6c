------------------------- MODULE EmailSendersProofs -------------------------
(***************************************************************************)
(* What the senders promise, proved for any number of attempts, recipients *)
(* and goroutines, and for any timings that ZohoAssumption allows.  The    *)
(* invariant has one part per sender; a step is one sender's, and what the *)
(* others know of their own variables stays true.                          *)
(***************************************************************************)
EXTENDS EmailSenders, MailerServiceProofs, FiniteSetTheorems

USE AttemptsAssumption, SMTPAssumption, ZohoAssumption

-----------------------------------------------------------------------------
(***************************************************************************)
(* The attempts.                                                           *)
(***************************************************************************)

\* A request without callbacks is at its send, or finished.
AttemptOK ==
    /\ attempt \in Nat \ {0}
    /\ job \in Jobs
    /\ job.stage \in {"send", "outcome"}
    /\ (job.stage = "send") <=> (job.action = "none")
    /\ job.canRetry <=> attempt < MaxAttempts
    /\ job.action = "retry" => job.canRetry

\* What the service makes of the result of a send.
LEMMA ReturnFacts ==
    ASSUME AttemptOK, job.stage = "send", NEW err \in ErrorCodes \cup {NoError}, SendReturns(err)
    PROVE  /\ attempt' = attempt => AttemptOK'
           /\ job'.stage = "outcome"
           /\ err = NoError => job'.action = "done"
           /\ err # NoError /\ attempt < MaxAttempts /\ Retryable(err) => job'.action = "retry"
           /\ err # NoError /\ ~(attempt < MaxAttempts /\ Retryable(err)) =>
                 job'.action = "dead_letter"
<1>1. Request \in Requests /\ Request.success = FALSE /\ Request.failure = FALSE
  BY DEF Request, Requests
<1>2. job.action = "none" /\ job' = AfterSend(Request, job, err)
  BY DEF AttemptOK, SendReturns
<1>3. CASE err = NoError
  <2>1. job' = Outcome(job, "done")
    BY <1>1, <1>2, <1>3 DEF AfterSend
  <2> QED
    BY <1>3, <2>1 DEF Outcome, Jobs, Actions, Stages, AttemptOK
<1>4. CASE err # NoError /\ job.canRetry /\ Retryable(err)
  <2>1. job' = Outcome([job EXCEPT !.code = err], "retry")
    BY <1>1, <1>2, <1>4 DEF AfterSend, handleFailure
  <2> QED
    BY <1>4, <2>1 DEF Outcome, Jobs, Actions, Stages, AttemptOK
<1>5. CASE err # NoError /\ ~(job.canRetry /\ Retryable(err))
  <2>1. job' = Outcome([job EXCEPT !.code = err], "dead_letter")
    BY <1>1, <1>2, <1>5 DEF AfterSend, handleFailure
  <2> QED
    BY <1>5, <2>1 DEF Outcome, Jobs, Actions, Stages, AttemptOK
<1> QED
  BY <1>3, <1>4, <1>5 DEF AttemptOK, Jobs

\* The call that an attempt begins with.
LEMMA CallIsSent ==
    ASSUME NEW n \in Nat \ {0}
    PROVE  /\ Call(n) \in Jobs
           /\ Call(n).stage = "send" /\ Call(n).action = "none"
           /\ Call(n).canRetry <=> n < MaxAttempts
<1> DEFINE more == n < MaxAttempts
<1>1. /\ more \in BOOLEAN /\ Request.json
      /\ Call(n) = Handle(Request, n, more)
  BY DEF Call, Request
<1> HIDE DEF more
<1>2. Call(n) = [stage |-> "send", attempt |-> n, canRetry |-> more, code |-> NoError,
                 action |-> "none"]
  BY <1>1 DEF Handle
<1>3. /\ Call(n) \in Jobs
      /\ Call(n).stage = "send" /\ Call(n).action = "none"
      /\ Call(n).canRetry = more
  BY <1>1, <1>2 DEF Jobs, Stages, Actions
<1> QED
  BY <1>3 DEF more

LEMMA FirstAttemptOK == FirstAttempt => AttemptOK
<1>1. /\ Call(1) \in Jobs /\ Call(1).stage = "send" /\ Call(1).action = "none"
      /\ Call(1).canRetry <=> 1 < MaxAttempts
  BY CallIsSent, 1 \in Nat \ {0}
<1> QED
  BY <1>1 DEF FirstAttempt, AttemptOK

LEMMA NextAttemptOK ==
    ASSUME AttemptOK, NextAttempt
    PROVE  AttemptOK' /\ job'.stage = "send" /\ attempt' = attempt + 1 /\ attempt < MaxAttempts
<1>1. attempt + 1 \in Nat \ {0} /\ attempt' = attempt + 1 /\ job' = Call(attempt + 1)
  BY DEF NextAttempt, AttemptOK
<1>2. /\ Call(attempt + 1) \in Jobs
      /\ Call(attempt + 1).stage = "send" /\ Call(attempt + 1).action = "none"
      /\ Call(attempt + 1).canRetry <=> attempt + 1 < MaxAttempts
  BY <1>1, CallIsSent
<1>3. AttemptOK'
  BY <1>1, <1>2 DEF AttemptOK
<1> QED
  BY <1>1, <1>2, <1>3 DEF NextAttempt, AttemptOK

-----------------------------------------------------------------------------
(***************************************************************************)
(* The SMTP session.                                                       *)
(***************************************************************************)

\* The envelope grows one recipient at a time, in order, and is complete when the data is sent.
EnvelopeOK ==
    /\ step \in {"validate", "dial", "greet", "auth", "mail"} => envelope = {}
    /\ step = "rcpt" =>
          \E k \in Nat : k < email.receivers + email.copies /\ envelope = 1..k
    /\ step \in {"data", "write", "end"} => envelope = allRecipients

\* The latest fault decides what becomes of the attempt.
FaultOK ==
    /\ fault \in [at: Steps, reply: Replies]
    /\ step # "returned" => fault = NoFault
    /\ step = "returned" /\ fault.reply # "ok" =>
          LET passing == fault.reply = "4xx" \/ fault.at \in {"dial", "greet"} IN
          /\ passing /\ attempt < MaxAttempts => job.action = "retry"
          /\ ~passing => job.action = "dead_letter"

\* What the server took was complete, is one message, and ended the request.
DeliveriesOK ==
    /\ \A d \in deliveries : d.to = allRecipients
    /\ deliveries # {} => step = "returned" /\ job.action # "retry"
    /\ \E d : deliveries \subseteq {d}
    /\ sender = "smtp" /\ job.action = "done" => deliveries # {}

SMTPOK ==
    /\ email \in Emails
    /\ step \in Steps
    /\ IF sender = "smtp" THEN (job.stage = "send") <=> (step # "returned")
       ELSE step = "validate"
    /\ step \notin {"validate", "returned"} => validateEmail = NoError
    /\ EnvelopeOK
    /\ FaultOK
    /\ DeliveriesOK

\* An accepted email has a receiver, and a refused one an error code.
LEMMA ValidateFacts ==
    ASSUME email \in Emails
    PROVE  /\ validateEmail \in MessageCodes \cup {NoError}
           /\ validateEmail = NoError => email.receivers \in Nat \ {0} /\ email.copies \in Nat
<1>1. /\ email.from \in BOOLEAN /\ email.subject \in BOOLEAN /\ email.body \in BOOLEAN
      /\ email.receivers \in Nat /\ email.copies \in Nat
  BY DEF Emails
<1>2. NoError \notin MessageCodes
  BY NoErrorIsNoCode DEF ErrorCodes
<1> QED
  BY <1>1, <1>2 DEF validateEmail, MessageCodes, NoError

\* A command that fails ends the attempt with its code.
LEMMA CommandFails ==
    ASSUME AttemptOK, job.stage = "send", NEW at \in Steps, NEW next \in Steps,
           NEW reply \in Replies, reply # "ok", NEW code \in ErrorCodes,
           Command(at, next, reply, code)
    PROVE  /\ step = at /\ step' = "returned" /\ email' = email /\ attempt' = attempt
           /\ fault' = [at |-> at, reply |-> reply]
           /\ AttemptOK' /\ job'.stage = "outcome" /\ job'.action # "done"
           /\ attempt < MaxAttempts /\ Retryable(code) => job'.action = "retry"
           /\ ~Retryable(code) => job'.action = "dead_letter"
<1>1. /\ step = at /\ step' = "returned" /\ email' = email /\ attempt' = attempt
      /\ fault' = [at |-> at, reply |-> reply]
      /\ SendReturns(code)
  BY DEF Command, Return
<1> QED
  BY <1>1, ReturnFacts, NoErrorIsNoCode

\* A command whose code is retried exactly after a failure that may pass keeps the invariant, if
\* what it does to the envelope is right.
LEMMA CommandKeeps ==
    ASSUME AttemptOK, SMTPOK, sender = "smtp", sender' = sender, deliveries' = deliveries,
           NEW at \in Steps \ {"validate", "returned"},
           NEW next \in Steps \ {"validate", "returned"},
           NEW reply \in Replies, NEW code \in ErrorCodes, Command(at, next, reply, code),
           reply = "4xx" \/ at \in {"dial", "greet"} => Retryable(code),
           reply # "ok" /\ reply # "4xx" /\ at \notin {"dial", "greet"} => ~Retryable(code),
           reply = "ok" /\ step' = next /\ email' = email => EnvelopeOK'
    PROVE  AttemptOK' /\ SMTPOK'
<1>1. job.stage = "send" /\ step = at /\ email' = email /\ attempt' = attempt
  BY DEF Command, SMTPOK
<1>2. validateEmail' = validateEmail /\ allRecipients' = allRecipients
  BY <1>1 DEF validateEmail, allRecipients
<1>3. CASE reply = "ok"
  <2>1. step' = next /\ job' = job /\ fault' = fault
    BY <1>3 DEF Command
  <2>2. AttemptOK'
    BY <1>1, <2>1 DEF AttemptOK
  <2>3. EnvelopeOK'
    BY <1>1, <1>3, <2>1
  <2>4. FaultOK' /\ DeliveriesOK'
    BY <1>1, <1>2, <2>1 DEF SMTPOK, FaultOK, DeliveriesOK, AttemptOK
  <2> QED
    BY <1>1, <1>2, <2>1, <2>2, <2>3, <2>4 DEF SMTPOK
<1>4. CASE reply # "ok"
  <2>1. /\ step' = "returned" /\ fault' = [at |-> at, reply |-> reply]
        /\ AttemptOK' /\ job'.stage = "outcome" /\ job'.action # "done"
        /\ attempt < MaxAttempts /\ Retryable(code) => job'.action = "retry"
        /\ ~Retryable(code) => job'.action = "dead_letter"
    BY <1>1, <1>4, CommandFails
  <2>2. EnvelopeOK'
    BY <2>1 DEF EnvelopeOK
  <2>3. FaultOK'
    <3>1. /\ fault' \in [at: Steps, reply: Replies]
          /\ fault'.at = at /\ fault'.reply = reply
      BY <2>1
    <3>2. reply = "4xx" \/ at \in {"dial", "greet"} =>
            (attempt < MaxAttempts => job'.action = "retry")
      BY <2>1
    <3>3. ~(reply = "4xx" \/ at \in {"dial", "greet"}) => job'.action = "dead_letter"
      BY <1>4, <2>1
    <3> QED
      BY <1>1, <2>1, <3>1, <3>2, <3>3 DEF FaultOK
  <2>4. deliveries = {}
    BY <1>1 DEF SMTPOK, DeliveriesOK
  <2>5. DeliveriesOK'
    BY <2>1, <2>4 DEF DeliveriesOK
  <2> QED
    BY <1>1, <1>2, <2>1, <2>2, <2>3, <2>5 DEF SMTPOK, Steps
<1> QED
  BY <1>3, <1>4

\* A code of a step survives a permanent reply only, and is then final.
LEMMA smtpCodeFacts ==
    ASSUME NEW reply \in Replies,
           NEW stepCode \in SMTPCodes \ {"smtp_connection_failed", "smtp_temporary_failure"}
    PROVE  /\ smtpCode(stepCode, reply) \in ErrorCodes
           /\ Retryable(smtpCode(stepCode, reply)) <=> reply = "4xx"
BY DEF smtpCode, Retryable, SMTPCodes, ErrorCodes

LEMMA StepCodes ==
    /\ {"smtp_authorization_denied", "smtp_sender_rejected", "smtp_receiver_rejected",
        "smtp_message_rejected"} \subseteq SMTPCodes
    /\ "smtp_connection_failed" \in ErrorCodes /\ Retryable("smtp_connection_failed")
BY DEF SMTPCodes, ErrorCodes, Retryable

LEMMA KeepsValidate ==
    ASSUME AttemptOK, SMTPOK, sender = "smtp", sender' = sender, Validate
    PROVE  AttemptOK' /\ SMTPOK'
<1>1. /\ step = "validate" /\ job.stage = "send" /\ attempt' = attempt /\ email' = email
      /\ envelope' = envelope /\ fault' = fault /\ deliveries' = deliveries
      /\ validateEmail' = validateEmail /\ allRecipients' = allRecipients
  BY DEF Validate, SMTPOK, validateEmail, allRecipients
<1>2. envelope = {} /\ fault = NoFault /\ deliveries = {}
  BY <1>1 DEF SMTPOK, EnvelopeOK, FaultOK, DeliveriesOK
<1>3. CASE validateEmail = NoError
  <2>1. step' = "dial" /\ job' = job
    BY <1>1, <1>3 DEF Validate
  <2> QED
    BY <1>1, <1>2, <1>3, <2>1 DEF SMTPOK, AttemptOK, EnvelopeOK, FaultOK, DeliveriesOK, Steps
<1>4. CASE validateEmail # NoError
  <2>1. step' = "returned" /\ SendReturns(validateEmail)
    BY <1>1, <1>4 DEF Validate, Return
  <2>2. validateEmail \in ErrorCodes
    BY <1>4, ValidateFacts DEF SMTPOK, ErrorCodes
  <2>3. AttemptOK' /\ job'.stage = "outcome" /\ job'.action \in {"retry", "dead_letter"}
    BY <1>1, <1>4, <2>1, <2>2, ReturnFacts
  <2>4. FaultOK'
    BY <1>1, <1>2, <2>1 DEF FaultOK, NoFault, Replies, Steps
  <2>5. EnvelopeOK' /\ DeliveriesOK'
    BY <1>1, <1>2, <2>1, <2>3 DEF EnvelopeOK, DeliveriesOK
  <2> QED
    BY <1>1, <2>1, <2>3, <2>4, <2>5 DEF SMTPOK, Steps
<1> QED
  BY <1>3, <1>4

LEMMA KeepsConnect ==
    ASSUME AttemptOK, SMTPOK, sender = "smtp", sender' = sender, NEW reply \in Replies,
           Connect(reply)
    PROVE  AttemptOK' /\ SMTPOK'
<1>1. CASE Command("dial", "greet", reply, "smtp_connection_failed") /\ reply \in {"ok", "dropped"}
  <2>1. reply = "ok" /\ step' = "greet" => EnvelopeOK'
    BY <1>1 DEF Connect, Command, SMTPOK, EnvelopeOK
  <2> QED
    BY <1>1, <2>1, StepCodes, CommandKeeps DEF Connect, Steps
<1>2. CASE Command("greet", "auth", reply, "smtp_connection_failed")
  <2>1. reply = "ok" /\ step' = "auth" => EnvelopeOK'
    BY <1>2 DEF Connect, Command, SMTPOK, EnvelopeOK
  <2> QED
    BY <1>2, <2>1, StepCodes, CommandKeeps DEF Connect, Steps
<1> QED
  BY <1>1, <1>2 DEF Connect

LEMMA KeepsAuth ==
    ASSUME AttemptOK, SMTPOK, sender = "smtp", sender' = sender, NEW reply \in Replies,
           Auth(reply)
    PROVE  AttemptOK' /\ SMTPOK'
<1>1. reply = "ok" /\ step' = "mail" => EnvelopeOK'
  BY DEF Auth, Command, SMTPOK, EnvelopeOK
<1> QED
  BY <1>1, StepCodes, smtpCodeFacts, CommandKeeps DEF Auth, Steps

LEMMA KeepsMail ==
    ASSUME AttemptOK, SMTPOK, sender = "smtp", sender' = sender, NEW reply \in Replies,
           Mail(reply)
    PROVE  AttemptOK' /\ SMTPOK'
<1>1. step = "mail" /\ email' = email /\ envelope' = envelope
  BY DEF Mail, Command
<1>2. email.receivers \in Nat \ {0} /\ email.copies \in Nat /\ envelope = {}
  BY <1>1, ValidateFacts DEF SMTPOK, EnvelopeOK
<1>3. envelope = 1..0
  BY <1>2
<1>4. reply = "ok" /\ step' = "rcpt" => EnvelopeOK'
  BY <1>1, <1>2, <1>3 DEF EnvelopeOK
<1> QED
  BY <1>4, StepCodes, smtpCodeFacts, CommandKeeps DEF Mail, Steps

LEMMA KeepsRcpt ==
    ASSUME AttemptOK, SMTPOK, sender = "smtp", sender' = sender, NEW reply \in Replies,
           Rcpt(reply)
    PROVE  AttemptOK' /\ SMTPOK'
<1> DEFINE all == email.receivers + email.copies
           recipient == Cardinality(envelope) + 1
           next == IF recipient = Cardinality(allRecipients) THEN "data" ELSE "rcpt"
<1>1. /\ Command("rcpt", next, reply, smtpCode("smtp_receiver_rejected", reply))
      /\ envelope' = IF reply = "ok" THEN envelope \cup {recipient} ELSE envelope
      /\ deliveries' = deliveries
      /\ step = "rcpt" /\ email' = email
  BY DEF Rcpt, Command
<1>2. email.receivers \in Nat \ {0} /\ email.copies \in Nat
  BY <1>1, ValidateFacts DEF SMTPOK
<1>3. PICK k \in Nat : k < all /\ envelope = 1..k
  BY <1>1 DEF SMTPOK, EnvelopeOK
<1>4. recipient = k + 1 /\ Cardinality(allRecipients) = all
  <2>1. 1 \in Int /\ k \in Int /\ all \in Int /\ ~(1 > all)
    BY <1>2, <1>3
  <2>2. Cardinality(1..k) = (IF 1 > k THEN 0 ELSE k - 1 + 1)
    BY <2>1, FS_Interval
  <2>3. Cardinality(1..all) = (IF 1 > all THEN 0 ELSE all - 1 + 1)
    BY <2>1, FS_Interval
  <2> QED
    BY <1>2, <1>3, <2>1, <2>2, <2>3 DEF allRecipients
<1>5. (1..k) \cup {k + 1} = 1..(k + 1)
  BY <1>3
<1>6. reply = "ok" => envelope' = 1..(k + 1)
  BY <1>1, <1>3, <1>4, <1>5
<1>7. reply = "ok" /\ step' = next => EnvelopeOK'
  <2> HAVE reply = "ok" /\ step' = next
  <2>1. envelope' = 1..(k + 1) /\ k + 1 <= all /\ step' \in {"data", "rcpt"}
    BY <1>2, <1>3, <1>6
  <2>2. CASE k + 1 = all
    <3>1. envelope' = allRecipients'
      BY <1>1, <2>1, <2>2 DEF allRecipients
    <3>2. step' = "data"
      BY <1>4, <2>2
    <3> QED
      BY <3>1, <3>2 DEF EnvelopeOK
  <2>3. CASE k + 1 # all
    <3>1. k + 1 \in Nat /\ k + 1 < email'.receivers + email'.copies
      BY <1>1, <1>2, <1>3, <2>1, <2>3
    <3>2. step' = "rcpt"
      BY <1>4, <2>3
    <3> QED
      BY <2>1, <3>1, <3>2 DEF EnvelopeOK
  <2> QED
    BY <2>2, <2>3
<1>8. next \in Steps \ {"validate", "returned"}
  BY DEF Steps
<1> HIDE DEF next
<1> QED
  BY <1>1, <1>7, <1>8, StepCodes, smtpCodeFacts, CommandKeeps DEF Steps

LEMMA KeepsData ==
    ASSUME AttemptOK, SMTPOK, sender = "smtp", sender' = sender, NEW reply \in Replies,
           Data(reply)
    PROVE  AttemptOK' /\ SMTPOK'
<1>1. reply = "ok" /\ step' = "write" => EnvelopeOK'
  BY DEF Data, Command, SMTPOK, EnvelopeOK, allRecipients
<1> QED
  BY <1>1, StepCodes, smtpCodeFacts, CommandKeeps DEF Data, Steps

LEMMA KeepsWrite ==
    ASSUME AttemptOK, SMTPOK, sender = "smtp", sender' = sender, NEW reply \in Replies,
           Write(reply)
    PROVE  AttemptOK' /\ SMTPOK'
<1>1. reply = "ok" /\ step' = "end" => EnvelopeOK'
  BY DEF Write, Command, SMTPOK, EnvelopeOK, allRecipients
<1> QED
  BY <1>1, StepCodes, smtpCodeFacts, CommandKeeps DEF Write, Steps

\* The message is taken once, complete, and with a reply that is not retried.
LEMMA KeepsEndOfData ==
    ASSUME AttemptOK, SMTPOK, sender = "smtp", sender' = sender, NEW reply \in Replies,
           NEW took \in BOOLEAN, EndOfData(took, reply)
    PROVE  AttemptOK' /\ SMTPOK'
<1> DEFINE d == [attempt |-> attempt, to |-> envelope]
<1>1. /\ step = "end" /\ step' = "returned" /\ email' = email /\ attempt' = attempt
      /\ envelope' = envelope
      /\ deliveries' = IF took THEN deliveries \cup {d} ELSE deliveries
      /\ reply = "ok" => took
      /\ reply \in {"4xx", "5xx"} => ~took
  BY DEF EndOfData, Command, Return
<1>2. /\ job.stage = "send" /\ deliveries = {} /\ envelope = allRecipients /\ fault = NoFault
      /\ validateEmail' = validateEmail /\ allRecipients' = allRecipients
  BY <1>1 DEF SMTPOK, EnvelopeOK, DeliveriesOK, FaultOK, validateEmail, allRecipients
<1>3. /\ \A e \in deliveries' : e.to = allRecipients
      /\ deliveries' \subseteq {d}
      /\ took => deliveries' # {}
      /\ ~took => deliveries' = {}
  <2>1. deliveries' = IF took THEN {d} ELSE {}
    BY <1>1, <1>2
  <2>2. d.to = allRecipients
    BY <1>2
  <2> HIDE DEF d
  <2> QED
    BY <2>1, <2>2
<1>4. EnvelopeOK'
  BY <1>1 DEF EnvelopeOK
<1>5. CASE reply = "ok"
  <2>1. SendReturns(NoError) /\ fault' = fault
    BY <1>5 DEF EndOfData, Return
  <2>2. AttemptOK' /\ job'.stage = "outcome" /\ job'.action = "done"
    BY <1>1, <1>2, <2>1, ReturnFacts
  <2>3. FaultOK'
    BY <1>1, <1>2, <2>1 DEF FaultOK, NoFault, Replies, Steps
  <2>4. DeliveriesOK'
    BY <1>1, <1>2, <1>3, <1>5, <2>2 DEF DeliveriesOK
  <2> QED
    BY <1>1, <1>2, <1>4, <2>2, <2>3, <2>4 DEF SMTPOK, Steps
<1>6. CASE reply # "ok"
  <2> DEFINE code == smtpCode("smtp_message_rejected", reply)
  <2>1. Command("end", "returned", reply, code)
    BY <1>6 DEF EndOfData
  <2>2. code \in ErrorCodes /\ (Retryable(code) <=> reply = "4xx")
    BY StepCodes, smtpCodeFacts
  <2>3. "end" \in Steps /\ "returned" \in Steps
    BY DEF Steps
  <2> HIDE DEF code
  <2>4. /\ fault' = [at |-> "end", reply |-> reply]
        /\ AttemptOK' /\ job'.stage = "outcome" /\ job'.action # "done"
        /\ attempt < MaxAttempts /\ Retryable(code) => job'.action = "retry"
        /\ ~Retryable(code) => job'.action = "dead_letter"
    BY <1>2, <1>6, <2>1, <2>2, <2>3, CommandFails
  <2>5. FaultOK'
    <3>1. /\ fault' \in [at: Steps, reply: Replies]
          /\ fault'.at = "end" /\ fault'.reply = reply
      BY <2>3, <2>4
    <3> QED
      BY <1>1, <2>2, <2>4, <3>1 DEF FaultOK
  <2>6. took => job'.action = "dead_letter"
    BY <1>1, <2>2, <2>4
  <2>7. DeliveriesOK'
    BY <1>1, <1>2, <1>3, <2>4, <2>6 DEF DeliveriesOK
  <2> QED
    BY <1>1, <1>2, <1>4, <2>4, <2>5, <2>7 DEF SMTPOK, Steps
<1> QED
  BY <1>5, <1>6

\* A retry is another session; nothing was taken before it.
LEMMA KeepsSMTPRetry ==
    ASSUME AttemptOK, SMTPOK, sender = "smtp", sender' = sender, SMTPRetry
    PROVE  AttemptOK' /\ SMTPOK'
<1>1. AttemptOK' /\ job'.stage = "send" /\ job.action = "retry" /\ job'.action = "none"
  BY NextAttemptOK DEF SMTPRetry, NextAttempt, AttemptOK
<1>2. /\ step' = "validate" /\ envelope' = {} /\ fault' = NoFault /\ email' = email
      /\ deliveries' = deliveries /\ deliveries = {}
  BY <1>1 DEF SMTPRetry, SMTPOK, DeliveriesOK
<1>3. FaultOK'
  BY <1>2 DEF FaultOK, NoFault, Replies, Steps
<1>4. EnvelopeOK' /\ DeliveriesOK'
  BY <1>1, <1>2 DEF EnvelopeOK, DeliveriesOK
<1> QED
  BY <1>1, <1>2, <1>3, <1>4 DEF SMTPOK, Steps

LEMMA KeepsSMTP ==
    ASSUME AttemptOK, SMTPOK, sender = "smtp", sender' = sender, SMTPNext
    PROVE  AttemptOK' /\ SMTPOK'
BY KeepsValidate, KeepsConnect, KeepsAuth, KeepsMail, KeepsRcpt, KeepsData, KeepsWrite,
   KeepsEndOfData, KeepsSMTPRetry DEF SMTPNext, Session

-----------------------------------------------------------------------------
(***************************************************************************)
(* The API of Resend or ZeptoMail.                                         *)
(***************************************************************************)

\* The codes that are retried, and those that end a request.
PassingCodes == {"api_rate_limited", "api_provider_unavailable"}
FinalCodes == APICodes \ (PassingCodes \cup {"api_connection_failed"})

\* What is taken was taken by an attempt that told so, or whose answer was lost.
TakenOK ==
    /\ taken \subseteq 1..attempt
    /\ lost \subseteq taken
    /\ \A n \in taken : n # attempt \/ job.action # "done" => n \in lost
    /\ job.stage = "send" => attempt \notin taken
    /\ sender \in {"resend", "zeptomail"} /\ job.action = "done" => attempt \in taken

\* An answer with an error status decided the attempt.
AnswerOK ==
    job.stage = "outcome" /\ valid /\ answer # NoAnswer /\ IsError(answer.status) =>
        /\ Passing(answer) /\ attempt < MaxAttempts => job.action = "retry"
        /\ ~Passing(answer) => job.action = "dead_letter"

APIOK ==
    /\ provider \in {"resend", "zeptomail"}
    /\ sender \notin {"resend", "zeptomail"} => taken = {} /\ answer = NoAnswer
    /\ TakenOK
    /\ AnswerOK

FinalStatuses == {400, 401, 403, 404, 413, 422}
PassingStatuses == {429, 500, 503}

\* The answers of a provider.
LEMMA AnswerFacts ==
    ASSUME NEW p \in {"resend", "zeptomail"}, NEW a \in Answers(p)
    PROVE  /\ a.status \in {200, 202} \cup FinalStatuses \cup PassingStatuses
           /\ a.status \in Nat /\ a # NoAnswer
           /\ a.readable \in BOOLEAN
           /\ IsError(a.status) <=> a.status \notin 200..299
           /\ IsError(a.status) <=> a.status \notin {200, 202}
           /\ p = "resend" => a.name \in ResendNames /\ a.details = << >>
           /\ p = "zeptomail" => /\ a.name \in ZeptoCodes
                                 /\ Len(a.details) \in 0..2
                                 /\ \A i \in 1..Len(a.details) : a.details[i] \in ZeptoDetails
<1> DEFINE Names == IF p = "resend" THEN ResendNames ELSE ZeptoCodes
           Details == IF p = "resend" THEN {<< >>}
                      ELSE {<< >>} \cup {<< d >> : d \in ZeptoDetails}
                              \cup {<< "other", "SM_113" >>}
<1>1. \/ a \in [status: ErrorStatuses, readable: {TRUE}, name: Names, details: Details,
                mention: Mentions]
      \/ a \in [status: {200, 202} \cup ErrorStatuses, readable: BOOLEAN, name: {"other"},
                details: {<< >>}, mention: {"nothing"}]
  BY DEF Answers
<1>2. /\ "other" \in Names
      /\ << >> \in Details
      /\ p = "resend" => Names = ResendNames /\ Details = {<< >>}
      /\ p = "zeptomail" => Names = ZeptoCodes
  BY DEF ResendNames, ZeptoCodes
<1>3. p = "zeptomail" =>
         \A d \in Details : Len(d) \in 0..2 /\ \A i \in 1..Len(d) : d[i] \in ZeptoDetails
  <2> SUFFICES ASSUME p = "zeptomail", NEW d \in Details
               PROVE  Len(d) \in 0..2 /\ \A i \in 1..Len(d) : d[i] \in ZeptoDetails
    OBVIOUS
  <2>1. CASE d = << >>
    BY <2>1
  <2>2. ASSUME NEW e \in ZeptoDetails, d = << e >>
        PROVE  Len(d) \in 0..2 /\ \A i \in 1..Len(d) : d[i] \in ZeptoDetails
    <3>1. Len(d) = 1 /\ d[1] = e
      BY <2>2
    <3>2. \A i \in 1..1 : i = 1
      OBVIOUS
    <3> QED
      BY <3>1, <3>2
  <2>3. CASE d = << "other", "SM_113" >>
    <3>1. Len(d) = 2 /\ d[1] = "other" /\ d[2] = "SM_113"
      BY <2>3
    <3>2. \A i \in 1..2 : i = 1 \/ i = 2
      OBVIOUS
    <3> QED
      BY <3>1, <3>2 DEF ZeptoDetails
  <2> QED
    BY <2>1, <2>2, <2>3
<1> HIDE DEF Names, Details
<1>4. /\ a.status \in {200, 202} \cup FinalStatuses \cup PassingStatuses
      /\ a.readable \in BOOLEAN /\ a.name \in Names /\ a.details \in Details
  <2>1. ErrorStatuses \subseteq FinalStatuses \cup PassingStatuses
    BY DEF ErrorStatuses, FinalStatuses, PassingStatuses
  <2>2. CASE a \in [status: ErrorStatuses, readable: {TRUE}, name: Names, details: Details,
                    mention: Mentions]
    <3>1. a.status \in ErrorStatuses /\ a.name \in Names /\ a.details \in Details
      BY <2>2
    <3>2. a.readable \in {TRUE}
      BY <2>2
    <3> QED
      BY <2>1, <3>1, <3>2
  <2>3. CASE a \in [status: {200, 202} \cup ErrorStatuses, readable: BOOLEAN, name: {"other"},
                    details: {<< >>}, mention: {"nothing"}]
    <3>1. /\ a.status \in {200, 202} \cup ErrorStatuses
          /\ a.name \in {"other"} /\ a.details \in {<< >>}
      BY <2>3
    <3>2. a.readable \in BOOLEAN
      BY <2>3
    <3> QED
      BY <1>2, <2>1, <3>1, <3>2
  <2> QED
    BY <1>1, <2>2, <2>3
<1>5. a # NoAnswer
  BY <1>4 DEF NoAnswer, FinalStatuses, PassingStatuses
<1>6. /\ a.status \in Nat
      /\ IsError(a.status) <=> a.status \notin 200..299
      /\ IsError(a.status) <=> a.status \notin {200, 202}
  BY <1>4 DEF IsError, FinalStatuses, PassingStatuses
<1> QED
  BY <1>2, <1>3, <1>4, <1>5, <1>6

\* Resend's names: two of them may pass, one says nothing, and the others are final.
LEMMA ResendFacts ==
    ASSUME NEW status, NEW name \in ResendNames, NEW mention
    PROVE  LET code == resendErrorCode(status, name, mention) IN
           /\ status = 401 => code \in FinalCodes
           /\ status # 401 =>
                 /\ name = "other" => code = Unclassified
                 /\ name \in {"rate_limit_exceeded", "service_unavailable"} => code \in PassingCodes
                 /\ name \notin {"rate_limit_exceeded", "service_unavailable", "other"} =>
                       code \in FinalCodes
BY DEF resendErrorCode, fieldCode, FinalCodes, PassingCodes, APICodes, Unclassified, ResendNames

\* ZeptoMail's codes and details are final, but for those it does not know.
LEMMA ZeptoFacts ==
    ASSUME NEW name \in ZeptoCodes, NEW details, NEW mention, Len(details) \in 0..2,
           \A i \in 1..Len(details) : details[i] \in ZeptoDetails
    PROVE  LET code == classifyZeptoMailError(name, details, mention)
               known == name # "other" \/ \E i \in 1..Len(details) : details[i] # "other"
           IN  /\ known => code \in FinalCodes
               /\ ~known => code = Unclassified
<1> DEFINE known == {i \in 1..Len(details) :
                       zeptoMailDetailCode(details[i], mention) # Unclassified}
           first == CHOOSE i \in known : \A j \in known : i <= j
<1>1. \A d \in ZeptoDetails :
         /\ d # "other" => zeptoMailDetailCode(d, mention) \in FinalCodes
         /\ d = "other" => zeptoMailDetailCode(d, mention) = Unclassified
  BY DEF zeptoMailDetailCode, fieldCode, FinalCodes, PassingCodes, APICodes, Unclassified,
         ZeptoDetails
<1>2. /\ name # "other" => zeptoMailCode(name) \in FinalCodes
      /\ name = "other" => zeptoMailCode(name) = Unclassified
  BY DEF zeptoMailCode, FinalCodes, PassingCodes, APICodes, Unclassified, ZeptoCodes
<1>3. Unclassified \notin FinalCodes
  BY DEF Unclassified, FinalCodes, APICodes
<1>4. classifyZeptoMailError(name, details, mention) =
         IF known = {} THEN zeptoMailCode(name) ELSE zeptoMailDetailCode(details[first], mention)
  BY DEF classifyZeptoMailError
<1>5. \A i \in 1..Len(details) : i \in known <=> details[i] # "other"
  BY <1>1, <1>3
<1>6. known # {} => first \in known
  <2>1. \A i \in known : i = 1 \/ i = 2
    OBVIOUS
  <2>2. known # {} => \E i \in known : \A j \in known : i <= j
    BY <2>1
  <2> QED
    BY <2>2
<1> HIDE DEF first
<1>7. known # {} => zeptoMailDetailCode(details[first], mention) \in FinalCodes
  BY <1>1, <1>5, <1>6
<1> QED
  BY <1>2, <1>4, <1>5, <1>7

LEMMA StatusFacts ==
    ASSUME NEW status \in Nat
    PROVE  /\ status \in FinalStatuses => codeForStatus(status) \in FinalCodes
           /\ status \in PassingStatuses => codeForStatus(status) \in PassingCodes
BY DEF codeForStatus, FinalCodes, PassingCodes, APICodes, FinalStatuses, PassingStatuses

\* What the classifier makes of a body: a refusal is final, trouble passes, anything else is left to
\* the status.
LEMMA ClassFacts ==
    ASSUME NEW p \in {"resend", "zeptomail"}, NEW a \in Answers(p)
    PROVE  LET class == classify(p, a) IN
           /\ NamesRefusal(a) => class \in FinalCodes
           /\ ~NamesRefusal(a) /\ a.status # 401 /\ NamesTrouble(a) => class \in PassingCodes
           /\ ~NamesRefusal(a) /\ ~NamesTrouble(a) =>
                 class = Unclassified \/ (a.status = 401 /\ class \in FinalCodes)
           /\ a.status = 401 => class \in FinalCodes \cup {Unclassified}
<1> DEFINE class == classify(p, a)
<1>1. class = IF ~a.readable THEN Unclassified
              ELSE IF p = "resend" THEN resendErrorCode(a.status, a.name, a.mention)
              ELSE classifyZeptoMailError(a.name, a.details, a.mention)
  BY AnswerFacts DEF classify
<1> HIDE DEF class
<1>2. CASE ~a.readable
  BY <1>1, <1>2 DEF class, NamesRefusal, NamesTrouble
<1>3. CASE a.readable /\ p = "resend"
  <2>1. a.name \in ResendNames /\ \A i \in 1..Len(a.details) : FALSE
    BY <1>3, AnswerFacts
  <2>2. class = resendErrorCode(a.status, a.name, a.mention)
    BY <1>1, <1>3
  <2> QED
    BY <1>3, <2>1, <2>2, ResendFacts DEF class, NamesRefusal, NamesTrouble
<1>4. CASE a.readable /\ p = "zeptomail"
  <2>1. /\ a.name \in ZeptoCodes /\ Len(a.details) \in 0..2
        /\ \A i \in 1..Len(a.details) : a.details[i] \in ZeptoDetails
    BY <1>4, AnswerFacts
  <2>2. class = classifyZeptoMailError(a.name, a.details, a.mention)
    BY <1>1, <1>4
  <2>3. a.name \notin {"rate_limit_exceeded", "service_unavailable"}
    BY <2>1 DEF ZeptoCodes
  <2>4. NamesRefusal(a) <=> a.name # "other" \/ \E i \in 1..Len(a.details) : a.details[i] # "other"
    BY <1>4, <2>3 DEF NamesRefusal
  <2>5. ~NamesTrouble(a)
    BY <2>3 DEF NamesTrouble
  <2> QED
    BY <2>1, <2>2, <2>4, <2>5, ZeptoFacts DEF class
<1> QED
  BY <1>2, <1>3, <1>4, AnswerFacts

\* An answer with an error status gets a code that is retried exactly when it may pass.
LEMMA DescribeFacts ==
    ASSUME NEW p \in {"resend", "zeptomail"}, NEW a \in Answers(p), IsError(a.status)
    PROVE  LET code == describeAPIError(p, a, "status") IN
           code \in APICodes /\ (Passing(a) <=> Retryable(code))
<1> DEFINE class == classify(p, a)
           code == describeAPIError(p, a, "status")
<1>1. code = IF class = Unclassified THEN codeForStatus(a.status) ELSE class
  BY DEF describeAPIError
<1> HIDE DEF class, code
<1>2. /\ a.status \in Nat /\ a.status \in FinalStatuses \cup PassingStatuses
  BY AnswerFacts
<1>3. /\ a.status \in FinalStatuses => codeForStatus(a.status) \in FinalCodes
      /\ a.status \in PassingStatuses => codeForStatus(a.status) \in PassingCodes
  BY <1>2, StatusFacts
<1>4. Unclassified \notin APICodes /\ FinalCodes \subseteq APICodes /\ PassingCodes \subseteq APICodes
  BY DEF Unclassified, APICodes, FinalCodes, PassingCodes
<1>5. IF Passing(a) THEN code \in PassingCodes ELSE code \in FinalCodes
  <2>1. CASE NamesRefusal(a)
    <3>1. class \in FinalCodes
      BY <2>1, ClassFacts DEF class
    <3> QED
      BY <1>1, <1>4, <2>1, <3>1 DEF Passing
  <2>2. CASE ~NamesRefusal(a) /\ a.status = 401
    <3>1. class \in FinalCodes \cup {Unclassified}
      BY <2>2, ClassFacts DEF class
    <3> QED
      BY <1>1, <1>3, <1>4, <2>2, <3>1 DEF Passing, FinalStatuses
  <2>3. CASE ~NamesRefusal(a) /\ a.status # 401 /\ NamesTrouble(a)
    <3>1. class \in PassingCodes
      BY <2>3, ClassFacts DEF class
    <3> QED
      BY <1>1, <1>4, <2>3, <3>1 DEF Passing
  <2>4. CASE ~NamesRefusal(a) /\ a.status # 401 /\ ~NamesTrouble(a)
    <3>1. class = Unclassified
      BY <2>4, ClassFacts DEF class
    <3>2. Passing(a) <=> a.status \in PassingStatuses
      BY <2>4 DEF Passing, PassingStatuses
    <3> QED
      BY <1>1, <1>2, <1>3, <3>1, <3>2
  <2> QED
    BY <2>1, <2>2, <2>3, <2>4
<1>6. \A c \in PassingCodes : Retryable(c)
  BY DEF PassingCodes, Retryable
<1>7. \A c \in FinalCodes : ~Retryable(c)
  BY DEF FinalCodes, PassingCodes, APICodes, Retryable
<1> QED
  BY <1>4, <1>5, <1>6, <1>7 DEF code

LEMMA KeepsRefuse ==
    ASSUME AttemptOK, APIOK, sender' = sender, Refuse
    PROVE  AttemptOK' /\ APIOK'
<1>1. /\ job.stage = "send" /\ ~valid /\ SendReturns("message_missing_receiver")
      /\ attempt' = attempt
      /\ provider' = provider /\ valid' = valid /\ answer' = answer /\ taken' = taken
      /\ lost' = lost
  BY DEF Refuse, apiVars
<1>2. /\ "message_missing_receiver" \in ErrorCodes
      /\ ~Retryable("message_missing_receiver")
  BY DEF ErrorCodes, MessageCodes, Retryable
<1>3. AttemptOK' /\ job'.stage = "outcome" /\ job'.action = "dead_letter"
  BY <1>1, <1>2, ReturnFacts, NoErrorIsNoCode
<1>4. TakenOK'
  BY <1>1, <1>3 DEF APIOK, TakenOK, AttemptOK
<1> QED
  BY <1>1, <1>3, <1>4 DEF APIOK, AnswerOK

\* The provider takes the email exactly when it answers 2xx; unless that answer was read the attempt
\* fails with a code that is retried.
LEMMA KeepsPost ==
    ASSUME AttemptOK, APIOK, sender' = sender, sender \in {"resend", "zeptomail"}, Post
    PROVE  AttemptOK' /\ APIOK'
<1>1. PICK a \in Answers(provider), arrives \in BOOLEAN :
         LET seen == IF arrives THEN a ELSE NoAnswer
             result == doRequest(seen, TRUE)
             err == IF result = "ok" THEN NoError ELSE describeAPIError(provider, seen, result)
             accepts == a.status \in 200..299
         IN  /\ answer' = seen
             /\ taken' = IF accepts THEN taken \cup {attempt} ELSE taken
             /\ lost' = IF accepts /\ (~arrives \/ ~a.readable) THEN lost \cup {attempt} ELSE lost
             /\ SendReturns(err)
  BY DEF Post
<1> DEFINE seen == IF arrives THEN a ELSE NoAnswer
           result == doRequest(seen, TRUE)
           err == IF result = "ok" THEN NoError ELSE describeAPIError(provider, seen, result)
           accepts == a.status \in 200..299
<1>2. /\ answer' = seen
      /\ taken' = IF accepts THEN taken \cup {attempt} ELSE taken
      /\ lost' = IF accepts /\ (~arrives \/ ~a.readable) THEN lost \cup {attempt} ELSE lost
      /\ SendReturns(err)
  BY <1>1
<1>3. /\ job.stage = "send" /\ attempt \notin taken /\ attempt \in Nat \ {0}
      /\ attempt' = attempt /\ provider' = provider /\ valid' = valid
      /\ provider \in {"resend", "zeptomail"}
  BY DEF Post, APIOK, TakenOK, AttemptOK
<1>4. /\ a # NoAnswer /\ a.readable \in BOOLEAN
      /\ IsError(a.status) <=> ~accepts
  BY <1>3, AnswerFacts
<1>5. result = IF ~arrives THEN "transport"
               ELSE IF IsError(a.status) THEN "status"
               ELSE IF a.readable THEN "ok" ELSE "undecodable"
  BY <1>4 DEF doRequest
<1>6. /\ result # "ok" /\ result # "status" => err = "api_connection_failed"
      /\ result = "status" => err = describeAPIError(provider, a, "status")
      /\ result = "ok" => err = NoError
  BY <1>5 DEF describeAPIError
<1>7. /\ "api_connection_failed" \in ErrorCodes /\ Retryable("api_connection_failed")
      /\ APICodes \subseteq ErrorCodes
      /\ NoError \notin ErrorCodes
  BY NoErrorIsNoCode DEF ErrorCodes, APICodes, Retryable
<1>8. result = "status" =>
         /\ err \in APICodes
         /\ Passing(a) <=> Retryable(err)
  BY <1>3, <1>5, <1>6, DescribeFacts
<1> HIDE DEF seen, result, err, accepts
<1>9. err \in ErrorCodes \cup {NoError} /\ (err = NoError <=> result = "ok")
  BY <1>6, <1>7, <1>8
<1>10. /\ AttemptOK' /\ job'.stage = "outcome"
       /\ err = NoError => job'.action = "done"
       /\ err # NoError /\ attempt < MaxAttempts /\ Retryable(err) => job'.action = "retry"
       /\ err # NoError /\ ~(attempt < MaxAttempts /\ Retryable(err)) => job'.action = "dead_letter"
  BY <1>2, <1>3, <1>9, ReturnFacts
<1>11. /\ job'.action = "done" => err = NoError
       /\ job'.action = "done" => accepts /\ arrives /\ a.readable
       /\ accepts /\ job'.action # "done" => ~arrives \/ ~a.readable
  BY <1>4, <1>5, <1>9, <1>10
<1>12. TakenOK'
  <2>1. taken' \subseteq 1..attempt' /\ lost' \subseteq taken'
    BY <1>2, <1>3, <1>4 DEF APIOK, TakenOK
  <2>2. \A n \in taken' : n # attempt \/ job'.action # "done" => n \in lost'
    BY <1>2, <1>3, <1>11 DEF APIOK, TakenOK, AttemptOK
  <2>3. job'.action = "done" => attempt' \in taken'
    BY <1>2, <1>3, <1>11
  <2> QED
    BY <1>3, <1>10, <2>1, <2>2, <2>3 DEF TakenOK
<1>13. AnswerOK'
  <2> SUFFICES ASSUME answer' # NoAnswer, IsError(answer'.status)
               PROVE  /\ Passing(answer') /\ attempt' < MaxAttempts => job'.action = "retry"
                      /\ ~Passing(answer') => job'.action = "dead_letter"
    BY DEF AnswerOK, Passing, NamesRefusal, NamesTrouble
  <2>1. answer' = a /\ result = "status"
    BY <1>2, <1>4, <1>5 DEF seen
  <2> QED
    BY <1>3, <1>8, <1>9, <1>10, <2>1
<1> QED
  BY <1>3, <1>10, <1>12, <1>13 DEF APIOK

LEMMA KeepsAPIRetry ==
    ASSUME AttemptOK, APIOK, sender' = sender, APIRetry
    PROVE  AttemptOK' /\ APIOK'
<1>1. /\ AttemptOK' /\ job'.stage = "send" /\ attempt' = attempt + 1 /\ attempt \in Nat \ {0}
      /\ job.action = "retry" /\ job'.action = "none"
  BY NextAttemptOK DEF APIRetry, NextAttempt, AttemptOK
<1>2. /\ provider' = provider /\ valid' = valid /\ answer' = NoAnswer
      /\ taken' = taken /\ lost' = lost
  BY DEF APIRetry
<1>3. TakenOK'
  BY <1>1, <1>2 DEF APIOK, TakenOK
<1> QED
  BY <1>1, <1>2, <1>3 DEF APIOK, AnswerOK

LEMMA KeepsAPI ==
    ASSUME AttemptOK, APIOK, sender' = sender, sender \in {"resend", "zeptomail"}, APINext
    PROVE  AttemptOK' /\ APIOK'
BY KeepsRefuse, KeepsPost, KeepsAPIRetry DEF APINext

\* Another sender's attempts say nothing about the API, and the other way round.
LEMMA APIUntouched ==
    ASSUME AttemptOK', APIOK, sender' = sender, sender \notin {"resend", "zeptomail"},
           UNCHANGED apiVars
    PROVE  APIOK'
BY DEF apiVars, APIOK, TakenOK, AnswerOK, AttemptOK

LEMMA SMTPUntouched ==
    ASSUME AttemptOK', SMTPOK, sender' = sender, sender # "smtp", UNCHANGED smtpVars
    PROVE  SMTPOK'
<1>1. step = "validate" /\ deliveries = {} /\ fault = NoFault
  BY DEF SMTPOK, DeliveriesOK, FaultOK
<1> QED
  BY <1>1 DEF smtpVars, SMTPOK, EnvelopeOK, FaultOK, DeliveriesOK, validateEmail, allRecipients

-----------------------------------------------------------------------------
(***************************************************************************)
(* Zoho Mail and its token cache.                                          *)
(***************************************************************************)

Places == {"idle", "token", "refreshing", "call", "calling", "invalidate"}

ZohoTyped ==
    /\ clock \in Nat
    /\ expiry \in Seq(Nat)
    /\ token \in 0..Len(expiry)
    /\ expiresAt \in Int
    /\ mu \in Senders \cup {NoSender}
    /\ pc \in [Senders -> Places]
    /\ held \in [Senders -> 0..Len(expiry)]
    /\ since \in [Senders -> Nat]
    /\ uploads \in [Senders -> Nat]
    /\ dropped \subseteq 1..Len(expiry)

\* A sender holds a token from the answer of Zoho to the end of its Send.
HeldOK ==
    \A s \in Senders :
        /\ pc[s] \in {"idle", "token"} => held[s] = 0
        /\ pc[s] \in {"call", "calling", "invalidate"} => held[s] # 0

\* A refresh has the mutex to itself and ends within Timeout, and what Zoho issued for it has
\* ExpiresIn to live since, and nobody else has seen it.
RefreshOK ==
    \A s \in Senders : pc[s] = "refreshing" =>
        /\ mu = s
        /\ since[s] <= clock /\ clock <= since[s] + Timeout
        /\ held[s] # 0 =>
              /\ held[s] \notin dropped
              /\ expiry[held[s]] >= since[s] + ExpiresIn

\* The cache is renewed the margin before its token expires, or later by what the answer of a refresh
\* took; and it never holds a token that was rejected.
CacheOK ==
    /\ token \notin dropped
    /\ token # 0 => expiresAt + Margin <= expiry[token] + Timeout

\* A failure is reported with a code that is retried exactly when it may pass.
EndOK(how) ==
    how.status # 200 =>
        (Retryable(how.code) <=>
            IF how.at = "messages" THEN how.status \in {0, 429, 500} /\ ~how.names
            ELSE how.status = 0)

LastOK == EndOK(last)

ZohoOK == ZohoTyped /\ HeldOK /\ RefreshOK /\ CacheOK /\ LastOK

LEMMA InitZohoOK == ZohoInit => ZohoOK
<1> SUFFICES ASSUME ZohoInit PROVE ZohoOK
  OBVIOUS
<1>1. ZohoTyped
  BY DEF ZohoInit, ZohoTyped, Places
<1>2. HeldOK /\ RefreshOK /\ CacheOK
  BY DEF ZohoInit, HeldOK, RefreshOK, CacheOK
<1>3. LastOK
  BY DEF ZohoInit, LastOK, EndOK, Accepted
<1> QED
  BY <1>1, <1>2, <1>3 DEF ZohoOK

LEMMA KeepsTick ==
    ASSUME ZohoOK, Tick PROVE ZohoOK'
<1>1. ZohoTyped' /\ HeldOK' /\ CacheOK' /\ LastOK'
  BY DEF Tick, issuedVars, cacheVars, ZohoOK, ZohoTyped, HeldOK, CacheOK, LastOK
<1>2. RefreshOK'
  BY DEF Tick, issuedVars, cacheVars, ZohoOK, ZohoTyped, RefreshOK
<1> QED
  BY <1>1, <1>2 DEF ZohoOK

LEMMA KeepsRevoke ==
    ASSUME ZohoOK, NEW t \in Issued, Revoke(t) PROVE ZohoOK'
BY DEF Revoke, cacheVars, ZohoOK, ZohoTyped, HeldOK, RefreshOK, CacheOK, LastOK

LEMMA KeepsBegin ==
    ASSUME ZohoOK, NEW s \in Senders, Begin(s) PROVE ZohoOK'
<1>1. PICK n \in 0..MaxAttachments : uploads' = [uploads EXCEPT ![s] = n]
  BY DEF Begin
<1>2. ZohoTyped'
  BY <1>1 DEF Begin, issuedVars, cacheVars, ZohoOK, ZohoTyped, Places
<1>3. HeldOK' /\ RefreshOK' /\ CacheOK' /\ LastOK'
  BY DEF Begin, issuedVars, cacheVars, ZohoOK, ZohoTyped, HeldOK, RefreshOK, CacheOK, LastOK
<1> QED
  BY <1>2, <1>3 DEF ZohoOK

LEMMA KeepsTokenCached ==
    ASSUME ZohoOK, NEW s \in Senders, TokenCached(s) PROVE ZohoOK'
<1>1. ZohoTyped'
  BY DEF TokenCached, issuedVars, cacheVars, ZohoOK, ZohoTyped, Places
<1>2. HeldOK' /\ RefreshOK' /\ CacheOK' /\ LastOK'
  BY DEF TokenCached, issuedVars, cacheVars, ZohoOK, ZohoTyped, HeldOK, RefreshOK, CacheOK, LastOK
<1> QED
  BY <1>1, <1>2 DEF ZohoOK

LEMMA KeepsTokenRefresh ==
    ASSUME ZohoOK, NEW s \in Senders, TokenRefresh(s) PROVE ZohoOK'
<1>1. ZohoTyped'
  BY DEF TokenRefresh, issuedVars, ZohoOK, ZohoTyped, Places
<1>2. HeldOK' /\ CacheOK' /\ LastOK'
  BY DEF TokenRefresh, issuedVars, ZohoOK, ZohoTyped, HeldOK, CacheOK, LastOK
<1>3. \A r \in Senders : r # s => pc[r] # "refreshing"
  BY DEF TokenRefresh, ZohoOK, ZohoTyped, RefreshOK
<1>4. RefreshOK'
  BY <1>3 DEF TokenRefresh, issuedVars, ZohoOK, ZohoTyped, HeldOK, RefreshOK
<1> QED
  BY <1>1, <1>2, <1>4 DEF ZohoOK

LEMMA KeepsIssue ==
    ASSUME ZohoOK, NEW s \in Senders, Issue(s) PROVE ZohoOK'
<1> DEFINE n == Len(expiry) + 1
<1>1. /\ pc[s] = "refreshing" /\ held[s] = 0 /\ mu = s
      /\ expiry' = Append(expiry, clock + ExpiresIn)
      /\ held' = [held EXCEPT ![s] = n]
      /\ clock' = clock /\ token' = token /\ expiresAt' = expiresAt /\ mu' = mu
      /\ pc' = pc /\ since' = since /\ uploads' = uploads /\ last' = last /\ dropped' = dropped
  BY DEF Issue, cacheVars, ZohoOK, RefreshOK
<1>2. clock + ExpiresIn \in Nat /\ expiry \in Seq(Nat)
  BY DEF ZohoOK, ZohoTyped
<1>3. /\ expiry' \in Seq(Nat) /\ Len(expiry') = n /\ n \in Nat /\ n # 0
      /\ expiry'[n] = clock + ExpiresIn
      /\ \A i \in 1..Len(expiry) : expiry'[i] = expiry[i]
  BY <1>1, <1>2
<1>4. Len(expiry) \in Nat
  BY <1>2
<1>5. ZohoTyped'
  BY <1>1, <1>3, <1>4 DEF ZohoOK, ZohoTyped
<1>6. HeldOK' /\ CacheOK' /\ LastOK'
  BY <1>1, <1>3, <1>4 DEF ZohoOK, ZohoTyped, HeldOK, CacheOK, LastOK
<1>7. \A r \in Senders : r # s => pc[r] # "refreshing"
  BY <1>1 DEF ZohoOK, RefreshOK
<1>8. n \notin dropped /\ clock >= since[s]
  BY <1>1, <1>4 DEF ZohoOK, ZohoTyped, RefreshOK
<1>9. RefreshOK'
  BY <1>1, <1>3, <1>4, <1>7, <1>8 DEF ZohoOK, ZohoTyped, RefreshOK
<1> QED
  BY <1>5, <1>6, <1>9 DEF ZohoOK

\* The cached token expires no earlier than what the cache counts, less the time its answer took.
LEMMA KeepsRefreshed ==
    ASSUME ZohoOK, NEW s \in Senders, Refreshed(s) PROVE ZohoOK'
<1>1. /\ pc[s] = "refreshing" /\ held[s] # 0 /\ mu = s
      /\ token' = held[s] /\ expiresAt' = clock + ExpiresIn - Margin /\ mu' = NoSender
      /\ since' = [since EXCEPT ![s] = 0] /\ pc' = [pc EXCEPT ![s] = "call"]
      /\ clock' = clock /\ expiry' = expiry /\ held' = held /\ uploads' = uploads
      /\ last' = last /\ dropped' = dropped
  BY DEF Refreshed, issuedVars, ZohoOK, RefreshOK
<1>2. ZohoTyped'
  BY <1>1 DEF ZohoOK, ZohoTyped, Places
<1>3. /\ held[s] \notin dropped
      /\ expiry[held[s]] >= since[s] + ExpiresIn /\ clock <= since[s] + Timeout
      /\ expiry[held[s]] \in Nat /\ since[s] \in Nat /\ clock \in Nat
  BY <1>1 DEF ZohoOK, ZohoTyped, RefreshOK
<1>4. CacheOK'
  BY <1>1, <1>3 DEF CacheOK
<1>5. \A r \in Senders : r # s => pc[r] # "refreshing"
  BY <1>1 DEF ZohoOK, RefreshOK
<1>6. HeldOK' /\ RefreshOK' /\ LastOK'
  BY <1>1, <1>5 DEF ZohoOK, ZohoTyped, HeldOK, RefreshOK, LastOK
<1> QED
  BY <1>2, <1>4, <1>6 DEF ZohoOK

\* A sender that returns holds no token and makes no call.
LEMMA ReturnKeeps ==
    ASSUME ZohoOK, NEW s \in Senders, NEW how, ReturnFrom(s, how),
           UNCHANGED << clock, expiry, token, expiresAt, dropped >>,
           mu' = mu \/ (mu' = NoSender /\ mu = s),
           EndOK(how)
    PROVE  ZohoOK'
<1>1. ZohoTyped'
  BY DEF ReturnFrom, ZohoOK, ZohoTyped, Places
<1>2. HeldOK' /\ CacheOK'
  BY DEF ReturnFrom, ZohoOK, ZohoTyped, HeldOK, CacheOK
<1>3. RefreshOK'
  BY DEF ReturnFrom, ZohoOK, ZohoTyped, RefreshOK
<1>4. LastOK'
  BY DEF ReturnFrom, LastOK
<1> QED
  BY <1>1, <1>2, <1>3, <1>4 DEF ZohoOK

\* The answers that fail a call.
LEMMA RefusalFacts ==
    ASSUME NEW a \in Refusals
    PROVE  \/ a = NoAnswer
           \/ /\ a.status \in {400, 429, 500} /\ a.mention \in {"nothing", "recipient"}
              /\ a.readable /\ a # NoAnswer
<1> DEFINE Plain == [status: {400, 429, 500}, readable: {TRUE}, name: {"other"},
                     details: {<< >>}, mention: {"nothing"}]
           Named == [NoAnswer EXCEPT !.status = 500, !.readable = TRUE, !.mention = "recipient"]
<1>1. Refusals = {NoAnswer} \cup Plain \cup {Named}
  BY DEF Refusals
<1>2. Named.mention = "recipient" /\ Named.status = 500 /\ Named.readable /\ Named # NoAnswer
  BY DEF NoAnswer
<1>3. \A b \in Plain : /\ b.status \in {400, 429, 500} /\ b.mention = "nothing" /\ b.readable
                       /\ b # NoAnswer
  <2> TAKE b \in Plain
  <2>1. b.status \in {400, 429, 500} /\ b.mention = "nothing"
    OBVIOUS
  <2>2. b.readable
    <3>1. b.readable \in {TRUE}
      OBVIOUS
    <3> QED
      BY <3>1, Zenon
  <2>3. b # NoAnswer
    BY <2>1 DEF NoAnswer
  <2> HIDE DEF Plain
  <2> QED
    BY <2>1, <2>2, <2>3, Zenon
<1> HIDE DEF Plain, Named
<1> QED
  BY <1>1, <1>2, <1>3

\* A rejected refresh is final; one that is not answered may pass.
LEMMA RefreshFailureFacts ==
    ASSUME NEW a \in Refusals \cup {Undecodable, WithoutToken}
    PROVE  EndOK(Failure(describeRefreshError(a), "accounts", a))
<1> DEFINE how == Failure(describeRefreshError(a), "accounts", a)
<1>1. how.code = describeRefreshError(a) /\ how.at = "accounts" /\ how.status = a.status
  BY DEF Failure
<1> HIDE DEF how
<1>2. CASE a = NoAnswer
  <2>1. doRequest(a, TRUE) = "transport" /\ a.status = 0
    BY <1>2 DEF doRequest, NoAnswer
  <2>2. describeRefreshError(a) = "api_connection_failed"
    BY <2>1 DEF describeRefreshError, describeAPIError
  <2> QED
    BY <1>1, <2>1, <2>2 DEF how, EndOK, Retryable
<1>3. CASE a = Undecodable \/ a = WithoutToken
  <2>1. a.status = 200
    BY <1>3 DEF Undecodable, WithoutToken, NoAnswer
  <2> QED
    BY <1>1, <2>1 DEF how, EndOK
<1>4. CASE a # NoAnswer /\ a.status \in {400, 429, 500}
  <2>1. doRequest(a, TRUE) = "status"
    BY <1>4 DEF doRequest, IsError
  <2>2. describeRefreshError(a) = "api_authorization_denied"
    BY <2>1 DEF describeRefreshError
  <2> QED
    BY <1>1, <1>4, <2>2 DEF how, EndOK, Retryable
<1> QED
  BY <1>2, <1>3, <1>4, RefusalFacts

LEMMA KeepsRefreshFailed ==
    ASSUME ZohoOK, NEW s \in Senders, RefreshFailed(s) PROVE ZohoOK'
<1>1. PICK a \in Refusals \cup {Undecodable, WithoutToken} :
         ReturnFrom(s, Failure(describeRefreshError(a), "accounts", a))
  BY DEF RefreshFailed
<1>2. EndOK(Failure(describeRefreshError(a), "accounts", a))
  BY RefreshFailureFacts
<1>3. mu' = NoSender /\ mu = s /\ UNCHANGED << clock, expiry, token, expiresAt, dropped >>
  BY DEF RefreshFailed, issuedVars, ZohoOK, RefreshOK
<1> QED
  BY <1>1, <1>2, <1>3, ReturnKeeps

LEMMA KeepsCallAPI ==
    ASSUME ZohoOK, NEW s \in Senders, CallAPI(s) PROVE ZohoOK'
<1>1. ZohoTyped'
  BY DEF CallAPI, issuedVars, cacheVars, ZohoOK, ZohoTyped, Places
<1>2. HeldOK' /\ CacheOK' /\ LastOK'
  BY DEF CallAPI, issuedVars, cacheVars, ZohoOK, ZohoTyped, HeldOK, CacheOK, LastOK
<1>3. RefreshOK'
  BY DEF CallAPI, issuedVars, cacheVars, ZohoOK, ZohoTyped, RefreshOK
<1> QED
  BY <1>1, <1>2, <1>3 DEF ZohoOK

LEMMA KeepsCallOk ==
    ASSUME ZohoOK, NEW s \in Senders, CallOk(s) PROVE ZohoOK'
<1>1. CASE uploads[s] > 0
  <2>1. /\ uploads' = [uploads EXCEPT ![s] = uploads[s] - 1]
        /\ pc' = [pc EXCEPT ![s] = "call"] /\ pc[s] = "calling"
        /\ since' = [since EXCEPT ![s] = 0]
        /\ UNCHANGED << clock, issuedVars, cacheVars, held, last, dropped >>
    BY <1>1 DEF CallOk
  <2>2. ZohoTyped'
    BY <1>1, <2>1 DEF issuedVars, cacheVars, ZohoOK, ZohoTyped, Places
  <2>3. HeldOK' /\ CacheOK' /\ LastOK'
    BY <2>1 DEF issuedVars, cacheVars, ZohoOK, ZohoTyped, HeldOK, CacheOK, LastOK
  <2>4. RefreshOK'
    BY <2>1 DEF issuedVars, cacheVars, ZohoOK, ZohoTyped, RefreshOK
  <2> QED
    BY <2>2, <2>3, <2>4 DEF ZohoOK
<1>2. CASE ~(uploads[s] > 0)
  <2>1. /\ ReturnFrom(s, Accepted) /\ mu' = mu
        /\ UNCHANGED << clock, expiry, token, expiresAt, dropped >>
    BY <1>2 DEF CallOk, issuedVars, cacheVars
  <2>2. EndOK(Accepted)
    BY DEF Accepted, EndOK
  <2> QED
    BY <2>1, <2>2, ReturnKeeps
<1> QED
  BY <1>1, <1>2

LEMMA KeepsCallUnauthorized ==
    ASSUME ZohoOK, NEW s \in Senders, CallUnauthorized(s) PROVE ZohoOK'
<1>1. ZohoTyped'
  BY DEF CallUnauthorized, issuedVars, cacheVars, ZohoOK, ZohoTyped, Places
<1>2. HeldOK' /\ CacheOK' /\ LastOK'
  BY DEF CallUnauthorized, issuedVars, cacheVars, ZohoOK, ZohoTyped, HeldOK, CacheOK, LastOK
<1>3. RefreshOK'
  BY DEF CallUnauthorized, issuedVars, cacheVars, ZohoOK, ZohoTyped, RefreshOK
<1> QED
  BY <1>1, <1>2, <1>3 DEF ZohoOK

\* An answer that names a field, or has a final status, gives a code that is not retried.
LEMMA ZohoFailureFacts ==
    ASSUME NEW upload \in BOOLEAN,
           NEW a \in Refusals \cup (IF upload THEN {Undecodable} ELSE {})
    PROVE  EndOK(Failure(describeAPIError("zoho", a, doRequest(a, upload)), "messages", a))
<1> DEFINE code == describeAPIError("zoho", a, doRequest(a, upload))
           how == Failure(code, "messages", a)
<1>1. how.code = code /\ how.at = "messages" /\ how.status = a.status
      /\ how.names = (a.mention # "nothing")
  BY DEF Failure
<1> HIDE DEF how
<1>2. CASE a = NoAnswer
  <2>1. a.status = 0 /\ a.mention = "nothing" /\ doRequest(a, upload) = "transport"
    BY <1>2 DEF NoAnswer, doRequest
  <2>2. code = "api_connection_failed"
    BY <2>1 DEF describeAPIError
  <2> QED
    BY <1>1, <2>1, <2>2 DEF how, EndOK, Retryable
<1>3. CASE a = Undecodable
  <2>1. a.status = 200
    BY <1>3 DEF Undecodable, NoAnswer
  <2> QED
    BY <1>1, <2>1 DEF how, EndOK
<1>4. CASE /\ a # NoAnswer /\ a.readable /\ a.status \in {400, 429, 500}
           /\ a.mention \in {"nothing", "recipient"}
  <2>1. doRequest(a, upload) = "status"
    BY <1>4 DEF doRequest, IsError
  <2>2. classify("zoho", a) = IF a.mention = "recipient" THEN "api_invalid_receiver"
                              ELSE Unclassified
    BY <1>4 DEF classify, classifyZohoMailError, fieldCode
  <2>3. code = IF a.mention = "recipient" THEN "api_invalid_receiver" ELSE codeForStatus(a.status)
    BY <2>1, <2>2 DEF describeAPIError, Unclassified
  <2>4. /\ a.status = 400 => codeForStatus(a.status) = "api_invalid_request"
        /\ a.status = 429 => codeForStatus(a.status) = "api_rate_limited"
        /\ a.status = 500 => codeForStatus(a.status) = "api_provider_unavailable"
    BY DEF codeForStatus
  <2> HIDE DEF code
  <2>5. Retryable(code) <=> a.status \in {429, 500} /\ a.mention = "nothing"
    BY <1>4, <2>3, <2>4 DEF Retryable
  <2>6. how.names <=> a.mention # "nothing"
    BY <1>1
  <2>7. Retryable(how.code) <=> how.status \in {429, 500} /\ ~how.names
    BY <1>1, <2>5, <2>6
  <2>8. EndOK(how)
    BY <1>1, <1>4, <2>7 DEF EndOK
  <2> QED
    BY <2>8 DEF how, code
<1> QED
  BY <1>2, <1>3, <1>4, RefusalFacts DEF how, code

LEMMA KeepsCallFailed ==
    ASSUME ZohoOK, NEW s \in Senders, CallFailed(s) PROVE ZohoOK'
<1> DEFINE upload == uploads[s] > 0
<1>1. PICK a \in Refusals \cup (IF upload THEN {Undecodable} ELSE {}) :
         ReturnFrom(s, Failure(describeAPIError("zoho", a, doRequest(a, upload)), "messages", a))
  BY DEF CallFailed
<1>2. mu' = mu /\ UNCHANGED << clock, expiry, token, expiresAt, dropped >>
  BY DEF CallFailed, issuedVars, cacheVars
<1>3. upload \in BOOLEAN
  OBVIOUS
<1> HIDE DEF upload
<1> DEFINE how == Failure(describeAPIError("zoho", a, doRequest(a, upload)), "messages", a)
<1>4. EndOK(how)
  BY <1>1, <1>3, ZohoFailureFacts
<1> HIDE DEF how
<1>5. ReturnFrom(s, how)
  BY <1>1 DEF how
<1> QED
  BY <1>2, <1>4, <1>5, ReturnKeeps

\* Whatever is cached is dropped; the mutex keeps refreshes away.
LEMMA KeepsInvalidate ==
    ASSUME ZohoOK, NEW s \in Senders, Invalidate(s) PROVE ZohoOK'
<1> DEFINE how ==
             Failure(describeAPIError("zoho", Unauthorized, "status"), "messages", Unauthorized)
<1>1. /\ pc[s] = "invalidate" /\ mu = NoSender /\ token' = 0
      /\ dropped' = dropped \cup {held[s]} /\ mu' = mu
      /\ ReturnFrom(s, how) /\ clock' = clock /\ expiry' = expiry /\ expiresAt' = expiresAt
  BY DEF Invalidate, issuedVars
<1>2. EndOK(how)
  <2>1. /\ how.status = 401 /\ how.at = "messages"
        /\ how.code = describeAPIError("zoho", Unauthorized, "status")
    BY DEF Failure, Unauthorized, NoAnswer
  <2>2. Unauthorized.status = 401 /\ ~Unauthorized.readable
    BY DEF Unauthorized, NoAnswer
  <2>3. classify("zoho", Unauthorized) = Unclassified
    BY <2>2 DEF classify
  <2>4. describeAPIError("zoho", Unauthorized, "status") = "api_authorization_denied"
    BY <2>2, <2>3 DEF describeAPIError, codeForStatus
  <2> HIDE DEF how
  <2> QED
    BY <2>1, <2>4 DEF EndOK, Retryable
<1> HIDE DEF how
<1>3. held[s] \in 1..Len(expiry) /\ Len(expiry) \in Nat
  BY <1>1 DEF ZohoOK, ZohoTyped, HeldOK
<1>4. ZohoTyped'
  <2>1. dropped' \subseteq 1..Len(expiry)
    BY <1>1, <1>3 DEF ZohoOK, ZohoTyped
  <2>2. /\ pc' \in [Senders -> Places] /\ held' \in [Senders -> 0..Len(expiry)]
        /\ since' \in [Senders -> Nat] /\ uploads' \in [Senders -> Nat]
    BY <1>1, <1>3 DEF ReturnFrom, ZohoOK, ZohoTyped, Places
  <2> QED
    BY <1>1, <1>3, <2>1, <2>2 DEF ZohoOK, ZohoTyped
<1>5. HeldOK'
  BY <1>1 DEF ReturnFrom, ZohoOK, ZohoTyped, HeldOK
<1>6. CacheOK'
  BY <1>1, <1>3 DEF ZohoOK, ZohoTyped, CacheOK
<1>7. RefreshOK'
  BY <1>1 DEF ReturnFrom, ZohoOK, ZohoTyped, RefreshOK
<1>8. LastOK'
  BY <1>1, <1>2 DEF ReturnFrom, LastOK
<1> QED
  BY <1>4, <1>5, <1>6, <1>7, <1>8 DEF ZohoOK

LEMMA KeepsZoho == ASSUME ZohoOK, ZohoNext PROVE ZohoOK'
BY KeepsTick, KeepsRevoke, KeepsBegin, KeepsTokenCached, KeepsTokenRefresh, KeepsIssue,
   KeepsRefreshed, KeepsRefreshFailed, KeepsCallAPI, KeepsCallOk, KeepsCallUnauthorized,
   KeepsCallFailed, KeepsInvalidate DEF ZohoNext, Acquire, Proceed

LEMMA ZohoUntouched == ASSUME ZohoOK, UNCHANGED zohoVars PROVE ZohoOK'
BY DEF zohoVars, issuedVars, cacheVars, ZohoOK, ZohoTyped, HeldOK, RefreshOK, CacheOK, LastOK

-----------------------------------------------------------------------------
(***************************************************************************)
(* All of them.                                                            *)
(***************************************************************************)
SendersInv == AttemptOK /\ SMTPOK /\ APIOK /\ ZohoOK

LEMMA InitSenders == SendersInit => SendersInv
<1> SUFFICES ASSUME SendersInit PROVE SendersInv
  OBVIOUS
<1>1. AttemptOK /\ ZohoOK /\ job.stage = "send" /\ job.action = "none"
  <2>1. 1 \in Nat \ {0} /\ job = Call(1)
    BY DEF SendersInit, FirstAttempt
  <2> QED
    BY <2>1, FirstAttemptOK, InitZohoOK, CallIsSent DEF SendersInit
<1>2. /\ email \in Emails /\ step = "validate" /\ envelope = {} /\ fault = NoFault
      /\ deliveries = {}
  BY DEF SendersInit, SMTPInit
<1>3. EnvelopeOK /\ FaultOK /\ DeliveriesOK
  BY <1>1, <1>2 DEF EnvelopeOK, FaultOK, DeliveriesOK, NoFault, Replies, Steps
<1>4. SMTPOK
  BY <1>1, <1>2, <1>3 DEF SMTPOK, Steps
<1>5. APIOK
  BY <1>1 DEF SendersInit, APIInit, APIOK, TakenOK, AnswerOK
<1> QED
  BY <1>1, <1>4, <1>5 DEF SendersInv

LEMMA NextSenders == SendersInv /\ [SendersNext]_senderVars => SendersInv'
<1> SUFFICES ASSUME SendersInv, [SendersNext]_senderVars PROVE SendersInv'
  OBVIOUS
<1> USE DEF SendersInv
<1>1. CASE SendSMTP /\ sender' = sender
  <2>1. AttemptOK' /\ SMTPOK'
    BY <1>1, KeepsSMTP DEF SendSMTP
  <2> QED
    BY <1>1, <2>1, APIUntouched, ZohoUntouched DEF SendSMTP
<1>2. CASE SendAPI /\ sender' = sender
  <2>1. AttemptOK' /\ APIOK'
    BY <1>2, KeepsAPI DEF SendAPI
  <2> QED
    BY <1>2, <2>1, SMTPUntouched, ZohoUntouched DEF SendAPI
<1>3. CASE SendZoho /\ sender' = sender
  <2>1. ZohoOK'
    BY <1>3, KeepsZoho DEF SendZoho
  <2>2. AttemptOK'
    BY <1>3 DEF SendZoho, attemptVars, AttemptOK
  <2> QED
    BY <1>3, <2>1, <2>2, SMTPUntouched, APIUntouched DEF SendZoho
<1>4. CASE UNCHANGED senderVars
  <2>1. AttemptOK' /\ ZohoOK'
    BY <1>4, ZohoUntouched DEF senderVars, attemptVars, AttemptOK
  <2>2. SMTPOK'
    BY <1>4 DEF senderVars, attemptVars, smtpVars, SMTPOK, EnvelopeOK, FaultOK, DeliveriesOK,
                validateEmail, allRecipients
  <2>3. APIOK'
    BY <1>4 DEF senderVars, attemptVars, apiVars, APIOK, TakenOK, AnswerOK
  <2> QED
    BY <2>1, <2>2, <2>3
<1> QED
  BY <1>1, <1>2, <1>3, <1>4 DEF SendersNext

THEOREM SendersInvariant == SendersSpec => []SendersInv
BY InitSenders, NextSenders, PTL DEF SendersSpec

\* An email is handed over at most once over all the attempts, whatever the SMTP server replies and
\* wherever the connection drops (smtp_sender.go:61-86).
THEOREM HandedOverOnce == SendersSpec => []TakenAtMostOnce
<1>1. SendersInv => TakenAtMostOnce
  <2> SUFFICES ASSUME SendersInv PROVE Cardinality(deliveries) <= 1
    BY DEF TakenAtMostOnce
  <2>1. PICK d : deliveries \subseteq {d}
    BY DEF SendersInv, SMTPOK, DeliveriesOK
  <2>2. Cardinality({d}) = 1 /\ IsFiniteSet({d})
    BY FS_Singleton
  <2> QED
    BY <2>1, <2>2, FS_Subset
<1> QED
  BY <1>1, SendersInvariant, PTL

\* What the SMTP server took was complete, and an email reported as sent was taken
\* (smtp_sender.go:52-58).
THEOREM EveryoneIsServed == SendersSpec => []TakenForEveryone
<1>1. SendersInv => TakenForEveryone
  BY DEF SendersInv, SMTPOK, DeliveriesOK, TakenForEveryone
<1> QED
  BY <1>1, SendersInvariant, PTL

\* A provider takes an email twice only if it answered an earlier attempt in vain
\* (http_api.go:48-90).
THEOREM TakenOnce == SendersSpec => []TakenOnceUnlessLost
<1>1. SendersInv => TakenOnceUnlessLost
  <2> SUFFICES ASSUME SendersInv PROVE TakenOnceUnlessLost
    OBVIOUS
  <2>1. TakenOK
    BY DEF SendersInv, APIOK
  <2>2. lost = {} => Cardinality(taken) <= 1
    <3> SUFFICES ASSUME lost = {} PROVE Cardinality(taken) <= 1
      OBVIOUS
    <3>1. taken \subseteq {attempt}
      BY <2>1 DEF TakenOK
    <3>2. Cardinality({attempt}) = 1 /\ IsFiniteSet({attempt})
      BY FS_Singleton
    <3> QED
      BY <3>1, <3>2, FS_Subset
  <2>3. job.action = "dead_letter" /\ attempt \in taken => attempt \in lost
    BY <2>1 DEF TakenOK
  <2> QED
    BY <2>1, <2>2, <2>3 DEF TakenOnceUnlessLost, TakenOK
<1> QED
  BY <1>1, SendersInvariant, PTL

\* A failure that may pass is retried while attempts are left, and any other ends the request at
\* once, for every sender (smtp_sender.go:43-95, resend_sender.go:94-125, zeptomail_sender.go:117-171,
\* http_api.go:77-111, zoho_token_source.go:88-96).
THEOREM RetriesFollowFailures == SendersSpec => []RetriedIfPassing
<1>1. SendersInv => RetriedIfPassing
  BY DEF SendersInv, SMTPOK, FaultOK, APIOK, AnswerOK, ZohoOK, LastOK, EndOK, RetriedIfPassing
<1> QED
  BY <1>1, SendersInvariant, PTL

\* A token that was invalidated is never handed out again, whatever refreshes and callers
\* interleave (zoho_mail_sender.go:49-50).
THEOREM RejectedStaysGone == SendersSpec => []RejectedTokenIsGone
<1>1. SendersInv => RejectedTokenIsGone
  BY DEF SendersInv, ZohoOK, CacheOK, RejectedTokenIsGone
<1> QED
  BY <1>1, SendersInvariant, PTL

\* What is left of the lifetime of a token when it is handed out, for any lifetime, margin and
\* timeout (zoho_token_source.go:39-57).
THEOREM TokensHaveLifeLeft == SendersSpec => LifeLeftAtHandOut
<1>1. SendersInv /\ [SendersNext]_senderVars =>
         [\A s \in Senders :
             /\ FromCache(s) => clock + Margin < expiry[held'[s]] + Timeout
             /\ FromRefresh(s) => clock + ExpiresIn <= expiry[held'[s]] + Timeout]_zohoVars
  <2> SUFFICES ASSUME SendersInv, [SendersNext]_senderVars, zohoVars' # zohoVars,
                      NEW s \in Senders, pc[s] \in {"token", "refreshing"}, pc'[s] = "call"
               PROVE  /\ pc[s] = "token" => clock + Margin < expiry[held'[s]] + Timeout
                      /\ pc[s] = "refreshing" => clock + ExpiresIn <= expiry[held'[s]] + Timeout
    BY DEF FromCache, FromRefresh
  <2>1. ZohoOK
    BY DEF SendersInv
  <2>2. SendZoho
    BY DEF SendersNext, senderVars, SendSMTP, SendAPI
  <2>3. PICK r \in Senders : TokenCached(r) \/ Refreshed(r) \/ CallOk(r)
    <3>1. \/ Tick \/ \E t \in Issued : Revoke(t)
          \/ \E r \in Senders : Begin(r) \/ Acquire(r) \/ Proceed(r)
      BY <2>2 DEF SendZoho, ZohoNext
    <3>2. pc'[s] # pc[s]
      OBVIOUS
    <3> QED
      BY <2>1, <3>1, <3>2
      DEF ZohoOK, ZohoTyped, Tick, Revoke, Begin, Acquire, Proceed, TokenRefresh,
         Issue, RefreshFailed, CallAPI, CallUnauthorized, CallFailed, Invalidate, ReturnFrom
  <2>4. CASE TokenCached(r)
    <3>1. r = s /\ held'[s] = token /\ token # 0 /\ clock < expiresAt /\ pc[s] = "token"
      BY <2>1, <2>4 DEF TokenCached, ZohoOK, ZohoTyped
    <3>2. expiresAt + Margin <= expiry[token] + Timeout
      BY <2>1, <3>1 DEF ZohoOK, CacheOK
    <3>3. clock \in Nat /\ expiresAt \in Int /\ expiry[token] \in Nat /\ Margin \in Nat /\ Timeout \in Nat
      BY <2>1, <3>1, ZohoAssumption DEF ZohoOK, ZohoTyped
    <3>4. clock + Margin < expiry[token] + Timeout
      BY <3>1, <3>2, <3>3
    <3> QED
      BY <3>1, <3>4
  <2>5. CASE Refreshed(r)
    <3>1. r = s /\ held'[s] = held[s] /\ held[s] # 0 /\ pc[s] = "refreshing"
      BY <2>1, <2>5 DEF Refreshed, ZohoOK, ZohoTyped
    <3>2. clock <= since[s] + Timeout /\ expiry[held[s]] >= since[s] + ExpiresIn
      BY <2>1, <3>1 DEF ZohoOK, RefreshOK
    <3>3. /\ clock \in Nat /\ since[s] \in Nat /\ expiry[held[s]] \in Nat
          /\ ExpiresIn \in Nat /\ Timeout \in Nat
      BY <2>1, <3>1, ZohoAssumption DEF ZohoOK, ZohoTyped
    <3>4. clock + ExpiresIn <= expiry[held[s]] + Timeout
      BY <3>2, <3>3
    <3> QED
      BY <3>1, <3>4
  <2>6. CASE CallOk(r)
    BY <2>1, <2>6 DEF CallOk, ReturnFrom, ZohoOK, ZohoTyped
  <2> QED
    BY <2>3, <2>4, <2>5, <2>6
<1> QED
  BY <1>1, SendersInvariant, PTL DEF SendersSpec, LifeLeftAtHandOut

=============================================================================
