------------------------------ MODULE SMTPSession ------------------------------
(***************************************************************************)
(* Sending one email over SMTP: the sessions of smtpSender.Send            *)
(* (internal/infrastructure/mailer/smtp_sender.go), one per attempt that   *)
(* the delivery service makes, against a server that may refuse any        *)
(* command for a time or for good, and a connection that may drop at any   *)
(* point - also after the server has taken the message and before its      *)
(* reply arrives.                                                          *)
(*                                                                         *)
(* A reply is "ok", temporary ("4xx"), permanent ("5xx"), or "dropped": an *)
(* error that is no reply at all.                                          *)
(***************************************************************************)
EXTENDS DeliveryAttempts, FiniteSets

CONSTANTS
    MaxReceivers,   \* receivers of the email
    MaxCopies       \* cc and bcc addresses of the email

ASSUME SMTPAssumption ==
    /\ MaxReceivers \in Nat \ {0}
    /\ MaxCopies \in Nat

VARIABLES
    email,      \* what validateEmail and the envelope look at
    step,       \* the next step of the session
    envelope,   \* the recipients the server has taken in this session
    fault,      \* the step that failed in this session and how
    deliveries  \* for each message the server took, the recipients it took it for

smtpVars == << email, step, envelope, fault, deliveries >>

Emails == [from: BOOLEAN, receivers: 0..MaxReceivers, copies: 0..MaxCopies,
           subject: BOOLEAN, body: BOOLEAN]

Steps == {"validate", "dial", "greet", "auth", "mail", "rcpt", "data", "write", "end", "returned"}

Replies == {"ok", "4xx", "5xx", "dropped"}

NoFault == [at |-> "returned", reply |-> "ok"]

\* Every envelope recipient: receiver, cc and bcc.
allRecipients == 1..(email.receivers + email.copies)

-----------------------------------------------------------------------------
\* The first field that is missing, or NoError.
validateEmail ==
    CASE ~email.from -> "message_missing_sender"
      [] email.from /\ email.receivers = 0 -> "message_missing_receiver"
      [] email.from /\ email.receivers > 0 /\ ~email.subject -> "message_missing_subject"
      [] email.from /\ email.receivers > 0 /\ email.subject /\ ~email.body -> "message_missing_body"
      [] OTHER -> NoError

Return(err) == step' = "returned" /\ SendReturns(err)

\* A command that is answered with reply: on to the next step, or out with the code of this one.
Command(at, next, reply, code) ==
    /\ step = at
    /\ IF reply = "ok"
       THEN /\ step' = next
            /\ UNCHANGED << fault, job >>
       ELSE /\ Return(code)
            /\ fault' = [at |-> at, reply |-> reply]
    /\ UNCHANGED << email, attempt >>

-----------------------------------------------------------------------------
Validate ==
    /\ step = "validate"
    /\ IF validateEmail = NoError
       THEN step' = "dial" /\ UNCHANGED job
       ELSE Return(validateEmail)
    /\ UNCHANGED << email, attempt, envelope, fault, deliveries >>

\* tls.Dial, and smtp.NewClient, which reads the greeting.
Connect(reply) ==
    /\ \/ Command("dial", "greet", reply, "smtp_connection_failed") /\ reply \in {"ok", "dropped"}
       \/ Command("greet", "auth", reply, "smtp_connection_failed")
    /\ UNCHANGED << envelope, deliveries >>

\* EHLO and AUTH.
Auth(reply) ==
    /\ Command("auth", "mail", reply, smtpCode("smtp_authorization_denied", reply))
    /\ UNCHANGED << envelope, deliveries >>

Mail(reply) ==
    /\ Command("mail", "rcpt", reply, smtpCode("smtp_sender_rejected", reply))
    /\ UNCHANGED << envelope, deliveries >>

\* Mutant: a recipient the server refuses for good is skipped.
RcptSkipped(reply) ==
    LET recipient == Cardinality(envelope) + 1
        last == recipient = Cardinality(allRecipients)
        answer == IF reply = "5xx" THEN "ok" ELSE reply
    IN  /\ Command("rcpt", IF last THEN "data" ELSE "rcpt", answer,
                   smtpCode("smtp_receiver_rejected", answer))
        /\ envelope' = IF reply = "ok" THEN envelope \cup {recipient} ELSE envelope
        /\ UNCHANGED deliveries

\* One RCPT per recipient; the first that fails ends the session.
Rcpt(reply) ==
    LET recipient == Cardinality(envelope) + 1
        last == recipient = Cardinality(allRecipients)
    IN  /\ Command("rcpt", IF last THEN "data" ELSE "rcpt", reply,
                   smtpCode("smtp_receiver_rejected", reply))
        /\ envelope' = IF reply = "ok" THEN envelope \cup {recipient} ELSE envelope
        /\ UNCHANGED deliveries

Data(reply) ==
    /\ Command("data", "write", reply, smtpCode("smtp_message_rejected", reply))
    /\ UNCHANGED << envelope, deliveries >>

\* The message is written; the only error is that of the connection, and then closing the writer
\* does not reach the server either.
Write(reply) ==
    /\ reply \in {"ok", "dropped"}
    /\ Command("write", "end", reply, smtpCode("smtp_message_rejected", reply))
    /\ UNCHANGED << envelope, deliveries >>

\* The final dot.  The server takes the message or refuses it; its reply may be lost either way.
EndOfData(taken, reply) ==
    /\ reply = "ok" => taken
    /\ reply \in {"4xx", "5xx"} => ~taken
    /\ IF reply = "ok"
       THEN /\ step = "end"
            /\ Return(NoError)
            /\ UNCHANGED << email, attempt, fault >>
       ELSE Command("end", "returned", reply, smtpCode("smtp_message_rejected", reply))
    /\ deliveries' = IF taken THEN deliveries \cup {[attempt |-> attempt, to |-> envelope]}
                     ELSE deliveries
    /\ UNCHANGED envelope

\* The next attempt begins a session of its own.
SMTPRetry ==
    /\ NextAttempt
    /\ step' = "validate"
    /\ envelope' = {}
    /\ fault' = NoFault
    /\ UNCHANGED << email, deliveries >>

SMTPInit ==
    /\ email \in Emails
    /\ step = "validate"
    /\ envelope = {}
    /\ fault = NoFault
    /\ deliveries = {}

Session ==
    \/ Validate
    \/ \E reply \in Replies :
          \/ Connect(reply) \/ Auth(reply) \/ Mail(reply) \/ Rcpt(reply) \/ Data(reply)
          \/ Write(reply) \/ \E taken \in BOOLEAN : EndOfData(taken, reply)

SMTPNext == Session \/ SMTPRetry

-----------------------------------------------------------------------------
(***************************************************************************)
(* A message is handed over at most once over all the attempts: whatever   *)
(* the server may have taken is never reported with a code that is         *)
(* retried, even when its reply is lost (smtp_sender.go:61-86,             *)
(* error_code.go:46-54).                                                   *)
(***************************************************************************)
TakenAtMostOnce == Cardinality(deliveries) <= 1

=============================================================================
