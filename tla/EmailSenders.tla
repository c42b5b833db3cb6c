----------------------------- MODULE EmailSenders -----------------------------
(***************************************************************************)
(* The sender of a deployment: the one that MAILER_TRANSPORT and           *)
(* MAILER_API_CLIENT choose (internal/application/config/transport.go,     *)
(* bean/mailer.go, internal/infrastructure/mailer/api_clients.go), and     *)
(* what the README promises of all of them.  A behaviour uses one sender,  *)
(* and the others stay as they are.                                        *)
(***************************************************************************)
EXTENDS Configuration, SMTPSession, ProviderAPI, ZohoMail

VARIABLE sender

senderVars == << sender, attemptVars, smtpVars, apiVars, zohoVars >>

\* What is not used keeps one of its initial states.
SendersInit ==
    /\ sender \in {newSender(env.var) : env \in Environments} \ {Refused}
    /\ FirstAttempt
    /\ SMTPInit
    /\ sender # "smtp" => email \in {CHOOSE e \in Emails : TRUE}
    /\ APIInit
    /\ IF sender \in {"resend", "zeptomail"} THEN provider = sender ELSE provider = "resend" /\ valid
    /\ ZohoInit

SendSMTP == sender = "smtp" /\ SMTPNext /\ UNCHANGED << apiVars, zohoVars >>

SendAPI == sender \in {"resend", "zeptomail"} /\ APINext /\ UNCHANGED << smtpVars, zohoVars >>

SendZoho == sender = "zoho" /\ ZohoNext /\ UNCHANGED << attemptVars, smtpVars, apiVars >>

SendersNext ==
    /\ UNCHANGED sender
    /\ SendSMTP \/ SendAPI \/ SendZoho

\* The fairness of a sender that is not used asks for nothing: none of its steps can be taken.
SendersSpec == SendersInit /\ [][SendersNext]_senderVars /\ ZohoFairness

-----------------------------------------------------------------------------
(***************************************************************************)
(* An email that SMTP reported as sent was taken by the server for every   *)
(* receiver, cc and bcc address, and one that was taken for fewer is never *)
(* delivered (smtp_sender.go:52-58).                                       *)
(***************************************************************************)
TakenForEveryone ==
    /\ \A d \in deliveries : d.to = allRecipients
    /\ sender = "smtp" /\ job.action = "done" => deliveries # {}

(***************************************************************************)
(* An email is taken by the API of a provider twice only if the answer to  *)
(* an earlier attempt was lost or unreadable; and one reported as sent, or *)
(* not reported at all, agrees with what the provider did                  *)
(* (http_api.go:48-90, resend_sender.go:52-70, zeptomail_sender.go:69-87). *)
(***************************************************************************)
TakenOnceUnlessLost ==
    /\ lost = {} => Cardinality(taken) <= 1
    /\ sender \in {"resend", "zeptomail"} =>
          /\ job.action = "done" => attempt \in taken
          /\ job.action = "dead_letter" /\ attempt \in taken => attempt \in lost

\* What the body of an answer says: that the request is refused, or that the trouble will pass.
NamesRefusal(a) ==
    /\ a.readable
    /\ \/ a.name \notin {"rate_limit_exceeded", "service_unavailable", "other"}
       \/ \E i \in 1..Len(a.details) : a.details[i] # "other"

NamesTrouble(a) == a.readable /\ a.name \in {"rate_limit_exceeded", "service_unavailable"}

\* A refusal in the body counts, whatever the status; then a 401, trouble in the body, the status.
Passing(a) ==
    /\ ~NamesRefusal(a)
    /\ a.status \in {429, 500, 503} \/ (a.status # 401 /\ NamesTrouble(a))

(***************************************************************************)
(* A failure that may pass is retried while attempts are left, and any     *)
(* other ends the request at once.                                         *)
(*   SMTP: what fails before AUTH and every 4xx reply may pass; a 5xx      *)
(*   reply and a connection that drops from AUTH on do not.                *)
(*   Resend, ZeptoMail: 429 and 5xx may pass unless the body names a       *)
(*   refusal, and so does another status (401 excepted) with a body that   *)
(*   names a rate limit or an outage.                                      *)
(*   Zoho: 429, 5xx and a lost answer may pass unless the body mentions a  *)
(*   field of the email; of a refresh, a lost answer only.                 *)
(* (smtp_sender.go:43-95, resend_sender.go:94-125, zeptomail_sender.go     *)
(* 117-171, http_api.go:77-111, zoho_token_source.go:88-96)  README.md has *)
(* "Provider 5xx - retried" without these exceptions (README.md:118-132).  *)
(***************************************************************************)
RetriedIfPassing ==
    /\ step = "returned" /\ fault.reply # "ok" =>
          LET passing == fault.reply = "4xx" \/ fault.at \in {"dial", "greet"} IN
          /\ passing /\ attempt < MaxAttempts => job.action = "retry"
          /\ ~passing => job.action = "dead_letter"
    /\ job.stage = "outcome" /\ valid /\ answer # NoAnswer /\ IsError(answer.status) =>
          /\ Passing(answer) /\ attempt < MaxAttempts => job.action = "retry"
          /\ ~Passing(answer) => job.action = "dead_letter"
    /\ last.status # 200 =>
          (Retryable(last.code) <=>
              IF last.at = "messages" THEN last.status \in {0, 429, 500} /\ ~last.names
              ELSE last.status = 0)

=============================================================================
