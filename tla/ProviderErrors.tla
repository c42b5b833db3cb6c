---------------------------- MODULE ProviderErrors ----------------------------
(***************************************************************************)
(* How the answer of a provider becomes an error code: the reply of an     *)
(* SMTP server (internal/infrastructure/mailer/smtp_sender.go), and the    *)
(* answer of an HTTP API (http_api.go and the classifiers of the three API *)
(* senders).                                                               *)
(*                                                                         *)
(* A reply is "ok", temporary ("4xx"), permanent ("5xx"), or "dropped": an *)
(* error that is no reply at all.  An answer is NoAnswer (the call failed  *)
(* below HTTP), or a status with a body: whether it is the JSON the sender *)
(* expects, the error name or code it carries, the codes of its details,   *)
(* and the field of the email that its message mentions.                   *)
(***************************************************************************)
EXTENDS MailerService, Sequences

\* Mutant: an error without a reply is temporary too.
smtpCodeDropped(stepCode, reply) ==
    IF reply \in {"4xx", "dropped"} THEN "smtp_temporary_failure" ELSE stepCode

\* Mutant: only the code of the step counts.
smtpCodeStep(stepCode, reply) == stepCode

\* 4xx replies are temporary; anything else keeps the code of the step that failed.
smtpCode(stepCode, reply) == IF reply = "4xx" THEN "smtp_temporary_failure" ELSE stepCode

-----------------------------------------------------------------------------
Mentions == {"from", "recipient", "nothing"}

\* An empty error code: not classified.
Unclassified == "unclassified"

\* Mutant: only 200 is a success.
IsErrorStrict(status) == status # 200

IsError(status) == status < 200 \/ status >= 300

\* Mutant: the range of the server errors is a single status.
codeForStatus500(status) ==
    CASE status \in {401, 403} -> "api_authorization_denied"
      [] status = 429 -> "api_rate_limited"
      [] status = 413 -> "api_invalid_attachment"
      [] status = 500 -> "api_provider_unavailable"
      [] status \in {400, 422} -> "api_invalid_request"
      [] OTHER -> "api_unexpected_response"

\* The default classification of an error status.
codeForStatus(status) ==
    CASE status \in {401, 403} -> "api_authorization_denied"
      [] status = 429 -> "api_rate_limited"
      [] status = 413 -> "api_invalid_attachment"
      [] status >= 500 -> "api_provider_unavailable"
      [] status \in {400, 422} -> "api_invalid_request"
      [] OTHER -> "api_unexpected_response"

\* A validation message is classified by the field it mentions.
fieldCode(mention, fallback) ==
    CASE mention = "from" -> "api_sender_not_allowed"
      [] mention = "recipient" -> "api_invalid_receiver"
      [] OTHER -> fallback

-----------------------------------------------------------------------------
resendErrorCode(status, name, mention) ==
    CASE status = 401 -> "api_authorization_denied"
      [] status # 401 /\ name = "invalid_api_key" -> "api_authorization_denied"
      [] status # 401 /\ name = "invalid_from_address" -> "api_sender_not_allowed"
      [] status # 401 /\ name = "invalid_attachment" -> "api_invalid_attachment"
      [] status # 401 /\ name = "daily_quota_exceeded" -> "api_quota_exceeded"
      [] status # 401 /\ name = "rate_limit_exceeded" -> "api_rate_limited"
      [] status # 401 /\ name = "service_unavailable" -> "api_provider_unavailable"
      [] status # 401 /\ name = "validation_error" ->
            IF status = 403 THEN "api_sender_not_allowed"
            ELSE fieldCode(mention, "api_invalid_request")
      [] OTHER -> Unclassified

\* The names the switch of resendErrorCode lists, one per case, and one it does not know.
ResendNames ==
    {"invalid_api_key", "invalid_from_address", "invalid_attachment", "daily_quota_exceeded",
     "rate_limit_exceeded", "service_unavailable", "validation_error", "other"}

zeptoMailDetailCode(detail, mention) ==
    CASE detail = "SERR_157" -> "api_authorization_denied"
      [] detail = "SM_111" -> "api_sender_not_allowed"
      [] detail = "SM_113" -> fieldCode(mention, "api_invalid_request")
      [] detail = "SM_133" -> "api_quota_exceeded"
      [] detail = "GE_102" -> "api_invalid_request"
      [] OTHER -> Unclassified

zeptoMailCode(code) ==
    CASE code = "TM_3601" -> "api_authorization_denied"
      [] code = "TM_5001" -> "api_quota_exceeded"
      [] code = "TM_3201" -> "api_invalid_request"
      [] OTHER -> Unclassified

ZeptoDetails == {"SERR_157", "SM_111", "SM_113", "SM_133", "GE_102", "other"}
ZeptoCodes == {"TM_3601", "TM_5001", "TM_3201", "other"}

\* The first detail that is classified decides, then the code of the error.
classifyZeptoMailError(code, details, mention) ==
    LET known == {i \in 1..Len(details) :
                    zeptoMailDetailCode(details[i], mention) # Unclassified}
    IN  IF known = {} THEN zeptoMailCode(code)
        ELSE zeptoMailDetailCode(details[CHOOSE i \in known : \A j \in known : i <= j], mention)

classifyZohoMailError(status, mention) ==
    IF status = 401 THEN Unclassified ELSE fieldCode(mention, Unclassified)

-----------------------------------------------------------------------------
\* The classifier of the provider; a body it cannot read is not classified.
classify(provider, answer) ==
    CASE ~answer.readable -> Unclassified
      [] answer.readable /\ provider = "resend" ->
            resendErrorCode(answer.status, answer.name, answer.mention)
      [] answer.readable /\ provider = "zeptomail" ->
            classifyZeptoMailError(answer.name, answer.details, answer.mention)
      [] OTHER -> classifyZohoMailError(answer.status, answer.mention)

\* The call failed below HTTP.
NoAnswer == [status |-> 0, readable |-> FALSE, name |-> "other", details |-> << >>,
             mention |-> "nothing"]

\* doRequest: a 2xx answer must decode when the sender reads its body.
doRequest(answer, decodes) ==
    CASE answer = NoAnswer -> "transport"
      [] answer # NoAnswer /\ IsError(answer.status) -> "status"
      [] answer # NoAnswer /\ ~IsError(answer.status) /\ decodes /\ ~answer.readable -> "undecodable"
      [] OTHER -> "ok"

\* Anything that is not an error status counts as a failed connection.
describeAPIError(provider, answer, result) ==
    IF result # "status" THEN "api_connection_failed"
    ELSE LET code == classify(provider, answer) IN
         IF code = Unclassified THEN codeForStatus(answer.status) ELSE code

=============================================================================
