------------------------------ MODULE ProviderAPI ------------------------------
(***************************************************************************)
(* Sending one email through the Resend or the ZeptoMail API: the calls of *)
(* Send (internal/infrastructure/mailer/resend_sender.go and               *)
(* zeptomail_sender.go), one per attempt that the delivery service makes.  *)
(* The provider takes the email exactly when it answers 2xx, but its       *)
(* answer may be lost, late or cut off on the way back.                    *)
(***************************************************************************)
EXTENDS DeliveryAttempts, FiniteSets

VARIABLES
    provider,   \* the API client of the deployment
    valid,      \* validateEmail accepts the email
    answer,     \* what Send got of the answer in this attempt
    taken,      \* the attempts in which the provider took the email
    lost        \* those of them whose answer was lost or unreadable

apiVars == << provider, valid, answer, taken, lost >>

ErrorStatuses == {400, 401, 403, 404, 413, 422, 429, 500, 503}

\* The answers the provider gives: the body of an error may say anything, whatever its status; one
\* that cannot be read says nothing.
Answers(p) ==
    LET Names == IF p = "resend" THEN ResendNames ELSE ZeptoCodes
        Details == IF p = "resend" THEN {<< >>}
                   ELSE {<< >>} \cup {<< d >> : d \in ZeptoDetails} \cup {<< "other", "SM_113" >>}
    IN  [status: ErrorStatuses, readable: {TRUE}, name: Names, details: Details, mention: Mentions]
        \cup
        [status: {200, 202} \cup ErrorStatuses, readable: BOOLEAN, name: {"other"},
         details: {<< >>}, mention: {"nothing"}]

-----------------------------------------------------------------------------
\* validateEmail refuses the email; nothing is sent.
Refuse ==
    /\ job.stage = "send"
    /\ ~valid
    /\ SendReturns("message_missing_receiver")
    /\ UNCHANGED << attempt, apiVars >>

\* The request is posted; the answer arrives or not.
Post ==
    /\ job.stage = "send"
    /\ valid
    /\ \E a \in Answers(provider), arrives \in BOOLEAN :
          LET seen == IF arrives THEN a ELSE NoAnswer
              result == doRequest(seen, TRUE)
              err == IF result = "ok" THEN NoError ELSE describeAPIError(provider, seen, result)
              accepts == a.status \in 200..299
          IN  /\ answer' = seen
              /\ taken' = IF accepts THEN taken \cup {attempt} ELSE taken
              /\ lost' = IF accepts /\ (~arrives \/ ~a.readable) THEN lost \cup {attempt} ELSE lost
              /\ SendReturns(err)
    /\ UNCHANGED << provider, valid, attempt >>

APIRetry ==
    /\ NextAttempt
    /\ answer' = NoAnswer
    /\ UNCHANGED << provider, valid, taken, lost >>

APIInit ==
    /\ provider \in {"resend", "zeptomail"}
    /\ valid \in BOOLEAN
    /\ answer = NoAnswer
    /\ taken = {}
    /\ lost = {}

APINext == Refuse \/ Post \/ APIRetry

=============================================================================
