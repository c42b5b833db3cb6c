------------------------------ MODULE ChaosBench ------------------------------
(***************************************************************************)
(* The local test stack (.dev): the console sends emails through the       *)
(* mailer and, meanwhile, makes the providers fail - the chaos triggers of *)
(* Mailpit, or the next requests of the mock email API - and the callback  *)
(* server records what it is told.  The scenarios of .dev/README.md        *)
(* ("Test Scenarios") must come out as its table says, whoever changes the *)
(* failures while an email is on its way.                                  *)
(*                                                                         *)
(* console  .dev/console/internal/{message,service,web}                    *)
(* mock API .dev/mockapi/server.py      callbacks  .dev/callback/server.py *)
(***************************************************************************)
EXTENDS ProviderErrors, FiniteSets

CONSTANTS
    BenchEmails,    \* the emails sent
    Operators,      \* the console requests that reset the failures
    BenchForms,     \* the forms filled in
    TriggerChoices, \* the settings of the chaos triggers that are chosen
    BenchAttempts,  \* MAILER_MAX_ATTEMPTS of the stack
    MaxFailNext,    \* bound on the number of requests the mock API is told to fail
    MaxChanges      \* bound on the changes of the failures

\* What a form decides: the channel, the failure switch and the callbacks that are enabled.
Forms == [channel: {"rabbitmq", "kafka", "http"}, invalidBody: BOOLEAN, success: BOOLEAN,
          failure: BOOLEAN]

\* A trigger per SMTP step, in the order of the session.
Triggers == {"Authentication", "Sender", "Recipient"}

ASSUME BenchAssumption ==
    /\ BenchForms \subseteq Forms
    /\ TriggerChoices \subseteq [Triggers -> {"off", "4xx", "5xx"}]
    /\ BenchAttempts \in Nat \ {0}
    /\ MaxFailNext \in Nat
    /\ MaxChanges \in Nat

VARIABLES
    stack,      \* MAILER_ENV, CALLBACK_STATUS, and which of the two fakes is not running
    chaos,      \* the triggers of Mailpit: "off", or the class of the reply they inject
    mock,       \* how many requests the mock API still fails, and with which preset
    reset,      \* the reset of each operator: where it is, and the sides that it is to make quiet:
                \* they answered its calls so far, and nobody has changed them since it began
    changes,    \* changes so far
    email,      \* the emails and what became of them
    events      \* the callbacks received: the email, its outcome and how they were answered

failureVars == << chaos, mock, reset, changes >>
benchVars == << stack, failureVars, email, events >>

AllOff == [t \in Triggers |-> "off"]

\* mockPresets: a Resend error, and the error code that the page says to expect.
Preset(status, name, mention, expected) ==
    [answer |-> [status |-> status, readable |-> TRUE, name |-> name, details |-> << >>,
                 mention |-> mention],
     expected |-> expected]

mockPresets ==
    {Preset(429, "rate_limit_exceeded", "nothing", "api_rate_limited"),
     Preset(503, "service_unavailable", "nothing", "api_provider_unavailable"),
     Preset(422, "validation_error", "recipient", "api_invalid_receiver"),
     Preset(403, "validation_error", "nothing", "api_sender_not_allowed"),
     Preset(401, "validation_error", "nothing", "api_authorization_denied")}

\* DEFAULT_STATE
MockDefault ==
    [failNext |-> 0,
     preset |-> Preset(503, "service_unavailable", "nothing", "api_provider_unavailable")]

Sides == {"mailpit", "mockapi"}

\* The fake that the mailer of a stack sends through.
SideInUse(s) == IF s.env = "smtp" THEN "mailpit" ELSE "mockapi"

Quiet(side) == IF side = "mailpit" THEN chaos = AllOff ELSE mock.failNext = 0

-----------------------------------------------------------------------------
(***************************************************************************)
(* The console changes the failures.  A fake that does not run is an error *)
(* on the page, and changes nothing.                                       *)
(***************************************************************************)

Change(side) ==
    /\ changes < MaxChanges
    /\ side \notin stack.down
    /\ changes' = changes + 1
    /\ reset' = [o \in Operators |-> [reset[o] EXCEPT !.quiets = @ \ {side}]]

\* The form sends all the triggers, and PUT replaces them.
SetSMTPChaos(triggers) ==
    /\ Change("mailpit")
    /\ chaos' = triggers
    /\ UNCHANGED << stack, mock, email, events >>

\* A known preset and a number that is not negative.
ConfigureMockAPI(preset, failNext) ==
    /\ Change("mockapi")
    /\ mock' = [failNext |-> failNext, preset |-> preset]
    /\ UNCHANGED << stack, chaos, email, events >>

ResetBegins(o) ==
    /\ reset[o].at = "idle"
    /\ changes < MaxChanges
    /\ changes' = changes + 1
    /\ reset' = [reset EXCEPT ![o] = [at |-> "read", quiets |-> Sides]]
    /\ UNCHANGED << stack, chaos, mock, email, events >>

\* A call to a fake fails when it does not run, and can fail when it does; the error ends nothing
\* but the hope that this reset makes that side quiet.
MayFail(side) == IF side \in stack.down THEN {TRUE} ELSE BOOLEAN

ResetGoes(o, at, side, fails) ==
    reset' = [reset EXCEPT ![o] = [at |-> at, quiets |-> IF fails THEN @.quiets \ {side}
                                                         ELSE @.quiets]]

\* Mutant: an error of Mailpit ends the reset.
ResetReadsFirst(o) ==
    /\ reset[o].at = "read"
    /\ \E fails \in MayFail("mailpit") :
          ResetGoes(o, IF fails THEN "returned" ELSE "write", "mailpit", fails)
    /\ UNCHANGED << stack, chaos, mock, changes, email, events >>

\* The triggers are read first; without them the mock API is still reset.
ResetReads(o) ==
    /\ reset[o].at = "read"
    /\ \E fails \in MayFail("mailpit") :
          ResetGoes(o, IF fails THEN "mock" ELSE "write", "mailpit", fails)
    /\ UNCHANGED << stack, chaos, mock, changes, email, events >>

\* They are written back with every probability 0; a call that fails may have written them.
ResetWrites(o) ==
    /\ reset[o].at = "write"
    /\ \E fails \in MayFail("mailpit") :
          /\ chaos' \in {AllOff} \cup (IF fails THEN {chaos} ELSE {})
          /\ ResetGoes(o, "mock", "mailpit", fails)
    /\ UNCHANGED << stack, mock, changes, email, events >>

ResetMock(o) ==
    /\ reset[o].at = "mock"
    /\ \E fails \in MayFail("mockapi") :
          /\ mock' \in (IF "mockapi" \in stack.down THEN {} ELSE {MockDefault})
                        \cup (IF fails THEN {mock} ELSE {})
          /\ ResetGoes(o, "returned", "mockapi", fails)
    /\ UNCHANGED << stack, chaos, changes, email, events >>

-----------------------------------------------------------------------------
(***************************************************************************)
(* An email: the form, its request, and the attempts of the mailer.        *)
(***************************************************************************)

\* Build: the message of a form that validate accepts.
Build(form) == [json |-> TRUE, body |-> ~form.invalidBody, success |-> form.success,
                failure |-> form.failure]

NotSent == [form |-> [channel |-> "http", invalidBody |-> FALSE, success |-> FALSE,
                      failure |-> FALSE],
            at |-> "form", attempt |-> 0, job |-> Handle(Build([invalidBody |-> FALSE,
                success |-> FALSE, failure |-> FALSE]), 1, FALSE),
            injected |-> << >>, inbox |-> 0]

RequestOfForm(e) == Build(email[e].form)

\* Where the next attempt begins: the session, the call, or nothing for a body that is not base64.
Attempt(m, n) ==
    [m EXCEPT !.attempt = n, !.injected = Append(@, NoError),
              !.job = Handle(Build(m.form), n, m.form.channel # "http" /\ n < BenchAttempts),
              !.at = IF m.form.invalidBody THEN "decode"
                     ELSE IF SideInUse(stack) = "mailpit" THEN "Authentication" ELSE "post"]

\* Console.Send publishes to the queue, or calls the API and waits for its answer.
Send(e, form) ==
    /\ email[e].at = "form"
    /\ email' = [email EXCEPT ![e] = Attempt([email[e] EXCEPT !.form = form], 1)]
    /\ UNCHANGED << stack, failureVars, events >>

\* The sender returns err; failure is what the fakes had been told to answer.
Sent(e, err, failure) ==
    LET m == email[e] IN
    email' = [email EXCEPT ![e] =
        [m EXCEPT !.job = AfterSend(RequestOfForm(e), m.job, err), !.at = "reported",
                  !.injected = [m.injected EXCEPT ![m.attempt] = failure],
                  !.inbox = m.inbox + (IF err = NoError THEN 1 ELSE 0)]]

Decode(e) ==
    /\ email[e].at = "decode"
    /\ Sent(e, "message_invalid_body", "message_invalid_body")
    /\ UNCHANGED << stack, failureVars, events >>

\* What each command of the session reports when it is refused, and which one is next.
stepCode == [Authentication |-> "smtp_authorization_denied", Sender |-> "smtp_sender_rejected",
             Recipient |-> "smtp_receiver_rejected"]
nextStep == [Authentication |-> "Sender", Sender |-> "Recipient", Recipient |-> "write"]

\* A command of the SMTP session, answered as the triggers are at that moment.
Command(e) ==
    LET at == email[e].at
        reply == chaos[at]
        expected == IF reply = "4xx" THEN "smtp_temporary_failure" ELSE stepCode[at]
    IN  /\ at \in Triggers
        /\ IF reply = "off"
           THEN email' = [email EXCEPT ![e].at = nextStep[at]]
           ELSE Sent(e, smtpCode(stepCode[at], reply), expected)
        /\ UNCHANGED << stack, failureVars, events >>

Write(e) ==
    /\ email[e].at = "write"
    /\ Sent(e, NoError, NoError)
    /\ UNCHANGED << stack, failureVars, events >>

\* do_POST of the mock API: the failures are taken under its lock.
Post(e) ==
    LET answer == mock.preset.answer
        fails == mock.failNext > 0
    IN  /\ email[e].at = "post"
        /\ IF fails
           THEN /\ mock' = [mock EXCEPT !.failNext = @ - 1]
                /\ Sent(e, describeAPIError("resend", answer, doRequest(answer, TRUE)),
                        mock.preset.expected)
           ELSE /\ Sent(e, NoError, NoError)
                /\ UNCHANGED mock
        /\ UNCHANGED << stack, chaos, reset, changes, events >>

\* The callback server records the event, whatever it answers.
Notify(e) ==
    LET m == email[e]
        ok == stack.callbackStatus = 204
        failed == m.job.stage = "notify_failure"
    IN  /\ m.at = "reported"
        /\ m.job.stage \in {"notify_success", "notify_failure"}
        /\ events' = events \cup {[email |-> e, attempt |-> m.attempt, failed |-> failed]}
        /\ email' = [email EXCEPT ![e].job = IF failed THEN AfterNotifyFailure(m.job, ok)
                                             ELSE AfterNotifySuccess(m.job)]
        /\ UNCHANGED << stack, failureVars >>

\* The wait of the retry queue is over.
Redeliver(e) ==
    /\ email[e].at = "reported"
    /\ email[e].job.action = "retry"
    /\ email' = [email EXCEPT ![e] = Attempt(email[e], email[e].attempt + 1)]
    /\ UNCHANGED << stack, failureVars, events >>

-----------------------------------------------------------------------------
BenchInit ==
    /\ stack \in [env: {"smtp", "resend-mock"}, callbackStatus: {204, 500}, down: SUBSET Sides]
    /\ SideInUse(stack) \notin stack.down
    /\ chaos = AllOff
    /\ mock = MockDefault
    /\ reset = [o \in Operators |-> [at |-> "idle", quiets |-> {}]]
    /\ changes = 0
    /\ email = [e \in BenchEmails |-> NotSent]
    /\ events = {}

ChangeFailures ==
    \/ \E triggers \in TriggerChoices : SetSMTPChaos(triggers)
    \/ \E preset \in mockPresets, n \in 0..MaxFailNext : ConfigureMockAPI(preset, n)
    \/ \E o \in Operators : ResetBegins(o) \/ ResetReads(o) \/ ResetWrites(o) \/ ResetMock(o)

Deliver(e) ==
    \/ Decode(e) \/ Command(e) \/ Write(e) \/ Post(e) \/ Notify(e) \/ Redeliver(e)

BenchNext ==
    \/ ChangeFailures
    \/ \E e \in BenchEmails : Deliver(e) \/ \E form \in BenchForms : Send(e, form)

-----------------------------------------------------------------------------
EventsOf(e, failed) == {ev \in events : ev.email = e /\ ev.failed = failed}

(***************************************************************************)
(* The scenarios of .dev/README.md ("Test Scenarios"), for an email that   *)
(* is done with.  It reports the failure that its last attempt met, with   *)
(* the error code the console announces for it; it was tried again after   *)
(* every temporary failure and after no other one; a temporary failure     *)
(* that persists takes all the attempts of a queue, and one of the API; it *)
(* is in the inbox once, exactly when its last attempt met no failure; and *)
(* its one outcome went to the callback, or to the dead letters when the   *)
(* callback refused it or there is none.                                   *)
(***************************************************************************)
ScenarioTable ==
    \A e \in BenchEmails :
        LET m == email[e]
            met == m.injected
            last == met[m.attempt]
            ok == last = NoError
        IN  m.at = "reported" /\ m.job.stage = "outcome" /\ m.job.action # "retry" =>
                /\ m.job.code = last
                /\ \A i \in 1..m.attempt - 1 : Retryable(met[i])
                /\ Retryable(last) => m.attempt = IF m.form.channel = "http" THEN 1 ELSE BenchAttempts
                /\ m.inbox = IF ok THEN 1 ELSE 0
                /\ Cardinality(EventsOf(e, FALSE)) = IF ok /\ m.form.success THEN 1 ELSE 0
                /\ Cardinality(EventsOf(e, TRUE)) = IF ~ok /\ m.form.failure THEN 1 ELSE 0
                /\ m.job.action = IF ok \/ (m.form.failure /\ stack.callbackStatus = 204)
                                  THEN "done" ELSE "dead_letter"

(***************************************************************************)
(* After a reset nothing fails any more on a side that answered its calls, *)
(* unless the page has changed that side since the reset began - although  *)
(* the reset is two reads and writes, overlaps other requests, and the     *)
(* other side may not run or fail a call                                   *)
(* (.dev/console/internal/service/chaos.go:41-49).                         *)
(***************************************************************************)
ResetStopsInjection ==
    \A o \in Operators :
        reset[o].at = "returned" => \A side \in reset[o].quiets : Quiet(side)

=============================================================================
