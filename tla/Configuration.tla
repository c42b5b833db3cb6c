----------------------------- MODULE Configuration -----------------------------
(***************************************************************************)
(* What the process reads from its environment before anything runs:       *)
(* InitMailer and InitSources (internal/application/bean) with the         *)
(* constructors of internal/application/config they call, in their order.  *)
(* The first setting that is refused ends the process (log.Fatalf).        *)
(*                                                                         *)
(* An environment gives every variable what the constructors tell apart of *)
(* its value: "unset", "blank" (only spaces), "separators" (only commas),  *)
(* "set" (a text, a positive number or duration, a list), "wide" (a number *)
(* that the field it is converted to does not hold), "bad" (anything its   *)
(* parser refuses), or the choice it makes.  A delay that is set is longer *)
(* than the default of the base delay and shorter than that of the maximum *)
(* delay; "short" and "long" ones are not.  MAILER_SOURCES is a set of     *)
(* names: nothing listed stands for separators, and the default is one of  *)
(* the sets.                                                               *)
(***************************************************************************)
EXTENDS Naturals, FiniteSets

SourceNames == {"rabbitmq", "kafka", "http"}

Refused == "refused"

SMTPNames == {"SMTP_SERVER", "SMTP_SERVER_PORT", "SMTP_SERVER_USER", "SMTP_SERVER_PASS"}
ZohoNames == {"ZOHO_MAIL_ACCOUNT_ID", "ZOHO_CLIENT_ID", "ZOHO_CLIENT_SECRET", "ZOHO_REFRESH_TOKEN"}
RabbitNames == {"RABBITMQ_USER", "RABBITMQ_PASS", "RABBITMQ_HOST"}
SASLNames == {"KAFKA_SASL_USER", "KAFKA_SASL_PASS"}

\* The variables with a number or a duration.
NumberNames ==
    {"HTTP_CLIENT_TIMEOUT", "MAILER_MAX_ATTEMPTS", "MAILER_RETRY_BASE_DELAY",
     "MAILER_RETRY_MAX_DELAY", "KAFKA_TOPIC_PARTITIONS", "KAFKA_TOPIC_REPLICATION",
     "HTTP_API_MAX_BODY_BYTES"}

\* Those of them that are converted to a narrower field.
WideNames == {"KAFKA_TOPIC_PARTITIONS", "KAFKA_TOPIC_REPLICATION"}

\* Those of them that are compared.
DelayNames == {"MAILER_RETRY_BASE_DELAY", "MAILER_RETRY_MAX_DELAY"}

TextNames ==
    SMTPNames \cup ZohoNames \cup RabbitNames \cup SASLNames \cup {"RESEND_API_KEY", "ZEPTOMAIL_API_KEY"}

\* The values of each variable.
Values(name) ==
    CASE name = "MAILER_TRANSPORT" -> {"unset", "blank", "smtp", "api", "other"}
      [] name = "MAILER_API_CLIENT" -> {"unset", "blank", "resend", "zoho", "zeptomail", "other"}
      [] name = "HTTP_API_DISABLED" -> {"unset", "true", "other"}
      [] name = "KAFKA_SASL_MECHANISM" -> {"unset", "blank", "set", "bad"}
      [] name \in {"KAFKA_BROKERS", "HTTP_API_KEYS"} -> {"unset", "blank", "separators", "set"}
      [] name \in WideNames -> {"unset", "blank", "set", "wide", "bad"}
      [] name \in DelayNames -> {"unset", "blank", "short", "set", "long", "bad"}
      [] name \in (NumberNames \ (WideNames \cup DelayNames)) \cup {"SMTP_SERVER_PORT"} ->
            {"unset", "blank", "set", "bad"}
      [] OTHER -> {"unset", "blank", "set"}

Choices == {"MAILER_TRANSPORT", "MAILER_API_CLIENT", "HTTP_API_DISABLED"}
Settings == TextNames \cup NumberNames \cup {"KAFKA_SASL_MECHANISM", "KAFKA_BROKERS", "HTTP_API_KEYS"}

\* One setting, or the two delays, with any of their values.
OneSpoiled == UNION {[{n} -> Values(n)] : n \in Settings \ DelayNames}

Spoiled == OneSpoiled \cup [DelayNames -> Values("MAILER_RETRY_MAX_DELAY")]

\* All the variables, of which all but the choices and the spoiled ones are set.
Assigned(transport, client, disabled, spoiled) ==
    [n \in Choices \cup Settings |->
        CASE n = "MAILER_TRANSPORT" -> transport [] n = "MAILER_API_CLIENT" -> client
          [] n = "HTTP_API_DISABLED" -> disabled [] n \in DOMAIN spoiled -> spoiled[n]
          [] OTHER -> "set"]

\* Every choice and every list of sources.
Environments ==
    [listed: SUBSET (SourceNames \cup {"other"}),
     var: {Assigned(t, c, d, spoiled) :
              t \in Values("MAILER_TRANSPORT"), c \in Values("MAILER_API_CLIENT"),
              d \in Values("HTTP_API_DISABLED"), spoiled \in Spoiled}]

-----------------------------------------------------------------------------
(***************************************************************************)
(* internal/application/config.                                            *)
(***************************************************************************)

\* The value is trimmed and must not be empty.
requireEnv(value) == value \notin {"unset", "blank"}

envOrDefault(value, default) == IF value \in {"unset", "blank"} THEN default ELSE value

\* A positive number or duration, or the default.
positive(value) == envOrDefault(value, "set") \in {"set", "wide", "short", "long"}

\* A list without an item is empty; the constructors split and trim.
splitList(value) == IF value = "set" THEN {"item"} ELSE {}

\* The transport, or the API client it takes.
NewMailerSettings(var) ==
    LET transport == envOrDefault(var["MAILER_TRANSPORT"], "smtp")
    IN  CASE transport = "smtp" -> "smtp"
          [] transport = "api" /\ requireEnv(var["MAILER_API_CLIENT"]) -> var["MAILER_API_CLIENT"]
          [] OTHER -> Refused

NewSMTPConfig(var) ==
    /\ \A n \in SMTPNames : requireEnv(var[n])
    /\ var["SMTP_SERVER_PORT"] # "bad"

NewZohoMailConfig(var) == \A n \in ZohoNames : requireEnv(var[n])

\* The sender of the deployment, whose constructor finds its settings, or Refused.
newSender(var) ==
    LET sender == NewMailerSettings(var)
    IN  CASE sender = "smtp" /\ NewSMTPConfig(var) -> sender
          [] sender = "resend" /\ requireEnv(var["RESEND_API_KEY"]) -> sender
          [] sender = "zeptomail" /\ requireEnv(var["ZEPTOMAIL_API_KEY"]) -> sender
          [] sender = "zoho" /\ NewZohoMailConfig(var) -> sender
          [] OTHER -> Refused

\* A delay in seconds; default stands for one that is not given.
positiveDuration(value, default) ==
    CASE value = "short" -> 1 [] value = "set" -> 60 [] value = "long" -> 3600 [] OTHER -> default

\* Mutant: the delays are not compared.
NewRetryConfigUnordered(var) ==
    \A n \in DelayNames \cup {"MAILER_MAX_ATTEMPTS"} : positive(var[n])

\* The wait after the first attempt must not be longer than the longest.
NewRetryConfig(var) ==
    /\ \A n \in DelayNames \cup {"MAILER_MAX_ATTEMPTS"} : positive(var[n])
    /\ positiveDuration(var["MAILER_RETRY_BASE_DELAY"], 30)
          <= positiveDuration(var["MAILER_RETRY_MAX_DELAY"], 600)

\* The listed sources, plus http unless it is disabled; listing it then is an error, as is listing
\* nothing, or something unknown.
Sources(env) ==
    LET disabled == env.var["HTTP_API_DISABLED"] = "true"
    IN  CASE env.listed = {} \/ ~(env.listed \subseteq SourceNames) -> {}
          [] ~disabled /\ env.listed # {} /\ env.listed \subseteq SourceNames -> env.listed \cup {"http"}
          [] disabled /\ env.listed # {} /\ env.listed \subseteq SourceNames ->
                IF "http" \in env.listed THEN {} ELSE env.listed

validateSASL(var) ==
    LET mechanism == envOrDefault(var["KAFKA_SASL_MECHANISM"], "none")
    IN  \/ mechanism = "none"
        \/ mechanism = "set" /\ \A n \in SASLNames : envOrDefault(var[n], "") # ""

\* An empty list of brokers is no error here.
NewKafkaConfig(var) ==
    /\ requireEnv(var["KAFKA_BROKERS"])
    /\ positive(var["KAFKA_TOPIC_PARTITIONS"]) /\ positive(var["KAFKA_TOPIC_REPLICATION"])
    /\ validateSASL(var)

NewHTTPAPIConfig(var) ==
    /\ requireEnv(var["HTTP_API_KEYS"]) /\ splitList(var["HTTP_API_KEYS"]) # {}
    /\ positive(var["HTTP_API_MAX_BODY_BYTES"])

\* getRequiredEnv does not trim.
NewRabbitMQConfig(var) == \A n \in RabbitNames : var[n] # "unset"

-----------------------------------------------------------------------------
(***************************************************************************)
(* internal/application/bean.                                              *)
(***************************************************************************)

InitMailer(env) ==
    /\ positive(env.var["HTTP_CLIENT_TIMEOUT"])
    /\ newSender(env.var) # Refused
    /\ NewRetryConfig(env.var)

newSource(name, var) ==
    CASE name = "rabbitmq" -> NewRabbitMQConfig(var)
      [] name = "kafka" -> NewKafkaConfig(var)
      [] name = "http" -> NewHTTPAPIConfig(var)

\* The sources that are built, or {} when the process ends.
InitSources(env) ==
    IF \A name \in Sources(env) : newSource(name, env.var) THEN Sources(env) ELSE {}

-----------------------------------------------------------------------------
(***************************************************************************)
(* The README's account of the same (README.md:140-270): which sources a   *)
(* deployment has, which variables those and its sender require, and which *)
(* of the others are read at all.  It calls MAILER_RETRY_MAX_DELAY the     *)
(* upper bound of a wait that begins with MAILER_RETRY_BASE_DELAY, so that *)
(* the latter is within it.                                                *)
(***************************************************************************)
UsesAPI(env) == env.var["MAILER_TRANSPORT"] = "api"

Announced(env) ==
    env.listed \cup (IF env.var["HTTP_API_DISABLED"] = "true" THEN {} ELSE {"http"})

RequiredBySender(env) ==
    LET client == env.var["MAILER_API_CLIENT"]
    IN  CASE ~UsesAPI(env) -> SMTPNames
          [] UsesAPI(env) /\ client = "zoho" -> ZohoNames
          [] UsesAPI(env) /\ client = "resend" -> {"RESEND_API_KEY"}
          [] UsesAPI(env) /\ client = "zeptomail" -> {"ZEPTOMAIL_API_KEY"}
          [] OTHER -> {"MAILER_API_CLIENT"}

RequiredBy(name, env) ==
    CASE name = "kafka" -> {"KAFKA_BROKERS"}
            \cup (IF env.var["KAFKA_SASL_MECHANISM"] = "set" THEN SASLNames ELSE {})
      [] name = "http" -> {"HTTP_API_KEYS"}
      [] OTHER -> {}

NotRead(env) ==
    (IF UsesAPI(env) THEN {"SMTP_SERVER_PORT"} ELSE {})
    \cup (IF "http" \in Announced(env) THEN {} ELSE {"HTTP_API_MAX_BODY_BYTES"})
    \cup (IF "kafka" \in Announced(env) THEN {}
          ELSE {"KAFKA_TOPIC_PARTITIONS", "KAFKA_TOPIC_REPLICATION", "KAFKA_SASL_MECHANISM"})

\* Spaces are no value, except to RabbitMQ.
Complete(env) ==
    /\ env.var["MAILER_TRANSPORT"] # "other"
    /\ UsesAPI(env) => env.var["MAILER_API_CLIENT"] # "other"
    /\ env.listed # {} /\ Announced(env) \subseteq SourceNames
    /\ "http" \in env.listed => env.var["HTTP_API_DISABLED"] # "true"
    /\ \A n \in RequiredBySender(env) \cup UNION {RequiredBy(s, env) : s \in Announced(env)} :
          env.var[n] \notin {"unset", "blank"}
    /\ "http" \in Announced(env) => env.var["HTTP_API_KEYS"] # "separators"
    /\ "rabbitmq" \in Announced(env) => \A n \in RabbitNames : env.var[n] # "unset"
    /\ \A n \in Settings \ NotRead(env) : env.var[n] # "bad"
    /\ env.var["MAILER_RETRY_BASE_DELAY"] = "long" => env.var["MAILER_RETRY_MAX_DELAY"] = "long"
    /\ env.var["MAILER_RETRY_MAX_DELAY"] = "short" => env.var["MAILER_RETRY_BASE_DELAY"] = "short"

=============================================================================
