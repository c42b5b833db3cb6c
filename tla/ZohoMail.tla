------------------------------- MODULE ZohoMail -------------------------------
(***************************************************************************)
(* Sending through the Zoho Mail API: zohoMailSender.Send and the          *)
(* zohoTokenSource it shares between all its callers                       *)
(* (internal/infrastructure/mailer/zoho_*.go).  One sender serves the      *)
(* consumer loops and every HTTP request at the same time.                 *)
(*                                                                         *)
(* Zoho issues access tokens 1, 2, 3...; each expires ExpiresIn after it   *)
(* was issued, or is revoked before.  Time passes in ticks; an HTTP call   *)
(* takes at most Timeout of them (http.Client.Timeout).                    *)
(***************************************************************************)
EXTENDS ProviderErrors, FiniteSets

CONSTANTS
    Senders,        \* goroutines that call Send
    NoSender,
    ExpiresIn,      \* expires_in of an access token
    Margin,         \* zohoTokenRefreshMargin
    Timeout,        \* HTTP_CLIENT_TIMEOUT
    MaxAttachments, \* attachments of an email
    MaxSends,       \* bound on the emails
    MaxClock,       \* bound on the clock
    MaxRevoked      \* bound on the tokens Zoho revokes

\* The margin is fixed, a minute; the timeout is any duration (env.go:18-29), 15s by default.
ASSUME ZohoAssumption ==
    /\ NoSender \notin Senders
    /\ Timeout \in Nat \ {0} /\ Margin \in Nat /\ ExpiresIn \in Nat
    /\ MaxAttachments \in Nat /\ MaxSends \in Nat /\ MaxClock \in Nat /\ MaxRevoked \in Nat

VARIABLES
    clock,
    expiry,     \* for each token Zoho has issued, when it expires
    revoked,    \* tokens Zoho has revoked
    token,      \* the cached token, 0 for none
    expiresAt,  \* when the cache is to be renewed
    mu,         \* the sender that holds the mutex, or NoSender
    pc,         \* where each sender is
    held,       \* the token it calls the API with
    since,      \* when its HTTP call began, while it is in flight
    uploads,    \* attachments it has yet to upload
    last,       \* how the latest Send ended: the code, which server ended it, with which status,
                \* and whether its answer names a field of the email
    dropped,    \* tokens that were invalidated after a 401
    sends       \* number of emails so far

cacheVars == << token, expiresAt, mu >>
issuedVars == << expiry, revoked >>
zohoVars == << clock, issuedVars, cacheVars, pc, held, since, uploads, last, dropped, sends >>

Issued == 1..Len(expiry)

Good(t) == t \notin revoked /\ clock < expiry[t]

Accepted == [code |-> NoError, at |-> "messages", status |-> 200, names |-> FALSE]

\* The answers of Zoho: one per case of codeForStatus, a body that mentions a field, and NoAnswer.
Refusals ==
    {NoAnswer}
    \cup [status: {400, 429, 500}, readable: {TRUE}, name: {"other"}, details: {<< >>},
          mention: {"nothing"}]
    \cup {[NoAnswer EXCEPT !.status = 500, !.readable = TRUE, !.mention = "recipient"]}

Unauthorized == [NoAnswer EXCEPT !.status = 401]

\* A success whose body does not decode, and one of the accounts server without a token.
Undecodable == [NoAnswer EXCEPT !.status = 200]
WithoutToken == [NoAnswer EXCEPT !.status = 200, !.readable = TRUE]

Failure(code, at, answer) ==
    [code |-> code, at |-> at, status |-> answer.status, names |-> answer.mention # "nothing"]

\* Send returns.
ReturnFrom(s, how) ==
    /\ pc' = [pc EXCEPT ![s] = "idle"]
    /\ held' = [held EXCEPT ![s] = 0]
    /\ since' = [since EXCEPT ![s] = 0]
    /\ uploads' = [uploads EXCEPT ![s] = 0]
    /\ last' = how

\* An HTTP call in flight is over within Timeout.
Tick ==
    /\ clock < MaxClock
    /\ \A s \in Senders : pc[s] \in {"refreshing", "calling"} => clock < since[s] + Timeout
    /\ clock' = clock + 1
    /\ UNCHANGED << issuedVars, cacheVars, pc, held, since, uploads, last, dropped, sends >>

\* Zoho revokes a token.
Revoke(t) ==
    /\ Cardinality(revoked) < MaxRevoked
    /\ revoked' = revoked \cup {t}
    /\ UNCHANGED << clock, expiry, cacheVars, pc, held, since, uploads, last, dropped, sends >>

-----------------------------------------------------------------------------
(***************************************************************************)
(* Token and refresh.                                                      *)
(***************************************************************************)

\* Send is called with an email that validateEmail accepts.
Begin(s) ==
    /\ sends < MaxSends
    /\ pc[s] = "idle"
    /\ sends' = sends + 1
    /\ pc' = [pc EXCEPT ![s] = "token"]
    /\ \E n \in 0..MaxAttachments : uploads' = [uploads EXCEPT ![s] = n]
    /\ UNCHANGED << clock, issuedVars, cacheVars, held, since, last, dropped >>

\* Token finds a cached token that is not about to expire.
TokenCached(s) ==
    /\ pc[s] = "token"
    /\ mu = NoSender
    /\ token # 0 /\ clock < expiresAt
    /\ held' = [held EXCEPT ![s] = token]
    /\ pc' = [pc EXCEPT ![s] = "call"]
    /\ UNCHANGED << clock, issuedVars, cacheVars, since, uploads, last, dropped, sends >>

\* Token does not, and refreshes with the mutex locked: the request is on its way.
TokenRefresh(s) ==
    /\ pc[s] = "token"
    /\ mu = NoSender
    /\ token = 0 \/ clock >= expiresAt
    /\ mu' = s
    /\ since' = [since EXCEPT ![s] = clock]
    /\ pc' = [pc EXCEPT ![s] = "refreshing"]
    /\ UNCHANGED << clock, issuedVars, token, expiresAt, held, uploads, last, dropped, sends >>

\* Zoho issues an access token; the answer is on its way back.
Issue(s) ==
    /\ pc[s] = "refreshing"
    /\ held[s] = 0
    /\ expiry' = Append(expiry, clock + ExpiresIn)
    /\ held' = [held EXCEPT ![s] = Len(expiry) + 1]
    /\ UNCHANGED << clock, revoked, cacheVars, pc, since, uploads, last, dropped, sends >>

\* Mutant: the token is cached for as long as Zoho says.
RefreshedNoMargin(s) ==
    /\ pc[s] = "refreshing"
    /\ held[s] # 0
    /\ token' = held[s]
    /\ expiresAt' = clock + ExpiresIn
    /\ mu' = NoSender
    /\ since' = [since EXCEPT ![s] = 0]
    /\ pc' = [pc EXCEPT ![s] = "call"]
    /\ UNCHANGED << clock, issuedVars, held, uploads, last, dropped, sends >>

\* The answer arrives: the token is cached, counting its lifetime from now.
Refreshed(s) ==
    /\ pc[s] = "refreshing"
    /\ held[s] # 0
    /\ token' = held[s]
    /\ expiresAt' = clock + ExpiresIn - Margin
    /\ mu' = NoSender
    /\ since' = [since EXCEPT ![s] = 0]
    /\ pc' = [pc EXCEPT ![s] = "call"]
    /\ UNCHANGED << clock, issuedVars, held, uploads, last, dropped, sends >>

\* A rejected refresh means bad credentials, whatever the status, and so does an answer without a
\* token; the rest is a failed connection.
describeRefreshError(answer) ==
    IF doRequest(answer, TRUE) \in {"status", "ok"} THEN "api_authorization_denied"
    ELSE describeAPIError("zoho accounts", answer, doRequest(answer, TRUE))

\* Mutant: the mutex stays locked when the refresh fails.
RefreshFailedLocked(s) ==
    /\ pc[s] = "refreshing"
    /\ \E answer \in Refusals \cup {Undecodable, WithoutToken} :
          ReturnFrom(s, Failure(describeRefreshError(answer), "accounts", answer))
    /\ UNCHANGED << clock, issuedVars, cacheVars, dropped, sends >>

\* The refresh fails: the cache stays as it is.
RefreshFailed(s) ==
    /\ pc[s] = "refreshing"
    /\ \E answer \in Refusals \cup {Undecodable, WithoutToken} :
          ReturnFrom(s, Failure(describeRefreshError(answer), "accounts", answer))
    /\ mu' = NoSender
    /\ UNCHANGED << clock, issuedVars, token, expiresAt, dropped, sends >>

-----------------------------------------------------------------------------
(***************************************************************************)
(* uploadAttachments, the send call and Invalidate.                        *)
(***************************************************************************)

\* The next call is made: an upload while there are attachments left, then the message.
CallAPI(s) ==
    /\ pc[s] = "call"
    /\ pc' = [pc EXCEPT ![s] = "calling"]
    /\ since' = [since EXCEPT ![s] = clock]
    /\ UNCHANGED << clock, issuedVars, cacheVars, held, uploads, last, dropped, sends >>

\* Zoho accepts it.
CallOk(s) ==
    /\ pc[s] = "calling"
    /\ Good(held[s])
    /\ IF uploads[s] > 0
       THEN /\ uploads' = [uploads EXCEPT ![s] = @ - 1]
            /\ pc' = [pc EXCEPT ![s] = "call"]
            /\ since' = [since EXCEPT ![s] = 0]
            /\ UNCHANGED << held, last >>
       ELSE ReturnFrom(s, Accepted)
    /\ UNCHANGED << clock, issuedVars, cacheVars, dropped, sends >>

\* Zoho does not know the token (any more).
CallUnauthorized(s) ==
    /\ pc[s] = "calling"
    /\ ~Good(held[s])
    /\ pc' = [pc EXCEPT ![s] = "invalidate"]
    /\ since' = [since EXCEPT ![s] = 0]
    /\ UNCHANGED << clock, issuedVars, cacheVars, held, uploads, last, dropped, sends >>

\* The call fails in another way; only the answer to an upload is read.
CallFailed(s) ==
    /\ pc[s] = "calling"
    /\ LET upload == uploads[s] > 0 IN
       \E answer \in Refusals \cup (IF upload THEN {Undecodable} ELSE {}) :
          ReturnFrom(s, Failure(describeAPIError("zoho", answer, doRequest(answer, upload)),
                            "messages", answer))
    /\ UNCHANGED << clock, issuedVars, cacheVars, dropped, sends >>

\* Mutant: the 401 leaves the cache alone.
InvalidateNot(s) ==
    /\ pc[s] = "invalidate"
    /\ mu = NoSender
    /\ dropped' = dropped \cup {held[s]}
    /\ ReturnFrom(s, Failure(describeAPIError("zoho", Unauthorized, "status"), "messages", Unauthorized))
    /\ UNCHANGED << clock, issuedVars, cacheVars, sends >>

\* Invalidate drops whatever is cached.
Invalidate(s) ==
    /\ pc[s] = "invalidate"
    /\ mu = NoSender
    /\ token' = 0
    /\ dropped' = dropped \cup {held[s]}
    /\ ReturnFrom(s, Failure(describeAPIError("zoho", Unauthorized, "status"), "messages", Unauthorized))
    /\ UNCHANGED << clock, issuedVars, expiresAt, mu, sends >>

-----------------------------------------------------------------------------
ZohoInit ==
    /\ clock = 0
    /\ expiry = << >>
    /\ revoked = {}
    /\ token = 0
    /\ expiresAt = 0
    /\ mu = NoSender
    /\ pc = [s \in Senders |-> "idle"]
    /\ held = [s \in Senders |-> 0]
    /\ since = [s \in Senders |-> 0]
    /\ uploads = [s \in Senders |-> 0]
    /\ last = Accepted
    /\ dropped = {}
    /\ sends = 0

Acquire(s) == TokenCached(s) \/ TokenRefresh(s) \/ Invalidate(s)

Proceed(s) ==
    \/ Issue(s) \/ Refreshed(s) \/ RefreshFailed(s)
    \/ CallAPI(s) \/ CallOk(s) \/ CallUnauthorized(s) \/ CallFailed(s)

ZohoNext ==
    \/ Tick
    \/ \E t \in Issued : Revoke(t)
    \/ \E s \in Senders : Begin(s) \/ Acquire(s) \/ Proceed(s)

\* Calls end (http.Client.Timeout), and sync.Mutex hands itself to everyone who waits for it.
ZohoFairness == \A s \in Senders : WF_zohoVars(Proceed(s)) /\ SF_zohoVars(Acquire(s))

-----------------------------------------------------------------------------
\* Token returns a token to s.
FromCache(s) == pc[s] = "token" /\ pc'[s] = "call"
FromRefresh(s) == pc[s] = "refreshing" /\ pc'[s] = "call"

(***************************************************************************)
(* What is left of the lifetime of a token when it is handed out, although *)
(* it is counted from the arrival of the answer and several callers share  *)
(* it: more than the margin less the HTTP timeout for one from the cache,  *)
(* and the whole lifetime less the timeout for one just refreshed.  With   *)
(* the defaults that is 45 seconds or more (zoho_token_source.go:39-57).   *)
(* An HTTP timeout beyond the margin may leave nothing, and what is "a     *)
(* valid access token" there (zoho_token_source.go:39) has expired.        *)
(***************************************************************************)
LifeLeftAtHandOut ==
    [][\A s \in Senders :
          /\ FromCache(s) => clock + Margin < expiry[held'[s]] + Timeout
          /\ FromRefresh(s) => clock + ExpiresIn <= expiry[held'[s]] + Timeout]_zohoVars

(***************************************************************************)
(* "A 401 from Zoho drops the cached access token so the next attempt      *)
(* refreshes it" (zoho_mail_sender.go:49-50): a token that was invalidated *)
(* is never handed out again, whatever refreshes and other callers         *)
(* interleave.                                                             *)
(***************************************************************************)
RejectedTokenIsGone == token \notin dropped

(***************************************************************************)
(* Every Send returns: no failed refresh, no revoked token and no waiting  *)
(* on the mutex keeps a caller (zoho_token_source.go:40-63).               *)
(***************************************************************************)
EverySendReturns == \A s \in Senders : (pc[s] # "idle") ~> (pc[s] = "idle")

=============================================================================
