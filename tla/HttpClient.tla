---------------------------- MODULE HttpClient ----------------------------
(***************************************************************************)
(* The credentials of one HttpClient of binding-http and the requests that *)
(* are signed with them: TuyaCredential, which fetches a token when it has *)
(* none or knows that it has expired, and OAuthCredential, which starts    *)
(* with the promise of a token and is replaced when the server answers     *)
(* 401.  Requests run concurrently: between a request's awaits any other   *)
(* one may fetch, store or replace the token they share.                   *)
(*                                                                         *)
(* Tokens are numbered in the order the authorization server issues them.  *)
(* Answers to token requests may arrive in any order; the service may stop *)
(* accepting a token at any time.                                          *)
(***************************************************************************)
EXTENDS Integers

CONSTANTS
    Calls,      \* the reads, writes and invocations made through the client
    Schemes,    \* the security schemes the client may be given
    Lifetime,   \* expire_time of a Tuya token
    MaxTokens,  \* bound: tokens issued in a behaviour
    MaxTime     \* bound: the clock

ASSUME SchemesAssumption == Schemes \subseteq {"oauth2", "TuyaCredential"}
ASSUME ClockAssumption == Lifetime \in Nat /\ MaxTokens \in Nat /\ MaxTime \in Nat

None    == 0          \* no token
First   == 1          \* the token the promise is kept with
Never   == -1         \* expireTime is not set
Token   == 1..MaxTokens
Known   == {None} \cup Token
Stage   == {"idle", "signing", "sent", "refreshing", "resent", "done", "failed"}
Out     == {"sent", "resent"}      \* fetched, not answered

VARIABLES
    scheme,    \* the scheme setSecurity() was called with
    promise,   \* the promise of the first OAuth token: "none", "pending", "kept" or "broken"
    token,     \* the token of this.credential, None while it is undefined or a promise
    expireAt,  \* TuyaCredential.expireTime
    stage,     \* how far each call has got
    used,      \* the token each request carries
    refreshes, \* the refresh_Token a token request carries, None when it asks for a new grant
    granted,   \* the token in the answer to a token request, which is under way
    now,       \* Date.now()
    issued,    \* tokens issued so far
    refused    \* the tokens the service does not accept any more

credentialVars == <<promise, token, expireAt>>
callVars       == <<stage, used, refreshes, granted>>
outsideVars    == <<now, issued, refused>>
vars == <<scheme, credentialVars, callVars, outsideVars>>

Init ==
    /\ scheme \in Schemes
    /\ promise = IF scheme = "oauth2" THEN "pending" ELSE "none"
    /\ token = None /\ expireAt = Never
    /\ stage = [c \in Calls |-> "idle"]
    /\ used = [c \in Calls |-> None]
    /\ refreshes = [c \in Calls |-> None]
    /\ granted = [c \in Calls |-> None]
    /\ now = 0 /\ issued = 0 /\ refused = {}

----------------------------------------------------------------------------
(* sign(), up to its first await *)

isTokenExpired == expireAt # Never /\ now > expireAt

Send(c, t) ==
    /\ stage' = [stage EXCEPT ![c] = "sent"]
    /\ used' = [used EXCEPT ![c] = t]

Await(c) == stage' = [stage EXCEPT ![c] = "signing"] /\ UNCHANGED used

Fail(c) == stage' = [stage EXCEPT ![c] = "failed"] /\ UNCHANGED used

\* MUTANT of TuyaSign: only a missing token is fetched.
TuyaSignOnce(c) ==
    \/ /\ token = None
       /\ Await(c)
       /\ refreshes' = [refreshes EXCEPT ![c] = None]
       /\ UNCHANGED token
    \/ /\ token # None
       /\ Send(c, token)
       /\ UNCHANGED <<token, refreshes>>

\* A missing token is asked for with a grant, an expired one with refresh_Token,
\* which was stored together with the token.
TuyaSign(c) ==
    \/ /\ token = None \/ isTokenExpired
       /\ Await(c)
       /\ refreshes' = [refreshes EXCEPT ![c] = IF isTokenExpired THEN token ELSE None]
       /\ UNCHANGED token
    \/ /\ token # None /\ ~isTokenExpired
       /\ Send(c, token)
       /\ UNCHANGED <<token, refreshes>>

\* MUTANT of OAuthSign: the token of a promise that is kept is not stored.
OAuthSignOnly(c) ==
    /\ \/ promise = "pending" /\ Await(c)
       \/ promise = "kept" /\ Send(c, IF token = None THEN First ELSE token)
       \/ promise = "broken" /\ Fail(c)
    /\ UNCHANGED <<token, refreshes>>

\* A promise is awaited, and its token is stored in its place.
OAuthSign(c) ==
    /\ \/ promise = "pending" /\ Await(c) /\ UNCHANGED token
       \/ promise = "kept" /\ token' = (IF token = None THEN First ELSE token) /\ Send(c, token')
       \/ promise = "broken" /\ Fail(c) /\ UNCHANGED token
    /\ UNCHANGED refreshes

\* readResource(), writeResource(), invokeResource(): generateFetchRequest()
\* signs the request, which is fetched as soon as it is signed.
Call(c) ==
    /\ stage[c] = "idle"
    /\ IF scheme = "oauth2" THEN OAuthSign(c) ELSE TuyaSign(c)
    /\ UNCHANGED <<scheme, promise, expireAt, granted, outsideVars>>

----------------------------------------------------------------------------
(* Waiting for a token *)

\* The promise setSecurity() left in the credential is kept or broken.  Every
\* sign() that awaits it stores the token and goes on before anything else happens.
Signing == {c \in Calls : stage[c] = "signing"}

FirstToken ==
    /\ promise = "pending"
    /\ \/ /\ issued < MaxTokens
          /\ issued' = First
          /\ promise' = "kept"
          /\ token' = IF Signing = {} THEN token ELSE First
          /\ stage' = [c \in Calls |-> IF c \in Signing THEN "sent" ELSE stage[c]]
          /\ used' = [c \in Calls |-> IF c \in Signing THEN First ELSE used[c]]
       \/ /\ promise' = "broken"
          /\ stage' = [c \in Calls |-> IF c \in Signing THEN "failed" ELSE stage[c]]
          /\ UNCHANGED <<issued, token, used>>
    /\ UNCHANGED <<scheme, expireAt, refreshes, granted, now, refused>>

\* A call whose own request for a token is under way.
Asks(c) == stage[c] = "refreshing" \/ (stage[c] = "signing" /\ scheme = "TuyaCredential")

\* The authorization server issues a token.
Issue(c) ==
    /\ Asks(c) /\ granted[c] = None
    /\ issued < MaxTokens
    /\ issued' = issued + 1
    /\ granted' = [granted EXCEPT ![c] = issued']
    /\ UNCHANGED <<scheme, credentialVars, stage, used, refreshes, now, refused>>

\* The answer arrives: Tuya's is stored with its expiry, OAuth's makes a new
\* credential.  The request is signed and sent, or signed again and sent again.
Received(c) == stage' = [stage EXCEPT ![c] = IF @ = "signing" THEN "sent" ELSE "resent"]

\* MUTANT of TokenArrives: an answer without success is stored, too.
TokenArrivesUnchecked(c) ==
    /\ Asks(c)
    /\ token' = granted[c]
    /\ expireAt' = IF scheme = "TuyaCredential" THEN now + Lifetime ELSE Never
    /\ Received(c)
    /\ used' = [used EXCEPT ![c] = token']
    /\ granted' = [granted EXCEPT ![c] = None]
    /\ UNCHANGED <<scheme, promise, refreshes, outsideVars>>

\* MUTANT of TokenArrives: the request is fetched again as it was signed before.
TokenArrivesUnsigned(c) ==
    /\ Asks(c) /\ granted[c] # None
    /\ token' = granted[c]
    /\ expireAt' = IF scheme = "TuyaCredential" THEN now + Lifetime ELSE Never
    /\ Received(c)
    /\ granted' = [granted EXCEPT ![c] = None]
    /\ UNCHANGED <<scheme, promise, used, refreshes, outsideVars>>

TokenArrives(c) ==
    /\ Asks(c) /\ granted[c] # None
    /\ token' = granted[c]
    /\ expireAt' = IF scheme = "TuyaCredential" THEN now + Lifetime ELSE Never
    /\ Received(c)
    /\ used' = [used EXCEPT ![c] = token']
    /\ granted' = [granted EXCEPT ![c] = None]
    /\ UNCHANGED <<scheme, promise, refreshes, outsideVars>>

\* MUTANT of TokenFails: the failure is swallowed and the call waits on.
TokenFailsSilently(c) ==
    /\ Asks(c)
    /\ granted' = [granted EXCEPT ![c] = None]
    /\ UNCHANGED <<scheme, credentialVars, stage, used, refreshes, outsideVars>>

\* The token request fails: "token fetch failed" or a rejected fetch.  A token
\* that was issued for it is lost.
TokenFails(c) ==
    /\ Asks(c)
    /\ Fail(c)
    /\ granted' = [granted EXCEPT ![c] = None]
    /\ UNCHANGED <<scheme, credentialVars, refreshes, outsideVars>>

----------------------------------------------------------------------------
(* fetch() and checkFetchResponse() *)

Accepted(c) ==
    /\ stage[c] \in Out /\ used[c] \notin refused
    /\ stage' = [stage EXCEPT ![c] = "done"]
    /\ UNCHANGED <<scheme, credentialVars, used, refreshes, granted, outsideVars>>

\* 401 and isOAuthTokenExpired(): refreshToken() of the credential there is now,
\* which holds a token (NeverUninitialized).
Unauthorized(c) ==
    /\ scheme = "oauth2" /\ stage[c] = "sent" /\ used[c] \in refused
    /\ stage' = [stage EXCEPT ![c] = "refreshing"]
    /\ UNCHANGED <<scheme, credentialVars, used, refreshes, granted, outsideVars>>

\* Any other error, and the 401 of a retry or of a Tuya request.
Rejected(c) ==
    /\ stage[c] \in Out
    /\ Fail(c)
    /\ UNCHANGED <<scheme, credentialVars, refreshes, granted, outsideVars>>

----------------------------------------------------------------------------
(* The world *)

Tick ==
    /\ now < MaxTime
    /\ now' = now + 1
    /\ UNCHANGED <<scheme, credentialVars, callVars, issued, refused>>

Revoke(t) ==
    /\ t <= issued /\ t \notin refused
    /\ refused' = refused \cup {t}
    /\ UNCHANGED <<scheme, credentialVars, callVars, now, issued>>

Next ==
    \/ \E c \in Calls : Call(c)
    \/ FirstToken
    \/ \E c \in Calls : Issue(c)
    \/ \E c \in Calls : TokenArrives(c)
    \/ \E c \in Calls : TokenFails(c)
    \/ \E c \in Calls : Accepted(c)
    \/ \E c \in Calls : Unauthorized(c)
    \/ \E c \in Calls : Rejected(c)
    \/ Tick
    \/ \E t \in Token : Revoke(t)

Spec == Init /\ [][Next]_vars

\* Every fetch ends, with an answer or with an error; nothing makes the clock
\* run or the service revoke a token.
Fairness ==
    /\ WF_vars(FirstToken)
    /\ \A c \in Calls : /\ WF_vars(TokenArrives(c) \/ TokenFails(c))
                        /\ WF_vars(Accepted(c) \/ Unauthorized(c) \/ Rejected(c))

FairSpec == Spec /\ Fairness

----------------------------------------------------------------------------
(* Properties *)

\* The type invariant of a credential and the calls that share it; a Tuya token
\* and its expiry are stored together (credential.ts:95-96, 142-147, 181-184).
TypeOK ==
    /\ scheme \in Schemes
    /\ promise \in {"none", "pending", "kept", "broken"}
    /\ token \in Known
    /\ expireAt \in Int
    /\ expireAt # Never <=> scheme = "TuyaCredential" /\ token # None
    /\ stage \in [Calls -> Stage]
    /\ used \in [Calls -> Known]
    /\ refreshes \in [Calls -> Known]
    /\ granted \in [Calls -> Known]
    /\ now \in Nat
    /\ issued \in 0..MaxTokens
    /\ refused \subseteq Token

\* A request is never sent without a token, and refreshToken() never meets an
\* "Uninitialized token", however the calls that share the credential overlap
\* (credential.ts:109-127, 157-168).
NeverUninitialized ==
    \A c \in Calls : stage[c] \in Out \cup {"refreshing"} => used[c] # None /\ token # None

\* A Tuya request is not signed while the token that is stored is known to have
\* expired, whichever call stored it (credential.ts:159-162, 230-235).
SignedInTime ==
    [][\A c \in Calls :
          /\ scheme = "TuyaCredential"
          /\ stage[c] # "sent" /\ stage'[c] = "sent"
          => ~isTokenExpired']_vars

\* The retry after a 401 carries a newer token than the one that was refused,
\* even if another call has replaced the credential in the meantime
\* (http-client.ts:354-363).
RetryIsNewer ==
    [][\A c \in Calls : stage[c] = "refreshing" /\ stage'[c] = "resent" => used'[c] > used[c]]_vars

\* Every call settles: no overlap of fetching, refreshing and revoking leaves one
\* waiting for a token (http-client.ts:338-340, 354-363).
EveryCallSettles == \A c \in Calls : stage[c] # "idle" ~> stage[c] \in {"done", "failed"}
=============================================================================
