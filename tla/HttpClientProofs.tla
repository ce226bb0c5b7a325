------------------------- MODULE HttpClientProofs -------------------------
(***************************************************************************)
(* Theorems about HttpClient, for any number of calls, any life of a token *)
(* and any bounds.                                                         *)
(***************************************************************************)
EXTENDS HttpClient, TLAPS

----------------------------------------------------------------------------
(* The inductive invariant *)

\* Only an OAuth client has a promise, and until it is kept no token was issued
\* and no call has got past sign().
PromiseKept ==
    /\ promise # "none" <=> scheme = "oauth2"
    /\ promise = "pending" =>
          /\ issued = 0 /\ token = None
          /\ \A c \in Calls : stage[c] \in {"idle", "signing"}
    /\ promise = "kept" => issued >= First

\* Tokens are issued before they are granted, stored or used, and what is granted
\* to a call that refreshes was issued after the token it used.
IssuedFirst ==
    /\ token <= issued
    /\ \A c \in Calls :
          /\ used[c] <= issued /\ granted[c] <= issued
          /\ granted[c] # None => stage[c] \in {"signing", "refreshing"}
          /\ granted[c] # None /\ stage[c] = "refreshing" => granted[c] > used[c]

IInv == TypeOK /\ NeverUninitialized /\ PromiseKept /\ IssuedFirst

LEMMA InitHolds == Init => IInv
BY SchemesAssumption, ClockAssumption
   DEF Init, IInv, TypeOK, NeverUninitialized, PromiseKept, IssuedFirst,
       Known, Token, Stage, None, Never, Out, First

\* What every step may use of IInv.
LEMMA Typed ==
    ASSUME IInv
    PROVE  /\ token \in Nat /\ expireAt \in Int /\ now \in Nat /\ issued \in Nat
           /\ stage \in [Calls -> Stage]
           /\ \A c \in Calls : used[c] \in Nat /\ granted[c] \in Nat
BY ClockAssumption DEF IInv, TypeOK, Known, Token, None

\* sign() reaches its first await, or sends the request.
LEMMA CallStep ==
    ASSUME IInv, NEW c \in Calls, Call(c)
    PROVE  IInv'
<1>1. UNCHANGED <<scheme, promise, expireAt, granted, now, issued, refused>> /\ stage[c] = "idle"
  BY DEF Call, outsideVars
<1>2. /\ token' \in Known /\ token' <= issued
      /\ token # None => token' = token
      /\ scheme # "oauth2" => token' = token
      /\ promise # "kept" => token' = token
      /\ refreshes' \in [Calls -> Known]
  <2>1. CASE scheme = "oauth2" /\ OAuthSign(c)
    <3>1. refreshes' = refreshes
      BY <2>1 DEF OAuthSign
    <3>2. token' = token \/ (promise = "kept" /\ token = None /\ token' = First)
      BY <2>1 DEF OAuthSign
    <3>3. promise = "kept" => First \in Known /\ First <= issued
      BY ClockAssumption DEF IInv, PromiseKept, TypeOK, Known, Token, First
    <3>4. QED
      BY <2>1, <3>1, <3>2, <3>3 DEF IInv, TypeOK, IssuedFirst
  <2>2. CASE scheme # "oauth2" /\ TuyaSign(c)
    BY <2>2 DEF TuyaSign, IInv, TypeOK, IssuedFirst, Known
  <2>3. QED
    BY <2>1, <2>2 DEF Call
<1>3. \/ stage' = [stage EXCEPT ![c] = "signing"] /\ used' = used
      \/ stage' = [stage EXCEPT ![c] = "failed"] /\ used' = used /\ promise = "broken"
      \/ /\ stage' = [stage EXCEPT ![c] = "sent"]
         /\ used' = [used EXCEPT ![c] = token'] /\ token' # None
         /\ promise # "pending"
  <2>1. CASE scheme = "oauth2" /\ OAuthSign(c)
    BY <2>1 DEF OAuthSign, Await, Send, Fail, First, None
  <2>2. CASE scheme # "oauth2" /\ TuyaSign(c)
    BY <2>2 DEF TuyaSign, Await, Send, IInv, PromiseKept
  <2>3. QED
    BY <2>1, <2>2 DEF Call
<1>4. TypeOK'
  <2>1. stage' \in [Calls -> Stage] /\ used' \in [Calls -> Known]
    BY <1>2, <1>3 DEF IInv, TypeOK, Stage
  <2>2. QED
    BY <1>1, <1>2, <2>1 DEF IInv, TypeOK
<1>5. NeverUninitialized'
  BY <1>1, <1>2, <1>3 DEF IInv, TypeOK, NeverUninitialized, Out
<1>6. PromiseKept'
  BY <1>1, <1>2, <1>3 DEF IInv, TypeOK, PromiseKept
<1>7. IssuedFirst'
  BY <1>1, <1>2, <1>3, Typed DEF IInv, TypeOK, IssuedFirst
<1>8. QED
  BY <1>4, <1>5, <1>6, <1>7 DEF IInv

\* The promise of the first token is kept or broken.
LEMMA FirstTokenStep ==
    ASSUME IInv, FirstToken
    PROVE  IInv'
<1>1. /\ promise = "pending" /\ scheme = "oauth2" /\ token = None /\ issued = 0
      /\ UNCHANGED <<scheme, expireAt, refreshes, granted, now, refused>>
      /\ \A c \in Calls : stage[c] \in {"idle", "signing"} /\ granted[c] <= issued
      /\ \A c \in Calls : used[c] <= issued
  BY DEF FirstToken, IInv, PromiseKept, IssuedFirst
<1>2. CASE promise' = "kept"
  <2>1. /\ issued' = First /\ First \in Token /\ First \in Known
        /\ token' = (IF Signing = {} THEN token ELSE First)
        /\ stage' = [c \in Calls |-> IF c \in Signing THEN "sent" ELSE stage[c]]
        /\ used' = [c \in Calls |-> IF c \in Signing THEN First ELSE used[c]]
    BY <1>2, ClockAssumption DEF FirstToken, IInv, TypeOK, First, Token, Known
  <2>2. issued' \in 0..MaxTokens
    BY <2>1, ClockAssumption DEF First, Token
  <2>3. TypeOK'
    <3>1. stage' \in [Calls -> Stage] /\ used' \in [Calls -> Known] /\ token' \in Known
      BY <2>1 DEF IInv, TypeOK, Stage
    <3>2. expireAt' # Never <=> scheme' = "TuyaCredential" /\ token' # None
      BY <1>1 DEF IInv, TypeOK
    <3>3. QED
      BY <1>1, <1>2, <2>2, <3>1, <3>2 DEF IInv, TypeOK
  <2>4. NeverUninitialized'
    BY <1>1, <2>1 DEF NeverUninitialized, Signing, Out, First, None
  <2>5. PromiseKept'
    BY <1>1, <1>2, <2>1 DEF PromiseKept, First
  <2>6. IssuedFirst'
    <3>1. \A c \in Calls : granted[c] = None
      BY <1>1, Typed DEF None
    <3>2. token' <= issued' /\ \A c \in Calls : used'[c] <= issued'
      BY <1>1, <2>1, Typed DEF First, None
    <3>3. QED
      BY <1>1, <2>1, <3>1, <3>2 DEF IssuedFirst, First, None
  <2>7. QED
    BY <2>3, <2>4, <2>5, <2>6 DEF IInv
<1>3. CASE promise' = "broken"
  <2>1. /\ UNCHANGED <<issued, token, used>>
        /\ stage' = [c \in Calls |-> IF c \in Signing THEN "failed" ELSE stage[c]]
    BY <1>3 DEF FirstToken
  <2>2. TypeOK'
    BY <1>1, <1>3, <2>1 DEF IInv, TypeOK, Stage
  <2>3. NeverUninitialized'
    BY <1>1, <2>1 DEF NeverUninitialized, Signing, Out
  <2>4. PromiseKept'
    BY <1>1, <1>3, <2>1 DEF PromiseKept
  <2>5. IssuedFirst'
    <3>1. \A c \in Calls : granted[c] = None
      BY <1>1, Typed DEF None
    <3>2. QED
      BY <1>1, <2>1, <3>1 DEF IInv, IssuedFirst
  <2>6. QED
    BY <2>2, <2>3, <2>4, <2>5 DEF IInv
<1>4. QED
  BY <1>2, <1>3 DEF FirstToken

LEMMA IssueStep ==
    ASSUME IInv, NEW c \in Calls, Issue(c)
    PROVE  IInv'
<1>1. /\ Asks(c) /\ issued' = issued + 1 /\ issued' \in 0..MaxTokens
      /\ granted' = [granted EXCEPT ![c] = issued']
      /\ UNCHANGED <<scheme, promise, token, expireAt, stage, used, refreshes, now, refused>>
  BY Typed, ClockAssumption DEF Issue, credentialVars, IInv, TypeOK
<1>2. stage[c] \in {"signing", "refreshing"} /\ promise # "pending"
  BY <1>1 DEF Asks, IInv, PromiseKept
<1>3. TypeOK'
  <2>1. issued' \in Known
    BY <1>1, Typed, ClockAssumption DEF Known, Token
  <2>2. QED
    BY <1>1, <2>1 DEF IInv, TypeOK
<1>4. NeverUninitialized'
  BY <1>1 DEF IInv, NeverUninitialized
<1>5. PromiseKept'
  BY <1>1, <1>2, Typed DEF IInv, PromiseKept, First
<1>6. IssuedFirst'
  <2>1. token' <= issued'
    BY <1>1, Typed DEF IInv, IssuedFirst
  <2>2. ASSUME NEW d \in Calls
        PROVE  /\ used'[d] <= issued' /\ granted'[d] <= issued'
               /\ granted'[d] # None => stage'[d] \in {"signing", "refreshing"}
               /\ granted'[d] # None /\ stage'[d] = "refreshing" => granted'[d] > used'[d]
    <3>1. used[d] <= issued /\ granted[d] <= issued
      BY DEF IInv, IssuedFirst
    <3>2. CASE d = c
      <4>1. granted'[d] = issued'
        BY <1>1, <3>2 DEF IInv, TypeOK
      <4>2. QED
        BY <1>1, <1>2, <3>1, <3>2, <4>1, Typed
    <3>3. CASE d # c
      <4>1. granted'[d] = granted[d]
        BY <1>1, <3>3 DEF IInv, TypeOK
      <4>2. QED
        BY <1>1, <3>1, <4>1, Typed DEF IInv, IssuedFirst
    <3>4. QED
      BY <3>2, <3>3
  <2>3. QED
    BY <2>1, <2>2 DEF IssuedFirst
<1>7. QED
  BY <1>3, <1>4, <1>5, <1>6 DEF IInv

LEMMA TokenArrivesStep ==
    ASSUME IInv, NEW c \in Calls, TokenArrives(c)
    PROVE  IInv'
<1>1. /\ Asks(c) /\ granted[c] # None /\ token' = granted[c]
      /\ expireAt' = (IF scheme = "TuyaCredential" THEN now + Lifetime ELSE Never)
      /\ stage' = [stage EXCEPT ![c] = IF @ = "signing" THEN "sent" ELSE "resent"]
      /\ used' = [used EXCEPT ![c] = token']
      /\ granted' = [granted EXCEPT ![c] = None]
      /\ UNCHANGED <<scheme, promise, refreshes, now, issued, refused>>
  BY DEF TokenArrives, Received, outsideVars
<1>2. promise # "pending"
  BY <1>1 DEF Asks, IInv, PromiseKept
<1>3. token' \in Known /\ token' <= issued
  BY <1>1 DEF IInv, TypeOK, IssuedFirst
<1>4. TypeOK'
  <2>1. stage' \in [Calls -> Stage] /\ used' \in [Calls -> Known] /\ granted' \in [Calls -> Known]
    BY <1>1, <1>3 DEF IInv, TypeOK, Stage, Known
  <2>2. now + Lifetime \in Int /\ now + Lifetime # Never
    BY Typed, ClockAssumption DEF Never
  <2>3. expireAt' \in Int /\ (expireAt' # Never <=> scheme = "TuyaCredential")
    BY <1>1, <2>2 DEF Never
  <2>4. QED
    BY <1>1, <1>3, <2>1, <2>3 DEF IInv, TypeOK
<1>5. NeverUninitialized'
  BY <1>1 DEF IInv, TypeOK, NeverUninitialized
<1>6. PromiseKept'
  BY <1>1, <1>2 DEF IInv, PromiseKept
<1>7. IssuedFirst'
  BY <1>1, <1>3, Typed DEF IInv, TypeOK, IssuedFirst, None
<1>8. QED
  BY <1>4, <1>5, <1>6, <1>7 DEF IInv

\* A call that waits for an answer gets one: the answer to a token request only
\* when that has failed.
LEMMA AnswerStep ==
    ASSUME IInv, NEW c \in Calls,
           TokenFails(c) \/ Accepted(c) \/ Unauthorized(c) \/ Rejected(c)
    PROVE  IInv'
<1>1. /\ UNCHANGED <<scheme, promise, token, expireAt, used, refreshes, now, issued, refused>>
      /\ \/ stage' = [stage EXCEPT ![c] = "done"]
         \/ stage' = [stage EXCEPT ![c] = "failed"]
         \/ stage' = [stage EXCEPT ![c] = "refreshing"] /\ stage[c] = "sent"
      /\ \/ granted' = [granted EXCEPT ![c] = None]
         \/ granted' = granted /\ stage[c] \in Out
  BY DEF TokenFails, Accepted, Unauthorized, Rejected, Fail, credentialVars, outsideVars, Out
<1>2. granted'[c] = None /\ promise # "pending"
  <2>1. stage[c] \in Out => granted[c] = None
    BY DEF IInv, IssuedFirst, Out
  <2>2. Asks(c) \/ stage[c] \in Out
    BY DEF TokenFails, Accepted, Unauthorized, Rejected, Out
  <2>3. QED
    BY <1>1, <2>1, <2>2 DEF IInv, TypeOK, PromiseKept, Asks, Out
<1>3. TypeOK'
  <2>1. stage' \in [Calls -> Stage] /\ granted' \in [Calls -> Known]
    BY <1>1 DEF IInv, TypeOK, Stage, Known
  <2>2. QED
    BY <1>1, <2>1 DEF IInv, TypeOK
<1>4. NeverUninitialized'
  BY <1>1 DEF IInv, TypeOK, NeverUninitialized, Out
<1>5. PromiseKept'
  BY <1>1, <1>2 DEF IInv, PromiseKept
<1>6. IssuedFirst'
  <2>1. \A d \in Calls : d # c => granted'[d] = granted[d] /\ stage'[d] = stage[d]
    BY <1>1 DEF IInv, TypeOK
  <2>2. QED
    BY <1>1, <1>2, <2>1, Typed DEF IInv, IssuedFirst, None
<1>7. QED
  BY <1>3, <1>4, <1>5, <1>6 DEF IInv

\* The clock and the service touch nothing the invariant relates.
LEMMA OutsideStep ==
    ASSUME IInv, Tick \/ (\E t \in Token : Revoke(t)) \/ UNCHANGED vars
    PROVE  IInv'
<1>1. /\ UNCHANGED <<scheme, promise, token, expireAt, stage, used, refreshes, granted, issued>>
      /\ now' \in Nat /\ refused' \subseteq Token
  BY Typed DEF Tick, Revoke, vars, credentialVars, callVars, outsideVars, IInv, TypeOK
<1>2. TypeOK'
  BY <1>1 DEF IInv, TypeOK
<1>3. NeverUninitialized' /\ PromiseKept' /\ IssuedFirst'
  BY <1>1 DEF IInv, NeverUninitialized, PromiseKept, IssuedFirst
<1>4. QED
  BY <1>2, <1>3 DEF IInv

LEMMA NextHolds == IInv /\ [Next]_vars => IInv'
<1> SUFFICES ASSUME IInv, [Next]_vars PROVE IInv'
  OBVIOUS
<1>1. ASSUME NEW c \in Calls, Call(c) PROVE IInv'
  BY <1>1, CallStep
<1>2. CASE FirstToken
  BY <1>2, FirstTokenStep
<1>3. ASSUME NEW c \in Calls, Issue(c) PROVE IInv'
  BY <1>3, IssueStep
<1>4. ASSUME NEW c \in Calls, TokenArrives(c) PROVE IInv'
  BY <1>4, TokenArrivesStep
<1>5. ASSUME NEW c \in Calls, TokenFails(c) \/ Accepted(c) \/ Unauthorized(c) \/ Rejected(c)
      PROVE  IInv'
  BY <1>5, AnswerStep
<1>6. CASE Tick \/ (\E t \in Token : Revoke(t)) \/ UNCHANGED vars
  BY <1>6, OutsideStep
<1>7. QED
  BY <1>1, <1>2, <1>3, <1>4, <1>5, <1>6 DEF Next

LEMMA Invariance == Spec => []IInv
BY InitHolds, NextHolds, PTL DEF Spec

----------------------------------------------------------------------------
(* Theorems *)

\* The variables of a client keep their types, and a Tuya token is stored
\* together with its expiry.
THEOREM TypeCorrect == Spec => []TypeOK
<1>1. IInv => TypeOK
  BY DEF IInv
<1>2. QED
  BY <1>1, Invariance, PTL

\* No request leaves without a token, and no refresh finds a promise.
THEOREM TokenInHand == Spec => []NeverUninitialized
<1>1. IInv => NeverUninitialized
  BY DEF IInv
<1>2. QED
  BY <1>1, Invariance, PTL

\* The retry after a 401 never carries the refused token or an older one.
THEOREM RetryCarriesNewer == Spec => RetryIsNewer
<1>1. IInv /\ [Next]_vars =>
        [\A c \in Calls : stage[c] = "refreshing" /\ stage'[c] = "resent" => used'[c] > used[c]]_vars
  <2> SUFFICES ASSUME IInv, Next, NEW c \in Calls,
                      stage[c] = "refreshing", stage'[c] = "resent"
               PROVE  used'[c] > used[c]
    OBVIOUS
  <2>1. stage \in [Calls -> Stage] /\ used \in [Calls -> Known]
    BY DEF IInv, TypeOK
  <2>2. TokenArrives(c)
    BY <2>1 DEF Next, Call, OAuthSign, TuyaSign, Await, Send, Fail, FirstToken, Issue,
                TokenArrives, Received, TokenFails, Accepted, Unauthorized, Rejected, Tick,
                Revoke, callVars
  <2>3. used'[c] = granted[c] /\ granted[c] # None
    BY <2>1, <2>2 DEF TokenArrives
  <2>4. granted[c] > used[c]
    BY <2>3 DEF IInv, IssuedFirst
  <2>5. QED
    BY <2>3, <2>4
<1>2. QED
  BY <1>1, Invariance, PTL DEF Spec, RetryIsNewer

\* No Tuya request is signed while the stored token is known to have expired.
THEOREM TuyaSignsInTime == Spec => SignedInTime
<1>1. IInv /\ [Next]_vars =>
        [\A c \in Calls : /\ scheme = "TuyaCredential"
                          /\ stage[c] # "sent" /\ stage'[c] = "sent"
                          => ~isTokenExpired']_vars
  <2> SUFFICES ASSUME IInv, Next, NEW c \in Calls, scheme = "TuyaCredential",
                      stage[c] # "sent", stage'[c] = "sent"
               PROVE  ~isTokenExpired'
    OBVIOUS
  <2>1. stage \in [Calls -> Stage] /\ promise # "pending"
    BY DEF IInv, TypeOK, PromiseKept
  <2>2. (TuyaSign(c) /\ Call(c)) \/ TokenArrives(c)
    BY <2>1 DEF Next, Call, TuyaSign, Await, Send, Fail, FirstToken, Issue,
                TokenArrives, Received, TokenFails, Accepted, Unauthorized, Rejected, Tick,
                Revoke, callVars
  <2>3. CASE TuyaSign(c) /\ Call(c)
    <3>1. ~isTokenExpired /\ UNCHANGED <<expireAt, now>>
      BY <2>1, <2>3 DEF TuyaSign, Await, Call, outsideVars
    <3>2. QED
      BY <3>1 DEF isTokenExpired
  <2>4. CASE TokenArrives(c)
    <3>1. expireAt' = now + Lifetime /\ now' = now
      BY <2>4 DEF TokenArrives, outsideVars
    <3>2. QED
      BY <3>1, Typed, ClockAssumption DEF isTokenExpired
  <2>5. QED
    BY <2>2, <2>3, <2>4
<1>2. QED
  BY <1>1, Invariance, PTL DEF Spec, SignedInTime
=============================================================================
