------------------------------ MODULE Sessions ------------------------------
(***************************************************************************)
(* OpcuaClient and NetconfClient: the requests of one client share a       *)
(* session that the first one opens, and each of them looks, before its    *)
(* first await, whether it has to.  In an OpcuaClient that is the field    *)
(* session, which is null until a session has been created.  In a          *)
(* NetconfClient it is the router, which is an empty object from the       *)
(* moment on that it is being opened.                                      *)
(*                                                                         *)
(* Clients, routers and sessions are named after the request that creates  *)
(* them.                                                                   *)
(***************************************************************************)
EXTENDS Integers

CONSTANTS
    Request,
    Kind,     \* of clients, "opcua" or "netconf"
    Identity, \* of credentials, "none", "password" or "key"
    OtherMethod \* OPC UA: the invocations with an opc:method other than CALL_METHOD

NoSession == 0
ASSUME SessionAssumption ==
    /\ Request \subseteq Nat \ {NoSession} /\ OtherMethod \subseteq Request
    /\ Kind \subseteq {"opcua", "netconf"} /\ Identity \subseteq {"none", "password", "key"}

VARIABLES
    kind,      \* the client of this behaviour
    identity,  \* what setSecurity() has stored of its credentials
    stage,     \* how far each request has got
    client,    \* OPC UA: this.client
    connected, \* OPC UA: clients whose connect() has succeeded
    session,   \* OPC UA: this.session
    router,    \* NETCONF: "null", "blank", "opening" or "open"
    opened,    \* sessions and routers that have been opened
    lost,      \* those whose connection has been lost since
    used,      \* by request, the session or router it was sent over
    outcome

opcuaVars   == <<client, connected, session>>
sessionVars == <<opcuaVars, router, opened, lost>>
vars == <<kind, identity, stage, sessionVars, used, outcome>>

Opening == {"initializing", "opening", "connecting", "creating"}

\* setSecurity() of a thing with security metadata and of one without.  The
\* NetconfClient is not used when there are no credentials, since it throws.
OpcuaSetSecurity(metadata, given) == IF metadata THEN {given} ELSE {"none"}

NetconfSetSecurity(metadata, given) ==
    IF metadata THEN {given} \ {"none"} ELSE {"none"}

Init ==
    /\ kind \in Kind
    /\ \E metadata \in BOOLEAN, given \in Identity :
        identity \in IF kind = "opcua" THEN OpcuaSetSecurity(metadata, given)
                                      ELSE NetconfSetSecurity(metadata, given)
    /\ stage = [r \in Request |-> "unsent"]
    /\ client = NoSession /\ connected = {} /\ session = NoSession
    /\ router = [state |-> "null", by |-> NoSession]
    /\ opened = {} /\ lost = {}
    /\ used = [r \in Request |-> NoSession]
    /\ outcome = [r \in Request |-> "none"]

At(r, s) == stage' = [stage EXCEPT ![r] = s] /\ UNCHANGED <<used, outcome>>

Ends(r, how) ==
    /\ stage' = [stage EXCEPT ![r] = "ended"]
    /\ outcome' = [outcome EXCEPT ![r] = how]
    /\ UNCHANGED used

\* The request itself: session.read(), write() or call(), or router.rpc().
Sends(r, s) ==
    /\ stage' = [stage EXCEPT ![r] = "sent"]
    /\ used' = [used EXCEPT ![r] = s]
    /\ UNCHANGED outcome

----------------------------------------------------------------------------
\* OpcuaClient

\* connect(): credentials may name files that cannot be read.
OpcuaConnect(r) ==
    \/ At(r, "connecting") /\ client' = r /\ UNCHANGED <<connected, session>>
    \/ identity = "key" /\ Ends(r, "failed") /\ UNCHANGED opcuaVars

\* What a request does with the session.  invokeResource() calls it for
\* CALL_METHOD only; for any other opc:method it resolves and sends nothing.
OpcuaSends(r, s) == IF r \in OtherMethod THEN Ends(r, "done") ELSE Sends(r, s)

\* The payload of a write or of a call may not be JSON.
OpcuaRequest(r) ==
    /\ \/ session = NoSession /\ OpcuaConnect(r)
       \/ session # NoSession /\ OpcuaSends(r, session) /\ UNCHANGED opcuaVars
       \/ Ends(r, "failed") /\ UNCHANGED opcuaVars
    /\ UNCHANGED <<router, opened, lost>>

\* The session is created on this.client, which is the client of another
\* request when that one has begun to connect meanwhile.  A client that is not
\* connected creates none.
OpcuaConnected(r) ==
    /\ stage[r] = "connecting"
    /\ connected' = connected \cup {r}
    /\ IF client \in connected' THEN At(r, "creating") ELSE Ends(r, "failed")
    /\ UNCHANGED <<kind, identity, client, session, router, opened, lost>>

OpcuaSessionCreatedOnce(r) ==
    /\ stage[r] = "creating"
    /\ session' = r /\ opened' = opened \cup {r}
    /\ IF session = NoSession THEN OpcuaSends(r, r) ELSE At(r, "creating")
    /\ UNCHANGED <<kind, identity, client, connected, router, lost>>

OpcuaSessionCreated(r) ==
    /\ stage[r] = "creating"
    /\ session' = r /\ opened' = opened \cup {r}
    /\ OpcuaSends(r, r)
    /\ UNCHANGED <<kind, identity, client, connected, router, lost>>

----------------------------------------------------------------------------
\* NetconfClient and the Client of async-node-netconf

NetconfRpcEarly(r) ==
    IF router.state # "blank" THEN Sends(r, router.by) ELSE Ends(r, "failed")

\* rpc(): an empty router has no such method, and one that is not open has no
\* connection to send over.
NetconfRpc(r) == IF router.state = "open" THEN Sends(r, router.by) ELSE Ends(r, "failed")

\* initializeRouter(): without credentials it fails, and deleteRouter() is
\* called; a private key is read from a file first.
NetconfInitialize(r) ==
    CASE identity = "none" -> Ends(r, "failed") /\ UNCHANGED router
      [] identity = "password" -> At(r, "opening") /\ router' = [state |-> "opening", by |-> r]
      [] identity = "key" -> At(r, "initializing") /\ router' = [state |-> "blank", by |-> r]

NetconfRequest(r) ==
    /\ \/ router.state = "null" /\ NetconfInitialize(r)
       \/ router.state # "null" /\ NetconfRpc(r) /\ UNCHANGED router
       \/ Ends(r, "failed") /\ UNCHANGED router
    /\ UNCHANGED <<opcuaVars, opened, lost>>

\* The key has been read and openRouter() replaces the empty object.
NetconfKeyRead(r) ==
    /\ stage[r] = "initializing" /\ At(r, "opening")
    /\ router' = [state |-> "opening", by |-> r]
    /\ UNCHANGED <<kind, identity, opcuaVars, opened, lost>>

NetconfOpened(r) ==
    /\ stage[r] = "opening"
    /\ router' = [router EXCEPT !.state = "open"] /\ opened' = opened \cup {r}
    /\ Sends(r, r)
    /\ UNCHANGED <<kind, identity, opcuaVars, lost>>

DeleteRouterNever == UNCHANGED router

\* A router that is compared with null and set to undefined.
DeleteRouterUndefined == router' = [state |-> "undefined", by |-> NoSession]

DeleteRouter == router' = [state |-> "null", by |-> NoSession]

----------------------------------------------------------------------------
Start(r) ==
    /\ stage[r] = "unsent"
    /\ IF kind = "opcua" THEN OpcuaRequest(r) ELSE NetconfRequest(r)
    /\ UNCHANGED <<kind, identity>>

\* Reading the key, opening, connecting or creating the session fails.
OpenFails(r) ==
    /\ stage[r] \in Opening /\ Ends(r, "failed")
    /\ IF kind = "netconf" THEN DeleteRouter ELSE UNCHANGED router
    /\ UNCHANGED <<kind, identity, opcuaVars, opened, lost>>

Answer(r) ==
    /\ stage[r] = "sent"
    /\ Ends(r, "failed") \/ (used[r] \notin lost /\ Ends(r, "done"))
    /\ UNCHANGED <<kind, identity, sessionVars>>

\* A connection is lost.  The handlers that would forget the session are
\* commented out, and nothing resets the router.
Lose(s) ==
    /\ s \in opened \ lost /\ lost' = lost \cup {s}
    /\ UNCHANGED <<kind, identity, stage, opcuaVars, router, opened, used, outcome>>

Opens(r) == OpcuaConnected(r) \/ OpcuaSessionCreated(r) \/ NetconfKeyRead(r)
              \/ NetconfOpened(r) \/ OpenFails(r)

Next == \E r \in Request : Start(r) \/ Opens(r) \/ Answer(r) \/ Lose(r)

Spec == Init /\ [][Next]_vars

\* Servers answer, refuse or time out, and files are read or not.
FairSpec == Spec /\ \A r \in Request : WF_vars(Opens(r)) /\ WF_vars(Answer(r))

----------------------------------------------------------------------------
\* Every variable has its type.
TypeOK ==
    /\ kind \in Kind /\ identity \in Identity \cup {"none"}
    /\ stage \in [Request -> Opening \cup {"unsent", "sent", "ended"}]
    /\ client \in Request \cup {NoSession} /\ session \in Request \cup {NoSession}
    /\ connected \subseteq Request /\ opened \subseteq Request /\ lost \subseteq Request
    /\ router \in [state : {"null", "blank", "opening", "open"}, by : Request \cup {NoSession}]
    /\ used \in [Request -> Request \cup {NoSession}]
    /\ outcome \in [Request -> {"none", "done", "failed"}]

\* getRouter() and deleteRouter(): while the router is being opened exactly
\* one request opens it, so that it does not stay closed for good, and once it
\* is open or gone none does.
OneOpener == kind = "netconf" =>
    \A r \in Request : stage[r] \in Opening <=>
        router.state \in {"blank", "opening"} /\ router.by = r

Silent == IF kind = "opcua" THEN OtherMethod ELSE {}

Promised == INSTANCE OnDemandSession WITH silent <- Silent

\* readResource(), writeResource() and invokeResource(): a request is sent
\* over one session, after that was opened, and succeeds only if it was sent.
\* An OPC UA invocation with a method other than CALL_METHOD is never sent; it
\* succeeds once there is a session (opcua-client-test.ts:203-224).
ImplementsOnDemandSession == Promised!Spec

\* Every request ends, those that find the session being opened included.
EveryRequestEnds == \A r \in Request : stage[r] # "unsent" ~> outcome[r] # "none"
=============================================================================
