---------------------------- MODULE Subscriptions ----------------------------
(***************************************************************************)
(* subscribeResource() and unlinkResource() of the protocol clients, and   *)
(* what they do with the answers and messages that follow: long polls and  *)
(* server-sent events of HttpClient, polled registers of ModbusClient, and *)
(* the pushes of the CoAP, CoAPS, MQTT and OPC UA clients.  The actions    *)
(* are taken by the calls of a ConsumedThing.                              *)
(*                                                                         *)
(* A subscription is named after the call that asks for it, and a client   *)
(* after the call it was created for.                                      *)
(***************************************************************************)
EXTENDS Integers, Sequences

CONSTANTS
    Call,
    Href,      \* what clients register a subscription under
    MaxValue,  \* bound: changes of the remote resource
    MaxReads   \* bound: Modbus reads of one subscription under way at once

NoCall == 0
NoSub  == [binding |-> "none"]
ASSUME CallAssumption ==
    Call \subseteq Nat \ {NoCall} /\ MaxValue \in Nat /\ MaxReads \in Nat \ {0}

Binding == {"longpoll", "sse", "modbus", "coap", "coaps", "mqtt", "opcua"}
Sub == [binding : Binding, client : Call, href : Href]

VARIABLES
    sub,      \* by call, its subscription
    link,     \* "polling": it asks again and again; "listening": it is pushed
              \* messages; "quiet": none come until the broker connects; "ended"
    reads,    \* its requests that are under way
    closed,   \* subscriptions whose close() or unsubscribe() was called
    registry, \* by client and href, activeSubscriptions and _subscriptions
    broker,   \* by client, its connection to an MQTT broker
    value,    \* what the remote resource holds
    received, \* by call, the values its listener was called with, repeated
              \* ones left out
    promise   \* by call, how its promise stands

remoteVars == <<broker, value>>
linkVars   == <<sub, link, reads, closed, registry>>
subVars    == <<linkVars, remoteVars, received, promise>>

SubTypeOK ==
    /\ sub \in [Call -> Sub \cup {NoSub}]
    /\ link \in [Call -> {"none", "polling", "listening", "quiet", "ended"}]
    /\ reads \in [Call -> 0..MaxReads]
    /\ closed \subseteq Call
    /\ DOMAIN registry \subseteq Call \X Href /\ \A kh \in DOMAIN registry : registry[kh] \in Call
    /\ broker \in [Call -> {"none", "connecting", "connected", "ended"}]
    /\ value \in 0..MaxValue
    /\ received \in [Call -> Seq(0..MaxValue)]
    /\ promise \in [Call -> {"idle", "pending", "resolved", "rejected"}]

SubInit ==
    /\ sub = [c \in Call |-> NoSub]
    /\ link = [c \in Call |-> "none"] /\ reads = [c \in Call |-> 0]
    /\ closed = {}
    /\ registry = [kh \in {} |-> NoCall]
    /\ broker = [k \in Call |-> "none"] /\ value = 0
    /\ received = [c \in Call |-> <<>>]
    /\ promise = [c \in Call |-> "idle"]

----------------------------------------------------------------------------
\* A promise is settled by the first resolve() or reject().
Settle(c, how) == promise' = [promise EXCEPT ![c] = IF @ = "pending" THEN how ELSE @]
Answered(c, how) == promise' = [promise EXCEPT ![c] = how]

IsNews(c) == \A i \in DOMAIN received[c] : received[c][i] # value

\* The callback for messages: a content that cannot be converted and a
\* listener that throws reject the promise and are dropped.
Hear(c, good) ==
    /\ received' = [received EXCEPT ![c] = IF good /\ IsNews(c) THEN Append(@, value) ELSE @]
    /\ Settle(c, IF good THEN "resolved" ELSE "rejected")

----------------------------------------------------------------------------
\* subscribeResource() of client k for call c.

Opened(c, b, k, h, l, n) ==
    /\ sub' = [sub EXCEPT ![c] = [binding |-> b, client |-> k, href |-> h]]
    /\ link' = [link EXCEPT ![c] = l]
    /\ reads' = [reads EXCEPT ![c] = n]
    /\ Answered(c, "pending")
    /\ UNCHANGED <<closed, value, received>>

Registered(k, h) == <<k, h>> \in DOMAIN registry
Register(c, k, h) ==
    registry' = [kh \in DOMAIN registry \cup {<<k, h>>} |-> IF kh = <<k, h>> THEN c ELSE registry[kh]]
Forget(k, h) == registry' = [kh \in DOMAIN registry \ {<<k, h>>} |-> registry[kh]]

\* HttpClient: the subscription replaces another one of its href.
SubscribeHttp(c, b, k, h) ==
    /\ IF b = "longpoll" THEN Opened(c, b, k, h, "polling", 1)
                         ELSE Opened(c, b, k, h, "listening", 0)
    /\ Register(c, k, h) /\ UNCHANGED broker

SubscribeModbusAgain(c, k, h) ==
    Opened(c, "modbus", k, h, "polling", 0) /\ Register(c, k, h) /\ UNCHANGED broker

\* ModbusClient throws when the same registers are polled already.
SubscribeModbus(c, k, h) ==
    IF Registered(k, h)
    THEN Answered(c, "rejected") /\ UNCHANGED <<linkVars, remoteVars, received>>
    ELSE Opened(c, "modbus", k, h, "polling", 0) /\ Register(c, k, h) /\ UNCHANGED broker

\* CoapClient, CoapsClient and OpcuaClient keep no account of subscriptions.
SubscribePushed(c, b, k, h) ==
    Opened(c, b, k, h, "listening", 0) /\ UNCHANGED <<registry, broker>>

\* MqttClient: the broker is told of the topic whenever the client connects,
\* and only then.
SubscribeMqtt(c, k, h) ==
    /\ Opened(c, "mqtt", k, h, "quiet", 0)
    /\ broker' = [broker EXCEPT ![k] = IF @ = "none" THEN "connecting" ELSE @]
    /\ UNCHANGED registry

Subscribe(c, b, k, h) ==
    CASE b \in {"longpoll", "sse"} -> SubscribeHttp(c, b, k, h)
      [] b = "modbus" -> SubscribeModbus(c, k, h)
      [] b = "mqtt" -> SubscribeMqtt(c, k, h)
      [] b \in {"coap", "coaps", "opcua"} -> SubscribePushed(c, b, k, h)

----------------------------------------------------------------------------
\* unlinkResource() of client k.  The caller does not wait for it; only what
\* is thrown at once reaches the promise of its call u.

UnlinkHttpFirst(u, k, h) ==
    LET ours == {c \in Call : sub[c] # NoSub /\ sub[c].client = k /\ sub[c].href = h} IN
    /\ closed' = closed \cup {c \in ours : \A d \in ours : c <= d}
    /\ Answered(u, "resolved")
    /\ UNCHANGED <<sub, link, reads, registry, remoteVars, received>>

UnlinkHttp(u, k, h) ==
    /\ IF ~Registered(k, h) THEN UNCHANGED <<closed, link>>
       ELSE LET s == registry[<<k, h>>] IN
            /\ closed' = closed \cup {s}
            /\ link' = [link EXCEPT ![s] = IF @ = "listening" THEN "ended" ELSE @]
    /\ Answered(u, "resolved")
    /\ UNCHANGED <<sub, reads, registry, remoteVars, received>>

\* complete() resolves the promise of the subscription.  An id that is not
\* registered has no subscription to call unsubscribe() of.
UnlinkModbus(u, k, h) ==
    IF ~Registered(k, h)
    THEN Answered(u, "rejected") /\ UNCHANGED <<linkVars, remoteVars, received>>
    ELSE LET s == registry[<<k, h>>] IN
         /\ closed' = closed \cup {s}
         /\ link' = [link EXCEPT ![s] = "ended"]
         /\ Forget(k, h)
         /\ promise' = [promise EXCEPT ![u] = "resolved",
                                       ![s] = IF @ = "pending" THEN "resolved" ELSE @]
         /\ UNCHANGED <<sub, reads, remoteVars, received>>

OfTopic(k, h) == {c \in Call : sub[c] = [binding |-> "mqtt", client |-> k, href |-> h]}

UnlinkMqtt(u, k, h) ==
    /\ link' = [c \in Call |->
            IF c \in OfTopic(k, h) /\ link[c] = "listening" THEN "quiet" ELSE link[c]]
    /\ Answered(u, "resolved")
    /\ UNCHANGED <<sub, reads, closed, registry, remoteVars, received>>

\* CoapClient sends a GET and CoapsClient a DELETE request; the others reject.
UnlinkNothing(u) ==
    Answered(u, "resolved") /\ UNCHANGED <<linkVars, remoteVars, received>>

Unlink(u, b, k, h) ==
    CASE b \in {"longpoll", "sse"} -> UnlinkHttp(u, k, h)
      [] b = "modbus" -> UnlinkModbus(u, k, h)
      [] b = "mqtt" -> UnlinkMqtt(u, k, h)
      [] OTHER -> UnlinkNothing(u)

----------------------------------------------------------------------------
\* What follows.

Produce ==
    /\ value < MaxValue /\ value' = value + 1
    /\ UNCHANGED <<linkVars, broker, received, promise>>

PollAnsweredUnchecked(c) ==
    /\ sub[c].binding = "longpoll" /\ reads[c] > 0
    /\ IF c \in closed
       THEN /\ link' = [link EXCEPT ![c] = "ended"] /\ reads' = [reads EXCEPT ![c] = 0]
            /\ Hear(c, TRUE)
       ELSE (\E good \in BOOLEAN : Hear(c, good)) /\ UNCHANGED <<link, reads>>
    /\ UNCHANGED <<sub, closed, registry, remoteVars>>

\* A long poll is answered.  Unless close() was called meanwhile the value is
\* told and the next poll sent; complete() is called in both cases.
PollAnswered(c) ==
    /\ sub[c].binding = "longpoll" /\ reads[c] > 0
    /\ IF c \in closed
       THEN /\ link' = [link EXCEPT ![c] = "ended"] /\ reads' = [reads EXCEPT ![c] = 0]
            /\ Settle(c, "resolved") /\ UNCHANGED received
       ELSE (\E good \in BOOLEAN : Hear(c, good)) /\ UNCHANGED <<link, reads>>
    /\ UNCHANGED <<sub, closed, registry, remoteVars>>

PollFails(c) ==
    /\ sub[c].binding = "longpoll" /\ reads[c] > 0
    /\ link' = [link EXCEPT ![c] = "ended"] /\ reads' = [reads EXCEPT ![c] = 0]
    /\ Settle(c, "rejected")
    /\ UNCHANGED <<sub, closed, registry, remoteVars, received>>

\* The interval of a Modbus subscription fires.
ModbusTick(c) ==
    /\ sub[c].binding = "modbus" /\ link[c] = "polling" /\ reads[c] < MaxReads
    /\ reads' = [reads EXCEPT ![c] = @ + 1]
    /\ UNCHANGED <<sub, link, closed, registry, remoteVars, received, promise>>

\* A read that is answered is told even if unsubscribe() was called meanwhile.
ReadAnswered(c) ==
    /\ sub[c].binding = "modbus" /\ reads[c] > 0
    /\ reads' = [reads EXCEPT ![c] = @ - 1]
    /\ \E good \in BOOLEAN : Hear(c, good)
    /\ UNCHANGED <<sub, link, closed, registry, remoteVars>>

ReadFailsSilently(c) ==
    /\ sub[c].binding = "modbus" /\ reads[c] > 0
    /\ reads' = [reads EXCEPT ![c] = @ - 1]
    /\ link' = [link EXCEPT ![c] = "ended"]
    /\ UNCHANGED <<sub, closed, registry, remoteVars, received, promise>>

\* The interval is cleared; the subscription stays registered.
ReadFails(c) ==
    /\ sub[c].binding = "modbus" /\ reads[c] > 0
    /\ reads' = [reads EXCEPT ![c] = @ - 1]
    /\ link' = [link EXCEPT ![c] = "ended"]
    /\ Settle(c, "rejected")
    /\ UNCHANGED <<sub, closed, registry, remoteVars, received>>

\* CoapsClient hands over the response as it is, which has no body to convert.
Pushed(c) ==
    /\ link[c] = "listening"
    /\ \E good \in IF sub[c].binding = "coaps" THEN {FALSE} ELSE BOOLEAN : Hear(c, good)
    /\ UNCHANGED <<linkVars, remoteVars>>

\* An EventSource reconnects after an error, the other ones are at their end.
PushFails(c) ==
    /\ link[c] = "listening" /\ sub[c].binding # "mqtt"
    /\ link' = [link EXCEPT ![c] = IF sub[c].binding = "sse" THEN @ ELSE "ended"]
    /\ Settle(c, "rejected")
    /\ UNCHANGED <<sub, reads, closed, registry, remoteVars, received>>

\* The handlers of 'connect' are those of all subscriptions there ever were.
OfClient(k) == {c \in Call : sub[c] # NoSub /\ sub[c].binding = "mqtt" /\ sub[c].client = k}

BrokerTurns(k, from, to, l) ==
    /\ broker[k] = from /\ broker' = [broker EXCEPT ![k] = to]
    /\ link' = [c \in Call |-> IF c \in OfClient(k) THEN l ELSE link[c]]
    /\ UNCHANGED <<sub, reads, closed, registry, value, received, promise>>

BrokerConnects(k) == BrokerTurns(k, "connecting", "connected", "listening")
BrokerLost(k)     == BrokerTurns(k, "connected", "connecting", "quiet")

\* The handler of 'error' ends the client and then fails itself: its
\* parameter hides the callback of the subscription.
BrokerFails(k) == BrokerTurns(k, "connecting", "ended", "ended")

Happens ==
    \/ Produce
    \/ \E c \in Call : \/ PollAnswered(c) \/ PollFails(c)
                       \/ ModbusTick(c) \/ ReadAnswered(c) \/ ReadFails(c)
                       \/ Pushed(c) \/ PushFails(c)
                       \/ BrokerConnects(c) \/ BrokerLost(c) \/ BrokerFails(c)
=============================================================================
