---------------------------- MODULE ConsumedThing ----------------------------
(***************************************************************************)
(* A ConsumedThing and its calls: the client and the form getClientFor()   *)
(* chooses, the clients it keeps and the security it gives them, and how   *)
(* the promises of reads, writes, invocations and subscriptions settle     *)
(* with what the protocol clients do.  Servient provides the clients.      *)
(*                                                                         *)
(* A form is [scheme, ops, text, template, subprotocol]: text says that op *)
(* is a string and not an array, no ops that it is missing, and template   *)
(* that the href has URI variables.                                        *)
(***************************************************************************)
EXTENDS Subscriptions, FiniteSets, FiniteSetsExt

CONSTANTS
    Thing  \* [forms, security, factories, later, asks]: Thing Descriptions that
           \* are consumed, the schemes a servient has factories for and gets
           \* later, and by call what the script may ask for, an [op, name,
           \* index, good]: index 0 stands for no formIndex and good for a
           \* value that converts

Affordance(op) ==
    CASE op \in {"readproperty", "writeproperty", "observeproperty", "unobserveproperty"} -> "property"
      [] op = "invokeaction" -> "action"
      [] op \in {"subscribeevent", "unsubscribeevent"} -> "event"

Ops == {"readproperty", "writeproperty", "invokeaction", "observeproperty",
        "unobserveproperty", "subscribeevent", "unsubscribeevent"}
FormType == [scheme : {"http", "coap", "coaps", "mqtt", "ws", "file", "modbus+tcp", "opc.tcp",
                       "netconf"},
             ops : SUBSET Ops, text : BOOLEAN, template : BOOLEAN,
             subprotocol : {"longpoll", "sse"}]

ASSUME ThingAssumption == \A t \in Thing :
    /\ \A n \in DOMAIN t.forms : t.forms[n] \in Seq(FormType)
    /\ \A n \in {"property", "event"} \cap DOMAIN t.forms :
          \A i \in DOMAIN t.forms[n], expanded \in BOOLEAN : <<n, i, expanded>> \in Href
    /\ \A c \in Call : \A a \in t.asks[c] : a.op \in Ops /\ a.index \in Nat /\ a.name = Affordance(a.op)

Begins == {"observeproperty", "subscribeevent"}
Ends   == {"unobserveproperty", "unsubscribeevent"}
NoAsk  == [op |-> "none"]
NoVia  == [client |-> NoCall, form |-> 0]
NoBundle == [of |-> {}, outcome |-> "none"]

VARIABLES
    thing,       \* the Thing Description of this behaviour
    factories,   \* schemes of Servient.clientFactories
    credentials, \* Servient.credentialStore has some for the thing
    cache,       \* by scheme, the client the thing keeps
    security,    \* by client, what setSecurity() was given
    asked,       \* by call, what was asked for
    via,         \* by call, the client and the form its request went through
    performed,   \* calls the remote thing has carried out
    order,       \* calls in the order they were made
    queue,       \* calls that a loop of readMultipleProperties() has yet to make
    bundle       \* the calls of that loop and the promise of all of them

callVars == <<asked, via, performed, order>>
bundleVars == <<queue, bundle>>
clientVars == <<cache, security>>
vars == <<subVars, thing, factories, credentials, clientVars, callVars, bundleVars>>

Init ==
    /\ SubInit
    /\ thing \in Thing /\ factories = thing.factories /\ credentials = FALSE
    /\ cache = [s \in {} |-> NoCall]
    /\ security = [k \in Call |-> "none"]
    /\ asked = [c \in Call |-> NoAsk] /\ via = [c \in Call |-> NoVia]
    /\ performed = {} /\ order = <<>>
    /\ queue = <<>> /\ bundle = NoBundle

----------------------------------------------------------------------------
\* Servient

AddClientFactory ==
    /\ \E s \in thing.later \ factories : factories' = factories \cup {s}
    /\ UNCHANGED <<subVars, thing, credentials, clientVars, callVars, bundleVars>>

\* getCredentials() returns those that were added first.
AddCredentials ==
    /\ thing.security /\ ~credentials /\ credentials' = TRUE
    /\ UNCHANGED <<subVars, thing, factories, clientVars, callVars, bundleVars>>

----------------------------------------------------------------------------
\* ConsumedThing.findForm

DefaultOps(op) ==
    CASE Affordance(op) = "property" -> {"readproperty", "writeproperty"}
      [] Affordance(op) = "action" -> {"invokeaction"}
      [] Affordance(op) = "event" -> {"subscribeevent"}

\* indexOf() finds an operation in the text of its opposite, too.
Opposite(op) == CASE op = "observeproperty" -> {"unobserveproperty"}
                  [] op = "subscribeevent" -> {"unsubscribeevent"}
                  [] OTHER -> {}

Offers(f, op) ==
    \/ f.ops = {} /\ op \in DefaultOps(op)
    \/ op \in f.ops
    \/ f.text /\ Opposite(op) \cap f.ops # {}

FindFormAnyScheme(forms, op, s) ==
    LET fit == {i \in DOMAIN forms : Offers(forms[i], op)}
    IN IF fit = {} THEN 0 ELSE Min(fit)

\* The first form of the scheme that offers the operation, 0 for null.
FindForm(forms, op, s) ==
    LET fit == {i \in DOMAIN forms : Offers(forms[i], op) /\ forms[i].scheme = s}
    IN IF fit = {} THEN 0 ELSE Min(fit)

----------------------------------------------------------------------------
\* ConsumedThing.getClientFor

Forms(a) == IF a.name \in DOMAIN thing.forms THEN thing.forms[a.name] ELSE <<>>

ChosenUnchecked(a) == IF a.index + 1 \in DOMAIN Forms(a) THEN a.index + 1 ELSE 0

\* The form whose scheme is taken: the one asked for, or the first one with a
\* client in the cache, or the first one with a factory; 0 when it throws.
Chosen(a) ==
    LET forms  == Forms(a)
        known  == {i \in DOMAIN forms : forms[i].scheme \in factories}
        cached == {i \in DOMAIN forms : forms[i].scheme \in DOMAIN cache}
    IN IF a.index # 0 THEN (IF a.index + 1 \in known THEN a.index + 1 ELSE 0)
       ELSE IF cached # {} THEN Min(cached)
       ELSE IF known # {} THEN Min(known)
       ELSE 0

\* setSecurity() throws in NetconfClient and in CoapsClient.
Refuses(s) == thing.security /\ ~credentials /\ s \in {"netconf", "coaps"}

\* ensureClientSecurity()
Given == IF ~thing.security THEN "none" ELSE IF credentials THEN "credentials" ELSE "metadata"

\* With a formIndex the factory is asked for a client even if there is one.
IsNew(a, s) == a.index # 0 \/ s \notin DOMAIN cache
IsKept(s) == s \notin DOMAIN cache
ClientFor(c, a, s) == IF IsNew(a, s) THEN c ELSE cache[s]

\* Only a client that is kept is given the security of the thing.
KeepClient(c, a, s) ==
    /\ cache' = IF IsKept(s) THEN [t \in DOMAIN cache \cup {s} |-> IF t = s THEN c ELSE cache[t]]
                             ELSE cache
    /\ security' = IF IsKept(s) THEN [security EXCEPT ![c] = Given] ELSE security

----------------------------------------------------------------------------
\* What a client does with a read, a write or an invocation: whether the
\* thing carries it out, and how the promise settles.

Does(p, r) == [performed |-> p, reply |-> r]

HttpAnswersUnchecked(op) == {Does(p, r) : p \in BOOLEAN, r \in {"content", "error"}}

\* checkFetchResponse(): a status that is not 2xx is an error.
HttpAnswers(op) == {Does(TRUE, "content"), Does(TRUE, "error"), Does(FALSE, "error")}

\* Any response is a content, whatever its code.
CoapAnswers(op) == {Does(p, r) : p \in BOOLEAN, r \in {"content", "error"}}

\* Sessions and connections check the status of what they get.
SessionAnswers(op) == {Does(TRUE, "content"), Does(TRUE, "error"), Does(FALSE, "error")}

\* A message is published without an answer; there is nothing to read.
MqttAnswers(op) == IF op = "invokeaction" THEN {Does(p, "content") : p \in BOOLEAN}
                                          ELSE {Does(FALSE, "error")}

FileAnswers(op) == IF op = "readproperty" THEN {Does(TRUE, "content"), Does(FALSE, "error")}
                                          ELSE {Does(FALSE, "error")}

\* The promises of WebSocketClient are never settled.
WsAnswers(op) == {}

Answers(s, op) ==
    CASE s = "http" -> HttpAnswers(op)
      [] s \in {"coap", "coaps"} -> CoapAnswers(op)
      [] s \in {"modbus+tcp", "opc.tcp", "netconf"} -> SessionAnswers(op)
      [] s = "mqtt" -> MqttAnswers(op)
      [] s = "file" -> FileAnswers(op)
      [] s = "ws" -> WsAnswers(op)

----------------------------------------------------------------------------
\* The calls

\* handleUriVariables() expands a template; unlinkResource() gets it as it is.
HrefOf(a, i) == <<a.name, i, Forms(a)[i].template /\ a.op \notin Ends>>

BindingOf(f) ==
    CASE f.scheme = "http" -> f.subprotocol
      [] f.scheme = "modbus+tcp" -> "modbus"
      [] f.scheme = "opc.tcp" -> "opcua"
      [] OTHER -> f.scheme

Rejects(c) == Answered(c, "rejected") /\ UNCHANGED <<linkVars, remoteVars, received>>
Waits(c)   == Answered(c, "pending")  /\ UNCHANGED <<linkVars, remoteVars, received>>

\* The request for form i goes out through client k.
Send(c, a, i, k) ==
    LET f == Forms(a)[i]
        h == HrefOf(a, i)
    IN CASE a.op \in Begins /\ f.scheme \in {"file", "netconf"} -> Rejects(c)
         [] a.op \in Begins /\ f.scheme = "ws" -> Waits(c)
         [] a.op \in Begins /\ f.scheme \notin {"file", "netconf", "ws"} ->
              Subscribe(c, BindingOf(f), k, h)
         [] a.op \in Ends -> Unlink(c, BindingOf(f), k, h)
         [] OTHER -> IF a.good THEN Waits(c) ELSE Rejects(c)

Invites(c) == IF queue = <<>> THEN thing.asks[c]
              ELSE {a \in thing.asks[c] : a.op = bundle.op /\ a.index = 0}

\* readProperty(), writeProperty(), invokeAction(), observeProperty() and the
\* rest; whatever is thrown rejects the promise of the call.
Start(c) ==
    /\ promise[c] = "idle"
    /\ IF queue = <<>> THEN \A d \in Call : d < c => promise[d] # "idle" ELSE c = Head(queue)
    /\ queue' = IF queue = <<>> THEN queue ELSE Tail(queue)
    /\ order' = Append(order, c)
    /\ \E a \in Invites(c) :
        LET j == Chosen(a)
            s == Forms(a)[j].scheme
            i == IF a.index # 0 THEN j ELSE FindForm(Forms(a), a.op, s)
            k == ClientFor(c, a, s)
        IN /\ asked' = [asked EXCEPT ![c] = a]
           /\ IF j = 0 \/ (j # 0 /\ IsKept(s) /\ Refuses(s))
              THEN Rejects(c) /\ UNCHANGED <<clientVars, via>>
              ELSE /\ KeepClient(c, a, s)
                   /\ IF i = 0 THEN Rejects(c) /\ UNCHANGED via
                      ELSE /\ via' = [via EXCEPT ![c] = [client |-> k, form |-> i]]
                           /\ Send(c, a, i, k)
    /\ UNCHANGED <<thing, factories, credentials, performed, bundle>>

FormOf(c) == Forms(asked[c])[via[c].form]
IsPlain(c) == asked[c].op \in {"readproperty", "writeproperty", "invokeaction"}

\* The client has an answer: its content may not convert, and the output of
\* an action may have another type than the form says.
Answer(c) ==
    /\ promise[c] = "pending" /\ IsPlain(c)
    /\ \E d \in Answers(FormOf(c).scheme, asked[c].op) :
        /\ performed' = IF d.performed THEN performed \cup {c} ELSE performed
        /\ \E how \in IF d.reply = "error" THEN {"rejected"}
                      ELSE IF asked[c].op = "writeproperty" THEN {"resolved"}
                      ELSE {"resolved", "rejected"} : Answered(c, how)
    /\ UNCHANGED <<linkVars, remoteVars, received, thing, factories, credentials,
                   clientVars, asked, via, order, bundleVars>>

\* readMultipleProperties() and writeMultipleProperties() make their calls one
\* after the other, without letting anything else happen.
StartMultiple ==
    /\ bundle = NoBundle
    /\ \E op \in {"readproperty", "writeproperty"}, c, d \in Call :
        /\ c < d /\ promise[c] = "idle" /\ promise[d] = "idle"
        /\ \A e \in Call : e < c => promise[e] # "idle"
        /\ \A e \in {c, d} : \E a \in thing.asks[e] : a.op = op /\ a.index = 0
        /\ queue' = <<c, d>>
        /\ bundle' = [of |-> {c, d}, op |-> op, outcome |-> "pending"]
    /\ UNCHANGED <<subVars, thing, factories, credentials, clientVars, callVars>>

\* Promise.all(): the first rejection decides.
SettleMultiple ==
    /\ bundle.outcome = "pending"
    /\ \/ /\ \E c \in bundle.of : promise[c] = "rejected"
          /\ bundle' = [bundle EXCEPT !.outcome = "rejected"]
       \/ /\ \A c \in bundle.of : promise[c] = "resolved"
          /\ bundle' = [bundle EXCEPT !.outcome = "resolved"]
    /\ UNCHANGED <<subVars, thing, factories, credentials, clientVars, callVars, queue>>

Rest == UNCHANGED <<thing, factories, credentials, clientVars, callVars, bundleVars>>

Next ==
    \/ \E c \in Call : Start(c)
    \/ /\ queue = <<>>
       /\ \/ AddClientFactory
          \/ AddCredentials
          \/ \E c \in Call : Answer(c)
          \/ StartMultiple
          \/ SettleMultiple
          \/ Happens /\ Rest

Spec == Init /\ [][Next]_vars

\* Remote things and brokers answer or connections fail, intervals fire.
FairSpec == Spec
    /\ WF_vars(SettleMultiple)
    /\ \A c \in Call :
        /\ WF_vars(Answer(c)) /\ WF_vars(queue # <<>> /\ Start(c))
        /\ WF_vars(ModbusTick(c) /\ Rest)
        /\ WF_vars((ReadAnswered(c) \/ ReadFails(c)) /\ Rest)

----------------------------------------------------------------------------
\* Every variable has its type.
TypeOK ==
    /\ SubTypeOK
    /\ thing \in Thing /\ credentials \in BOOLEAN
    /\ DOMAIN cache \subseteq factories /\ \A s \in DOMAIN cache : cache[s] \in Call
    /\ security \in [Call -> {"none", "metadata", "credentials"}]
    /\ DOMAIN asked = Call /\ \A c \in Call : asked[c] \in thing.asks[c] \cup {NoAsk}
    /\ via \in [Call -> [client : Call, form : Nat] \cup {NoVia}]
    /\ performed \subseteq Call
    /\ order \in Seq(Call) /\ queue \in Seq(Call)

\* getClientFor(): for the scheme of every form a request goes through a client
\* is kept that was given the security of the thing.  A request without a
\* formIndex goes out through that client, and its form offers the operation;
\* one with a formIndex has a client of its own, which may have no security.
UnindexedSecured == \A c \in Call : via[c] # NoVia =>
    LET s == FormOf(c).scheme
    IN /\ s \in DOMAIN cache /\ (thing.security => security[cache[s]] # "none")
       /\ IF asked[c].index = 0
          THEN via[c].client = cache[s] /\ Offers(FormOf(c), asked[c].op)
          ELSE via[c].client = c

\* unobserveProperty(), unsubscribeEvent(): over HTTP and Modbus they end the
\* last subscription that was made through the same client and href, with
\* whatever other calls in between.
Position(c) == CHOOSE i \in DOMAIN order : order[i] = c
Same(c, u) == sub[c] # NoSub /\ sub[c].client = via[u].client
                /\ sub[c].href = HrefOf(asked[u], via[u].form)
Before(c, u) == Position(c) < Position(u)

UnsubscribedEnds == \A u \in Call :
    asked[u].op \in Ends /\ promise[u] = "resolved" =>
        \A c \in Call :
            /\ Same(c, u) /\ sub[c].binding \in {"longpoll", "sse", "modbus"} /\ Before(c, u)
            /\ \A d \in Call : Same(d, u) /\ Before(d, u) => ~Before(c, d)
            => c \in closed \/ link[c] = "ended"

\* subscribeResource(): at any time one Modbus subscription of a client polls
\* an id, and it is the one the client has registered.
OneIntervalPerId == \A c \in Call :
    sub[c].binding = "modbus" /\ sub[c] # NoSub /\ link[c] = "polling"
        => /\ Registered(sub[c].client, sub[c].href)
           /\ registry[<<sub[c].client, sub[c].href>>] = c

\* writeResource(): a write that is reported done was carried out, unless it
\* went over CoAP, where any response will do.
DoneIsDone == \A c \in Call :
    asked[c].op = "writeproperty" /\ promise[c] = "resolved" =>
        c \in performed \/ FormOf(c).scheme \in {"coap", "coaps"}

Phase(c) ==
    IF link[c] = "none" THEN "off"
    ELSE IF sub[c].binding # "modbus" /\ c \in closed THEN "over"
    ELSE IF link[c] = "ended" /\ reads[c] = 0 THEN "over"
    ELSE "on"

Promised == INSTANCE Subscription WITH phase <- [c \in Call |-> Phase(c)]

\* A subscription that was closed is quiet: a long poll that is answered later
\* is not told, and only Modbus reads that are under way still are.
ImplementsSubscription == Promised!Spec

\* Whatever the client does, the promise of a call settles, and the promise of
\* a Modbus subscription with the first read; those of WebSocketClient and of
\* subscriptions without a message do not.
EveryCallSettles == \A c \in Call :
    /\ promise[c] = "pending" /\ IsPlain(c) /\ FormOf(c).scheme # "ws" ~> promise[c] # "pending"
    /\ promise[c] = "pending" /\ sub[c].binding = "modbus" ~> promise[c] # "pending"
=============================================================================
