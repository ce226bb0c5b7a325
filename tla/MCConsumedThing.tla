--------------------------- MODULE MCConsumedThing ---------------------------
(* Thing Descriptions and calls for checking ConsumedThing with TLC. *)
EXTENDS ConsumedThing

Form(s, ops) == [scheme |-> s, ops |-> ops, text |-> FALSE, template |-> FALSE, subprotocol |-> "longpoll"]
Sse(f) == [f EXCEPT !.subprotocol = "sse"]
Text(f) == [f EXCEPT !.text = TRUE]
Template(f) == [f EXCEPT !.template = TRUE]

All == {"readproperty", "writeproperty", "observeproperty", "unobserveproperty"}
Events == {"subscribeevent", "unsubscribeevent"}

Asks(op, index) == [op |-> op, index |-> index, good |-> TRUE, name |-> Affordance(op)]
Bad(a) == [a EXCEPT !.good = FALSE]

Read == Asks("readproperty", 0)
Write == Asks("writeproperty", 0)
Invoke == Asks("invokeaction", 0)
Observe == Asks("observeproperty", 0)
Unobserve == Asks("unobserveproperty", 0)
Listen == Asks("subscribeevent", 0)
Unlisten == Asks("unsubscribeevent", 0)

Desc(property, action, event, secure, schemes, later, asks) ==
    [forms |-> [property |-> property, action |-> action, event |-> event],
     security |-> secure, factories |-> schemes, later |-> later, asks |-> asks]

Only(f, secure, asks) ==
    Desc(<<[f EXCEPT !.ops = All]>>, <<[f EXCEPT !.ops = {}]>>, <<[f EXCEPT !.ops = Events]>>,
         secure, {f.scheme}, {}, asks)

\* One protocol: subscriptions, and calls with a single answer.
Subscribes == <<{Observe}, {Observe, Unobserve, Listen}, {Unobserve, Unlisten}>>
Calls == <<{Read, Invoke}, {Read, Write}, {Bad(Write), Write, Listen}>>

\* CoAP and HTTP, the way their servers fill in the forms, and calls with a
\* formIndex; the CoAP factory comes later.
Both == Desc(<<Form("coap", {"readproperty", "writeproperty"}), Form("http", {}),
               Form("http", {"observeproperty", "unobserveproperty"})>>,
             <<Form("http", {}), Form("coap", {})>>,
             <<Text(Form("http", {"unsubscribeevent"})), Form("http", Events)>>,
             TRUE, {"http"}, {"coap"},
             <<{Read, Observe, Listen, Asks("readproperty", 1)},
               {Read, Write, Invoke, Observe, Asks("observeproperty", 2)},
               {Unobserve, Unlisten, Asks("unobserveproperty", 2), Asks("readproperty", 5)}>>)

Things ==
    {Only(Form(s, {}), FALSE, Subscribes) : s \in {"modbus+tcp", "mqtt", "opc.tcp", "http"}}
    \cup {Only(Sse(Form("http", {})), FALSE, Subscribes),
          Only(Template(Form("http", {})), FALSE, Subscribes),
          Only(Form("coaps", {}), TRUE, Subscribes)}
    \cup {Only(Form(s, {}), FALSE, Calls) : s \in {"coap", "mqtt", "ws", "file"}}
    \cup {Only(Form("netconf", {}), TRUE, Calls), Both}

ToCall == 1..3
ToHref == {"property", "event"} \X (1..3) \X BOOLEAN
=============================================================================
