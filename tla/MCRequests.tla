----------------------------- MODULE MCRequests -----------------------------
(* Servers, things and requests for checking Requests with TLC. *)
EXTENDS Requests

With(binding, security, readOnly, read, write) ==
    [binding |-> binding, security |-> security, readOnly |-> readOnly,
     variables |-> FALSE, read |-> read, write |-> write]

WithVariables(s) == [s EXCEPT !.variables = TRUE]

SomeSetups ==
    {With("http", "none", FALSE, "none", "promise"),
     With("http", "basic", FALSE, "none", "none"),
     With("http", "digest", FALSE, "none", "none"),
     WithVariables(With("http", "oauth2", FALSE, "promise", "value")),
     With("http", "bearer", TRUE, "none", "none"),
     With("coap", "nosec", FALSE, "none", "promise"),
     With("coap", "nosec", TRUE, "promise", "none"),
     With("fujitsu", "nosec", FALSE, "none", "none"),
     With("fujitsu", "nosec", FALSE, "promise", "none"),
     With("mqtt", "none", FALSE, "none", "none"),
     With("oracle", "none", FALSE, "none", "none")}

Asks(method, target, content, auth) ==
    [method |-> method, target |-> target, query |-> "none", content |-> content,
     auth |-> auth]

Malformed(i) == [i EXCEPT !.query = "malformed"]

Observe == Asks("GET", "observe", 0, "right")
ReadIt  == Asks("GET", "property", 0, "right")
Listen  == Asks("GET", "event", 0, "right")
WriteIt == Asks("PUT", "property", 1, "right")

Others ==
    {Asks("GET", t, 0, "right") : t \in {"list", "undecodable", "all"}}
    \cup {Asks("GET", t, 0, "wrong") : t \in {"thing", "eventRead", "property"}}
    \cup {Asks("GET", "eventCancel", 0, "none"), Asks("DELETE", "event", 0, "none"),
          Asks("PUT", "observe", 2, "none"), Asks("POST", "action", 1, "right"),
          Asks("POST", "action", 2, "right"), Asks("OPTIONS", "list", 0, "none"),
          Asks("POST", "other", Unsupported, "right"), Asks("GET", "other", 0, "right"),
          Asks("PUT", "undecodable", Unsupported, "right"),
          Malformed(ReadIt), Malformed(Listen), Malformed(Asks("POST", "action", 1, "right"))}

ToRequest == 1..3
ToInput == <<{Observe, Listen}, {Observe, WriteIt},
             {Observe, ReadIt, Listen, WriteIt} \cup Others>>
=============================================================================
