--------------------------- MODULE MCConversions ---------------------------
(* Bytes of four bits, so that integers of one, two and four bytes fit the   *)
(* numbers of the checker; values at both ends of every range and around     *)
(* them; things with each kind of affordance and flag; forms of every        *)
(* entity and function.                                                      *)
EXTENDS Conversions

String(s) == <<"string", s>>
Value(value, schema, media, parameters) ==
    [kind |-> "value", value |-> value, schema |-> schema,
     type |-> [media |-> media, parameters |-> parameters]]

Ends == UNION {{-2 ^ n - 1, -2 ^ n, 2 ^ n - 2, 2 ^ n - 1, 2 ^ n} : n \in {3, 4, 7, 8, 11, 15, 16}}
Numbers == {Number(n) : n \in Ends \union {-1, 0, 1, 5, 18, 100}}

Parameters ==
    {p @@ [length |-> n] : n \in 1 .. 4,
        p \in {<<>>, [signed |-> TRUE], [signed |-> FALSE],
               [signed |-> TRUE, bigendian |-> FALSE],
               [signed |-> FALSE, bigendian |-> FALSE]}}
      \union {<<>>, [signed |-> TRUE], [bigendian |-> FALSE]}

OctetJobs ==
    {Value(v, [type |-> t], "application/octet-stream", p) :
        v \in Numbers, t \in {"integer", "uint8", "int16", "uint32", "short", "number"},
        p \in Parameters}
      \union {Value(v, [type |-> t], "application/octet-stream", p) :
        v \in {Boolean(TRUE), Boolean(FALSE), String("a"), Null, Undefined},
        t \in {"boolean", "string", "integer", "object", "null", "float32"},
        p \in Parameters}

Plain == {Undefined, Null, Boolean(TRUE), Number(0), Number(5), String("a"),
          String(""), Object([x |-> Number(1)]),
          Object([value |-> Number(1)]),
          Object([value |-> Object([value |-> String("a")])])}

CharsetJobs ==
    {Value(String("a"), [type |-> "string"], media, [charset |-> c]) :
        media \in {"application/octet-stream", "text/plain", "application/xml"},
        c \in {"utf8", "utf-8", "utf16le", "ucs2", "ascii", "latin1", "hex", "other"}}

TextJobs ==
    {Value(v, [type |-> "any"], media, <<>>) : v \in Plain,
        media \in {"application/json", "text/plain", "image/png", "video/mp4"}}

OpcuaJobs ==
    {Value(v, [class |-> "property", dataType |-> t], "application/x.opcua-binary", <<>>) :
        v \in Plain, t \in {"", "Int32", "Unknown"}}
      \union {Value(v, [class |-> "action", input |-> i],
                    "application/x.opcua-binary", <<>>) :
        v \in Plain,
        i \in {[type |-> "number", dataType |-> "Int32"],
               [type |-> "object", dataType |-> ""],
               [type |-> "object", dataType |-> "", properties |-> [x |-> "Double"]],
               [type |-> "object", dataType |-> "", properties |-> [y |-> "Int32"]]}}

Ns(a) == <<"urn", a, "ssh">>
Leaf == <<"leaf">>
Identity == <<"container", [xmlns |-> TRUE, value |-> FALSE]>>
PathStep(ns, name) == [ns |-> ns, name |-> name, leaves |-> <<>>]

NetconfJobs ==
    {Value(v, [tree |-> t, leaf |-> l, steps |-> s,
               path |-> [i \in DOMAIN s |-> s[i].name]],
           "application/yang-data+xml", <<>>) :
        v \in {Undefined, Object([xmlns |-> Ns("a"), value |-> String("rsa")]),
               Object([value |-> String("rsa")]),
               Object([id |-> Object([xmlns |-> Ns("b"), value |-> String("dsa")]),
                       algorithm |-> String("x")]),
               Object([algorithm |-> String("x")])},
        t \in {Leaf, Identity, <<"object", [algorithm |-> Leaf]>>,
               <<"object", [id |-> Identity, algorithm |-> Leaf]>>},
        l \in {"algorithm", ""},
        s \in {<<PathStep("", "server"), PathStep("", "key"), PathStep("", "algorithm")>>,
               <<PathStep("ssh", "server"), PathStep("", "algorithm")>>,
               <<PathStep("", "algorithms"), PathStep("", "algorithm")>>}}

MCValueJobs == OctetJobs \union CharsetJobs \union TextJobs \union OpcuaJobs \union NetconfJobs
MCBegins(a, b) == a = b \/ <<a, b>> = <<"algorithms", "algorithm">>

-----------------------------------------------------------------------------
Affordance(kind, flags, variables, template) ==
    [kind |-> kind, flags |-> flags, forms |-> None, uriVariables |-> variables,
     template |-> template, endpoints |-> FALSE, title |-> "plain",
     titles |-> <<[lang |-> "de", base |-> "de", text |-> "deutsch"]>>]

Thing(affordances, definitions) ==
    [context |-> One(DefaultContext), type |-> One(DefaultType), base |-> "",
     security |-> List(<<>>), definitions |-> definitions, forms |-> <<>>,
     affordances |-> affordances, title |-> "lamp",
     titles |-> <<[lang |-> "de-CH", base |-> "de", text |-> "schweiz"],
                  [lang |-> "de", base |-> "de", text |-> "deutsch"]>>]

Flags == {[readOnly |-> r, writeOnly |-> w, observable |-> o] :
            r \in {"true", "false"}, w \in {"true", "false", "junk"}, o \in {"true", "false"}}

Things ==
    {Thing([p |-> [Affordance("properties", f, {"step"}, t) EXCEPT !.endpoints = e],
            a |-> Affordance("actions", <<>>, {"step"}, t),
            e |-> Affordance("events", <<>>, {}, <<>>)], d) :
        f \in Flags, t \in {<<>>, <<"", "text/plain">>, <<"video/mp4">>}, e \in BOOLEAN,
        d \in {NoDefinitions, "auth" :> "basic" @@ "free" :> "nosec"}}

Server(cloud, tls, scheme, baseUri, urlPath) ==
    [base |-> [cloud |-> cloud, host |-> IF cloud THEN "cloud" ELSE "self",
               second |-> "self", urlPath |-> urlPath],
     tls |-> tls, baseUri |-> baseUri, scheme |-> scheme, secret |-> "secret"]

HttpJob(thing, server, credentials, language, name, op) ==
    [kind |-> "http", thing |-> thing, server |-> server, credentials |-> credentials,
     language |-> language, name |-> name, op |-> op, variables |-> {"step", "x:y"}]

(* Names with and without a character that stays escaped, and a thing with   *)
(* empty definitions.                                                        *)
MCEscaped == {"a:b", "x:y", "u v"}
MCUndecoded == "a:b" :> "a%3Ab" @@ "x:y" :> "x%3Ay"

NamedThings ==
    {Thing([n \in {"a:b", "u v"} |->
              Affordance(kind, [observable |-> "true"], {"step", "x:y"}, <<>>)], d) :
        kind \in {"properties", "actions", "events"},
        d \in {<<>>, NoDefinitions, "auth" :> "basic" @@ "free" :> "nosec"}}

NamedJobs ==
    {HttpJob(t, Server(FALSE, tls, scheme, baseUri, urlPath), "secret", "", n, op) :
        t \in NamedThings, tls \in BOOLEAN, scheme \in {"nosec", "basic"},
        baseUri \in BOOLEAN,
        urlPath \in {"lamp", "a:b"}, n \in {"a:b", "u v"},
        op \in {"readproperty", "writeproperty", "observeproperty", "invokeaction",
                "subscribeevent"}}

MCHttpJobs ==
    NamedJobs \union
    {HttpJob(t, s, c, l, on[1], on[2]) :
        t \in Things,
        s \in {Server(cloud, tls, scheme, FALSE, "lamp") :
                  cloud \in BOOLEAN, tls \in BOOLEAN, scheme \in {"nosec", "basic", "bearer"}},
        c \in {"", "secret"}, l \in {"", "de"},
        on \in {<<"p", "readproperty">>, <<"p", "writeproperty">>,
                <<"p", "observeproperty">>, <<"", "readallproperties">>,
                <<"", "writeallproperties">>, <<"a", "invokeaction">>,
                <<"e", "subscribeevent">>}}

-----------------------------------------------------------------------------
DocForm(kind) ==
    [href |-> [kind |-> kind, host |-> "far", path |-> <<"p">>], op |-> {}]

MCDocumentJobs ==
    {[kind |-> "document",
      td |-> [context |-> c, type |-> t, base |-> b, security |-> s,
              definitions |-> <<>>, forms |-> <<>>, title |-> "lamp", titles |-> <<>>,
              affordances |-> [p |-> [kind |-> "properties", forms |-> f,
                                      flags |-> [readOnly |-> "junk"], title |-> "",
                                      titles |-> <<>>]]]] :
        c \in {None, One(DefaultContext), One(<<"iri", "saref">>),
               List(<<<<"iri", "saref">>, <<"lang", "de">>>>), List(<<DefaultContext>>)},
        t \in {None, One("Thing"), One("Lamp"), List(<<"Lamp">>), List(<<"Lamp", "Thing">>)},
        b \in {"", "far"}, s \in {None, One("basic_sc"), List(<<"basic_sc">>)},
        f \in {None} \union {One(DocForm(k)) : k \in {"absolute", "relative", "missing"}}
                \union {List(<<DocForm(k), DocForm("absolute")>>) :
                          k \in {"hostport", "relative"}}}

MCModbusJobs ==
    {[kind |-> "modbus", bytes |-> n, base |-> 2,
      form |-> [entity |-> f[1], function |-> f[2], offset |-> o, length |-> l,
                unitID |-> 1, byteSeq |-> q,
                url |-> [unitID |-> 0, offset |-> u, length |-> m]]] :
        n \in 0 .. 4,
        f \in {<<e, "">> : e \in {"Coil", "HoldingRegister", "InputRegister", "DiscreteInput", ""}}
                \union {<<"", g>> : g \in DOMAIN EntityOf \union {"unknown"}},
        o \in {Unset, 2, 3}, l \in {0, 1, 2}, q \in {"", "LITTLE_ENDIAN", "MIDDLE"},
        u \in {0, 4}, m \in {0, 2}}

Link(href, media) == [href |-> href, mediaType |-> media]

MCOldJobs ==
    {[kind |-> "old", version |-> v,
      td |-> [base |-> b,
              inters |-> <<[types |-> t, links |-> l, hrefs |-> <<>>, valueType |-> "",
                            output |-> [nested |-> v = 2, type |-> "number"]],
                           [types |-> {"Action"}, links |-> <<Link("x", "json")>>,
                            hrefs |-> <<>>, valueType |-> "",
                            output |-> [nested |-> FALSE, type |-> ""]]>>]] :
        v \in {2, 3}, b \in {"", "far"},
        t \in SUBSET {"Property", "Action", "Event"},
        l \in {<<>>, <<Link("x", "json"), Link("y", "json"), Link("z", "exi")>>}}
=============================================================================
