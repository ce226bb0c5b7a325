---------------------------- MODULE Conversions ----------------------------
(* What becomes of a value, a description or a form on its way through the   *)
(* program. A job is one of them with all that its way depends on; each step *)
(* converts the data of the job, or ends it when the code refuses.           *)
(*   value     from a consumed thing into content, to the device, and back   *)
(*   http      a thing exposed by an HTTP server, described, consumed, and   *)
(*             one of its operations requested                               *)
(*   document  a description from elsewhere, parsed, serialized, parsed      *)
(*   modbus    a form completed and the reply of the device taken apart      *)
(*   old       a description of version 2 or 3 transformed to version 1      *)
EXTENDS Serdes, Forms

CONSTANTS ValueJobs, HttpJobs, DocumentJobs, ModbusJobs, OldJobs

(* Numbers and booleans have a content of their own; the parameters of a     *)
(* content type have the types that the codec parses them to. The cloud of a *)
(* thing is another host than the server.                                    *)
ASSUME JobsAssumption ==
    /\ \A j \in ValueJobs :
        /\ j.kind = "value" /\ j.value # Fails
        /\ j.value[1] = "number" => j.value = Number(j.value[2]) /\ j.value[2] \in Int
        /\ j.value[1] = "boolean" => j.value \in {Boolean(TRUE), Boolean(FALSE)}
        /\ Given(j.type.parameters, "length", 0) \in Nat
        /\ Given(j.type.parameters, "signed", TRUE) \in BOOLEAN
        /\ Given(j.type.parameters, "bigendian", TRUE) \in BOOLEAN
    /\ \A j \in HttpJobs :
        /\ j.kind = "http" /\ WellFormed(j.thing) /\ "forms" \in DOMAIN j.thing
        /\ \A name \in DOMAIN j.thing.affordances :
             "uriVariables" \in DOMAIN j.thing.affordances[name]
        /\ j.name = "" \/ j.name \in DOMAIN j.thing.affordances
        /\ j.op \in Operations
        /\ j.server.tls \in BOOLEAN /\ j.server.baseUri \in BOOLEAN
        /\ j.server.base.cloud => j.server.base.host # j.server.base.second
    /\ \A j \in DocumentJobs : j.kind = "document" /\ WellFormed(j.td)
    /\ \A j \in OldJobs : j.kind = "old"

(* The device is read from the offset of the form, or from one before it.    *)
ASSUME ModbusAssumption ==
    \A j \in ModbusJobs :
        /\ j.kind = "modbus" /\ j.form \in ModbusForms
        /\ j.bytes \in Nat /\ j.base \in Nat
        /\ j.form.offset # Unset => j.base <= j.form.offset
        /\ j.form.url.offset > 0 => j.base <= j.form.url.offset

VARIABLES job, stage, data
vars == <<job, stage, data>>

Stages == {"given", "refused", "sent", "received", "decoded", "exposed",
           "described", "consumed", "requested", "handled", "parsed",
           "serialized", "reparsed", "filled", "answered", "transformed"}

Init ==
    /\ stage = "given"
    /\ \/ job \in ValueJobs
       \/ job \in HttpJobs
       \/ job \in DocumentJobs
       \/ job \in ModbusJobs
       \/ job \in OldJobs
    /\ data = <<"nothing">>

Step(kind, from, to) ==
    /\ job.kind = kind /\ stage = from /\ stage' = to
    /\ UNCHANGED job

-----------------------------------------------------------------------------
Encode ==
    LET bytes == ValueToContent(job.value, job.schema, job.type)
    IN  /\ Step("value", "given", IF bytes = Fails THEN "refused" ELSE "sent")
        /\ data' = bytes

(* A device answers with what was written: an OPC UA node as a data value, a *)
(* NETCONF server with the tree that the path stands for. The clients cannot *)
(* parse empty content.                                                      *)
OpcuaReply(bytes) ==
    LET written == Field(Parsed(bytes), "payload")
    IN  IF bytes = Empty THEN Fails
        ELSE Json(Object([value |-> Object([value |-> written])]))

NetconfReply(bytes, path) ==
    LET extended == AddLeaves(path, Field(Parsed(bytes), "payload"))
        tree == XpathToJson(extended, Field(Parsed(bytes), "NSs"))
    IN  IF bytes = Empty \/ extended = <<>> \/ tree = Fails THEN Fails
        ELSE Json(Object([rpc_reply |-> Object([data |-> tree])]))

Reply(bytes) ==
    LET codec == CodecOf(job.type.media)
    IN  CASE codec = "opcua" -> OpcuaReply(bytes)
          [] codec = "netconf" -> NetconfReply(bytes, job.schema.steps)
          [] OTHER -> bytes

Carry ==
    LET reply == Reply(data)
    IN  /\ Step("value", "sent", IF reply = Fails THEN "refused" ELSE "received")
        /\ data' = reply

Decode ==
    LET value == ContentToValue(data, job.schema, job.type)
    IN  /\ Step("value", "received", IF value = Fails THEN "refused" ELSE "decoded")
        /\ data' = value

-----------------------------------------------------------------------------
ExposeThing ==
    LET exposed == Expose([job.thing EXCEPT !.context = WithLanguage(@)], job.server)
    IN  /\ Step("http", "given", IF exposed = Refused THEN "refused" ELSE "exposed")
        /\ data' = exposed

(* The description a GET request of the thing is answered with.              *)
Describe ==
    /\ Step("http", "exposed", "described")
    /\ data' = Negotiated(SerializeTD(data), job.language)

Consume ==
    LET thing == ParseTD(data)
    IN  /\ Step("http", "described", IF thing = Refused THEN "refused" ELSE "consumed")
        /\ data' = thing

(* The forms of the affordance of the job, or of the thing, and those of     *)
(* them that offer its operation. The first one is taken.                    *)
FormsAsked(thing) ==
    IF job.name = "" THEN thing.forms ELSE FormsOf(thing.affordances[job.name])

Offering(thing) ==
    {i \in DOMAIN FormsAsked(thing) : job.op \in FormsAsked(thing)[i].op}

Request ==
    LET offering == Offering(data)
        credential == CredentialOf(data.definitions[Head(data.security[2])],
                                   job.credentials)
        refused == offering = {} \/ credential = <<"refused">>
    IN  /\ Step("http", "consumed", IF refused THEN "refused" ELSE "requested")
        /\ data' = IF refused THEN <<"nothing">>
                   ELSE GenerateFetchRequest(FormsAsked(data)[Min(offering)],
                                             job.op, credential, job.variables)

Serve ==
    LET thing == Expose(job.thing, job.server)
        handled == Handled(data, thing, job.server)
    IN  /\ Step("http", "requested", "handled")
        /\ data' = [by |-> data.host, as |-> handled,
                    variables |-> IF handled = "401" \/ job.name = "" THEN {}
                                  ELSE ParseUrlParameters(data,
                                         thing.affordances[job.name])]

-----------------------------------------------------------------------------
Parse ==
    LET thing == ParseTD(IF stage = "given" THEN job.td ELSE data)
    IN  /\ \/ Step("document", "given", IF thing = Refused THEN "refused" ELSE "parsed")
           \/ Step("document", "serialized",
                   IF thing = Refused THEN "refused" ELSE "reparsed")
        /\ data' = thing

Serialize ==
    /\ Step("document", "parsed", "serialized")
    /\ data' = SerializeTD(data)

Fill ==
    LET form == PerformOperation(job.form, job.bytes)
    IN  /\ Step("modbus", "given", IF form = Refused THEN "refused" ELSE "filled")
        /\ data' = form

(* The device answers a read that starts at base, with consecutive values.   *)
Answered ==
    LET size == SizeOf(data.entity)
        cells == data.offset - job.base + data.length \div 2
        reply == [i \in 1 .. size * cells |-> size * job.base + i]
    IN  /\ Step("modbus", "filled", "answered") /\ job.bytes = 0
        /\ data' = [form |-> data, content |-> SliceOf(reply, data, job.base)]

Transform ==
    /\ Step("old", "given", "transformed")
    /\ data' = IF job.version = 2 THEN TransformTDV2(job.td)
               ELSE TransformTDV3(job.td)

Done ==
    /\ \/ stage \in {"refused", "decoded", "handled", "reparsed", "answered",
                     "transformed"}
       \/ stage = "filled" /\ job.bytes > 0
    /\ UNCHANGED vars

Next ==
    \/ Encode \/ Carry \/ Decode
    \/ ExposeThing \/ Describe \/ Consume \/ Request \/ Serve
    \/ Parse \/ Serialize
    \/ Fill \/ Answered
    \/ Transform
    \/ Done

Spec == Init /\ [][Next]_vars

-----------------------------------------------------------------------------
Codec == CodecOf(job.type.media)
CharsetAsked == CharsetOf(job.type.parameters)

(* An integer has one shape in both directions when its type or the          *)
(* parameters say its sign and its length, and both agree.                   *)
IntegerShape == Shape(job.schema.type,
                      Given(job.type.parameters, "signed", FALSE),
                      Given(job.type.parameters, "length", 0))

IsInteger ==
    /\ Codec = "octets" /\ job.value[1] = "number"
    /\ IntegerShape[2] \in {"int", "integer"} /\ IntegerShape[3] \in {1, 2, 4}
    /\ Given(job.type.parameters, "length", IntegerShape[3]) = IntegerShape[3]
    /\ \/ job.schema.type \in DOMAIN Typed
       \/ "signed" \in DOMAIN job.type.parameters

Kept == stage = "decoded" /\ data = job.value
KeptOrRefused == Kept \/ stage = "refused"

Ordinary(value) == value # Undefined /\ Field(value, "value") = Undefined

TextSurvives ==
    /\ Codec = "json" /\ Ordinary(job.value) => Kept
    /\ /\ job.value[1] = "string"
       /\ \/ Codec = "none"
          \/ Codec = "text" /\ CharsetAsked \in {"utf8", "utf16le"}
       => Kept

OctetsSurvive ==
    Codec = "octets" =>
        /\ /\ job.schema.type = "string" /\ job.value[1] = "string"
           /\ CharsetAsked = "utf8"
           => IF "length" \in DOMAIN job.type.parameters THEN KeptOrRefused ELSE Kept
        /\ /\ job.schema.type = "boolean" /\ job.value[1] = "boolean"
           /\ Given(job.type.parameters, "length", 0) # 0
           => Kept

IntegersSurvive ==
    IsInteger =>
        LET n == job.value[2]
            length == IntegerShape[3]
            greatest == ~IntegerShape[1] /\ n = Radix ^ length - 1
        IN  IF InRange(n, length, IntegerShape[1]) /\ ~greatest THEN Kept ELSE stage = "refused"

SessionsSurvive ==
    /\ Codec = "opcua" /\ job.value # Undefined => KeptOrRefused
    /\ Codec = "netconf" /\ job.schema.tree[1] = "container" => KeptOrRefused

(* What comes back from the device is what was written, and a value that     *)
(* cannot come back is refused. The greatest unsigned number is refused      *)
(* although it would fit. Left out are the values that the codecs change:    *)
(* JSON objects with a field "value", base 64 text, text in a charset that   *)
(* is not one of Unicode, octets of a string in any other charset than utf8, *)
(* which are read in it and written without it, integers of which nothing    *)
(* says the sign, and integers of other lengths than 1, 2 and 4.             *)
ValuesSurvive ==
    job.kind = "value" /\ stage \in {"decoded", "refused"} =>
        TextSurvives /\ OctetsSurvive /\ IntegersSurvive /\ SessionsSurvive

(* A form that the server has put into the description of a thing leads its  *)
(* client to a request that the server handles as the operation of the form, *)
(* with the credentials the description asks for and with every variable.    *)
(* Left out are the forms for writing all properties, which the server has   *)
(* no handler for; names that are not what they were after encodeURIComponent *)
(* and decodeURI, and variables whose name is escaped; things that do not    *)
(* name the security of the server: those without definitions, and those     *)
(* that it exposes without TLS or below a baseUri; servers with digest,      *)
(* which accept no one, or OAuth, which ask a service; and bodies of a       *)
(* content type that the server has no codec for. A Modbus form is completed *)
(* to a function of its entity that covers the content exactly, and a reply  *)
(* is cut to the registers of the form.                                      *)
RequestsUnderstood ==
    /\ job.kind = "http" /\ stage = "handled" =>
         LET own == data.by = job.server.base.second
             named == \/ job.server.scheme = "nosec"
                      \/ /\ job.server.scheme \in {"basic", "bearer"}
                         /\ Named(job.server)
                         /\ job.thing.definitions # NoDefinitions
             secret == job.credentials = job.server.secret
             typed == job.op \in Sends =>
                        TemplateMedia(job.thing.affordances[job.name],
                                      "application/json") \in SupportedMedia
             op == IF job.op = "readmultipleproperties" THEN "readallproperties"
                   ELSE job.op
             routed == {job.name, job.server.base.urlPath}
                         \intersect DOMAIN Undecoded = {}
             declared == job.thing.affordances[job.name].uriVariables
         IN  own /\ named /\ secret /\ typed /\ routed /\ job.op \notin WriteAll =>
                 /\ data.as = op
                 /\ job.name # "" /\ job.op # "observeproperty" =>
                      data.variables = (job.variables \intersect declared) \ Escaped
    /\ stage = "filled" =>
         /\ EntityOf[data.function] = data.entity
         /\ job.bytes > 0 => 2 * job.bytes = SizeOf(data.entity) * data.length
    /\ stage = "answered" =>
         LET form == data.form
             size == SizeOf(form.entity)
         IN  size = 2 \/ form.offset = job.base =>
               data.content = [i \in 1 .. size * (form.length \div 2) |->
                                 size * form.offset + i]

(* A description that was parsed is not changed by being serialized and      *)
(* parsed again, beyond the security it gets; no affordance has a relative   *)
(* form left (those of the thing itself the parser leaves as they are), and  *)
(* every form of an affordance of an exposed thing reaches its consumer. The *)
(* links of an older description become the hrefs of their interaction,      *)
(* once, and the interaction is listed once under each of its types; in      *)
(* version 3 this holds for interactions of one type.                        *)
DescriptionsStable ==
    /\ stage = "reparsed" => data = SerializeTD(ParseTD(job.td))
    /\ stage \in {"parsed", "reparsed", "consumed"} =>
         \A name \in DOMAIN data.affordances :
            \A i \in DOMAIN FormsOf(data.affordances[name]) :
               FormsOf(data.affordances[name])[i].href.kind # "relative"
    /\ stage = "consumed" =>
         \A name \in DOMAIN job.thing.affordances :
            FormsOf(data.affordances[name])
              = FormsOf(Expose(job.thing, job.server).affordances[name])
    /\ stage = "transformed" =>
         \A i \in DOMAIN job.td.inters :
            LET inter == job.td.inters[i]
                listed(type) == Len(SelectSeq(data.members[type], LAMBDA j : j = i))
            IN  job.version = 2 \/ Cardinality(inter.types) = 1 =>
                  /\ inter.types # {} =>
                       data.inters[i].hrefs = [j \in DOMAIN inter.links |->
                                                 inter.links[j].href]
                  /\ \A type \in ToSet(Types) :
                       listed(type) = IF type \in inter.types THEN 1 ELSE 0
=============================================================================
