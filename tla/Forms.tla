-------------------------------- MODULE Forms --------------------------------
(* The forms of a description and the requests they lead to. The HTTP server *)
(* adds a form for each operation of a thing; a client takes one of them,    *)
(* signs its request and sends it, and the server routes it. A form of a     *)
(* Modbus device is completed from its address before it is used.            *)
EXTENDS Descriptions, Integers

CONSTANTS
    Escaped,                      \* names that an address holds escaped
    Undecoded                     \* of some of them, what a server reads instead

(* encodeURIComponent() escapes more than decodeURI() restores: a colon, a   *)
(* slash or a comma stays escaped, so that a name with one is another name.  *)
ASSUME NamesAssumption ==
    \A name \in DOMAIN Undecoded : name \in Escaped /\ Undecoded[name] # name

Unescaped(name) == <<"", name>>
EncodeURIComponent(name) == <<IF name \in Escaped THEN "%" ELSE "", name>>
DecodeURI(segment) ==
    IF segment[1] = "%" /\ segment[2] \in DOMAIN Undecoded
    THEN Undecoded[segment[2]] ELSE segment[2]

ReadAll == {"readallproperties", "readmultipleproperties"}
WriteAll == {"writeallproperties", "writemultipleproperties"}

Is(affordance, flag) ==
    flag \in DOMAIN affordance.flags /\ affordance.flags[flag] = "true"

NewForm(href, op, method, media) ==
    [href |-> href, op |-> op, method |-> method, media |-> media]

(* Below the path of the thing, and with the names of the variables that the *)
(* template is expanded with.                                                *)
Href(base, host, dir, name, affordance) ==
    [kind |-> "absolute", host |-> host,
     thing |-> EncodeURIComponent(base.urlPath),
     path |-> <<dir, EncodeURIComponent(name)>>,
     variables |-> {EncodeURIComponent(v) : v \in affordance.uriVariables}]

(* The first content type of the template that is given replaces the one of  *)
(* the server, for properties, actions and events alike.                     *)
TemplateMedia(affordance, media) ==
    LET given == SelectSeq(affordance.template, LAMBDA m : m # "")
    IN  IF given = <<>> THEN media ELSE Head(given)

(* A property is read with one form and written with another when only one   *)
(* of both is possible, and with one form for both otherwise. A cloud thing  *)
(* has one address for all reads and one for all writes.                     *)
PropertyForms(name, property, base, media) ==
    LET href == Href(base, base.host, "properties", name, property)
        typed == TemplateMedia(property, media)
        cloud(path) == [href EXCEPT !.path = <<path, Unescaped(name)>>,
                                    !.variables = {}]
        observable == NewForm([href EXCEPT !.path = @ \o <<"observable">>,
                                           !.variables = {}],
                              {"observeproperty", "unobserveproperty"}, "", media)
        plain == CASE Is(property, "readOnly") ->
                        <<NewForm(href, {"readproperty"}, "GET", typed)>>
                   [] ~Is(property, "readOnly") /\ Is(property, "writeOnly") ->
                        <<NewForm(href, {"writeproperty"}, "PUT", typed)>>
                   [] OTHER -> <<NewForm(href, {"readproperty", "writeproperty"},
                                         "", typed)>>
        reads == IF Is(property, "writeOnly") THEN <<>>
                 ELSE <<NewForm(cloud("status"), {"readproperty"}, "GET", media)>>
        writes == IF Is(property, "readOnly") THEN <<>>
                  ELSE <<NewForm(cloud("commands"), {"writeproperty"}, "POST", media)>>
    IN  (IF base.cloud THEN reads \o writes ELSE plain)
          \o (IF Is(property, "observable") THEN <<observable>> ELSE <<>>)

(* The form of a thing for all of its properties.                            *)
ThingForms(properties, base, media) ==
    LET readOnly == \A p \in properties : Is(p, "readOnly")
        writeOnly == \A p \in properties : Is(p, "writeOnly")
        href(dir, name) == [kind |-> "absolute", host |-> base.host,
                            thing |-> EncodeURIComponent(base.urlPath),
                            path |-> <<dir, Unescaped(name)>>, variables |-> {}]
        op == CASE readOnly -> ReadAll
                [] ~readOnly /\ writeOnly -> WriteAll
                [] OTHER -> ReadAll \union WriteAll
        reads == IF writeOnly THEN <<>>
                 ELSE <<NewForm(href("status", "all"), {"readallproperties"},
                                "GET", media)>>
        writes == IF readOnly THEN <<>>
                  ELSE <<NewForm(href("commands", "all"), WriteAll, "POST", media)>>
    IN  CASE properties = {} -> <<>>
          [] properties # {} /\ ~base.cloud ->
                <<NewForm(href("all", "properties"), op, "", media)>>
          [] OTHER -> reads \o writes

(* Actions and events of a cloud thing are served by the server itself. A    *)
(* property with endpoints of its own makes the code look for them in the    *)
(* thing, where there are none, and a cloud thing that is never read has no  *)
(* array for the form that writes it.                                        *)
AddEndpoint(thing, base, media) ==
    LET names(kind) == {n \in DOMAIN thing.affordances :
                          thing.affordances[n].kind = kind}
        properties == {thing.affordances[n] : n \in names("properties")}
        own(dir, name, affordance) ==
            Href(base, IF base.cloud THEN base.second ELSE base.host, dir, name,
                 affordance)
        forms(name) ==
            LET a == thing.affordances[name]
                typed == TemplateMedia(a, media)
            IN  CASE a.kind = "properties" -> PropertyForms(name, a, base, media)
                  [] a.kind = "actions" ->
                       <<NewForm(own("actions", name, a), {"invokeaction"},
                                 "POST", typed)>>
                  [] a.kind = "events" ->
                       <<NewForm(own("events", name, a),
                                 {"subscribeevent", "unsubscribeevent"}, "", typed)>>
        lost == \/ \E p \in properties : p.endpoints /\ ~base.cloud
                       /\ ~Is(p, "readOnly") /\ ~Is(p, "writeOnly")
                \/ /\ base.cloud /\ properties # {}
                   /\ \A p \in properties : Is(p, "writeOnly")
                   /\ \E p \in properties : ~Is(p, "readOnly")
    IN  IF lost THEN Refused
        ELSE [thing EXCEPT
                !.forms = ThingForms(properties, base, media),
                !.affordances = [n \in DOMAIN @ |->
                                   [@[n] EXCEPT !.forms = List(forms(n))]]]

NoDefinitions == [undefined |-> "none"]

(* The first of the definitions of the thing is named, whatever its scheme.  *)
FillSecurityFirst(thing, scheme) ==
    LET chosen == CHOOSE n \in DOMAIN thing.definitions : TRUE
    IN  IF thing.definitions \in {<<>>, NoDefinitions} THEN thing
        ELSE [thing EXCEPT !.definitions = [n \in {chosen} |-> @[n]],
                           !.security = List(<<chosen>>)]

(* A thing without definitions gets one, and one that does not define what   *)
(* the server asks for is refused, also if its definitions are empty.        *)
FillSecurityScheme(thing, scheme) ==
    LET found == {n \in DOMAIN thing.definitions : thing.definitions[n] = scheme}
        chosen == CHOOSE n \in found : TRUE
    IN  IF thing.definitions = NoDefinitions
        THEN [thing EXCEPT !.definitions = "noSec" :> "nosec",
                           !.security = List(<<"noSec">>)]
        ELSE IF found = {} THEN Refused
        ELSE [thing EXCEPT !.definitions = [n \in {chosen} |-> scheme],
                           !.security = List(<<chosen>>)]

(* Only a server with its own addresses and with TLS names its security.     *)
Named(server) == server.tls /\ ~server.baseUri

Expose(thing, server) ==
    LET media == "application/json"
        exposed == AddEndpoint(thing, server.base, media)
    IN  IF exposed # Refused /\ Named(server)
        THEN FillSecurityScheme(exposed, server.scheme) ELSE exposed

-----------------------------------------------------------------------------
(* The credential of a client for the first of the schemes, if it has what   *)
(* the scheme takes.                                                         *)
CredentialOf(scheme, credentials) ==
    CASE scheme = "nosec" -> <<"none">>
      [] scheme = "basic" ->
            IF credentials = "" THEN <<"refused">> ELSE <<"Basic", credentials>>
      [] scheme = "bearer" ->
            IF credentials = "" THEN <<"refused">> ELSE <<"Bearer", credentials>>
      [] scheme = "apikey" ->
            IF credentials = "" THEN <<"refused">> ELSE <<"key", credentials>>
      [] OTHER -> <<"none">>

Reads == ReadAll \union {"readproperty", "observeproperty", "subscribeevent"}
Writes == WriteAll \union {"writeproperty"}
Operations == Reads \union Writes \union {"invokeaction"}
Sends == {"writeproperty", "invokeaction"}

DefaultMethod(op) ==
    CASE op \in Reads -> "GET"
      [] op \in Writes -> "PUT"
      [] op = "invokeaction" -> "POST"

(* A template is expanded with the variables of its names, which are sent in *)
(* the query; an escaped name is none of a variable. The body has its own    *)
(* media type.                                                               *)
GenerateFetchRequest(form, op, credential, variables) ==
    [method |-> IF form.method # "" THEN form.method ELSE DefaultMethod(op),
     host |-> form.href.host, thing |-> form.href.thing, path |-> form.href.path,
     query |-> {v \in variables : Unescaped(v) \in form.href.variables},
     authorization |-> credential,
     media |-> IF op \in Sends THEN form.media ELSE ""]

(* The parameters are those the interaction declares.                        *)
ParseUrlParameters(request, affordance) ==
    request.query \intersect affordance.uriVariables

Accepted(request, server) ==
    CASE server.scheme = "nosec" -> TRUE
      [] server.scheme = "basic" -> request.authorization = <<"Basic", server.secret>>
      [] server.scheme = "bearer" -> request.authorization = <<"Bearer", server.secret>>
      [] OTHER -> FALSE

(* Some of the media types that the server has a codec for, or none at all.  *)
SupportedMedia == {"", "application/json", "text/plain", "application/octet-stream"}

(* What the server does of a thing for a request: the operation that is      *)
(* handled, or the status that refuses it.                                   *)
Handled(request, thing, server) ==
    LET dir == request.path[1]
        name == DecodeURI(request.path[2])
        known(kind) == name \in DOMAIN thing.affordances
                         /\ thing.affordances[name].kind = kind
        affordance == thing.affordances[name]
        observes == Len(request.path) = 3
    IN  CASE request.method \in {"PUT", "POST"} /\ request.media \notin SupportedMedia
               -> "415"
          [] DecodeURI(request.thing) # server.base.urlPath -> "404"
          [] ~Accepted(request, server) -> "401"
          [] dir = "all" -> IF request.method = "GET" THEN "readallproperties"
                            ELSE "405"
          [] dir = "properties" /\ known("properties") ->
               CASE request.method = "GET" /\ observes -> "observeproperty"
                 [] request.method = "GET" /\ ~observes -> "readproperty"
                 [] request.method = "PUT" ->
                      IF Is(affordance, "readOnly") THEN "400" ELSE "writeproperty"
                 [] OTHER -> "405"
          [] dir = "actions" /\ known("actions") ->
               IF request.method = "POST" THEN "invokeaction" ELSE "405"
          [] dir = "events" /\ known("events") ->
               IF request.method = "GET" THEN "subscribeevent" ELSE "405"
          [] OTHER -> "404"

-----------------------------------------------------------------------------
(* Modbus. Functions read or write coils, inputs and registers.              *)
EntityOf ==
    [readCoil |-> "Coil", readDiscreteInput |-> "DiscreteInput",
     readInputRegister |-> "InputRegister",
     readHoldingRegisters |-> "HoldingRegister",
     writeSingleCoil |-> "Coil", writeSingleHoldingRegister |-> "HoldingRegister",
     writeMultipleCoils |-> "Coil",
     writeMultipleHoldingRegisters |-> "HoldingRegister"]

Entities == {"Coil", "InputRegister", "HoldingRegister", "DiscreteInput"}

Unset == -1                       \* a field a form does not have

ModbusForms ==
    [entity : Entities \union {""}, function : STRING, offset : Nat \union {Unset},
     length : Nat, unitID : Nat, byteSeq : STRING,
     url : [unitID : Nat, offset : Nat, length : Nat]]

SizeOf(entity) == IF entity \in {"InputRegister", "HoldingRegister"} THEN 2 ELSE 1

FunctionOf(entity, bytes) ==
    CASE entity = "Coil" ->
           CASE bytes = 0 -> "readCoil"
             [] bytes = 1 -> "writeSingleCoil"
             [] OTHER -> "writeMultipleCoils"
      [] entity = "HoldingRegister" ->
           CASE bytes = 0 -> "readHoldingRegisters"
             [] bytes \in {1, 2} -> "writeSingleHoldingRegister"
             [] OTHER -> "writeMultipleHoldingRegisters"
      [] entity = "InputRegister" -> "readInputRegister"
      [] entity = "DiscreteInput" -> "readDiscreteInput"

(* A form names an entity or a function, and must have an offset. The length *)
(* is twice as many bytes for registers, kept doubled here because a         *)
(* quotient of bytes may be a half.                                          *)
ValidateAndFillDefaultForm(form, bytes) ==
    LET entity == IF form.entity # "" THEN form.entity ELSE EntityOf[form.function]
        length == CASE form.length > 0 -> 2 * form.length
                    [] form.length <= 0 /\ bytes = 0 -> 2
                    [] OTHER -> (2 * bytes) \div SizeOf(entity)
    IN  IF \/ form.entity = "" /\ form.function = ""
           \/ form.function # "" /\ form.function \notin DOMAIN EntityOf
           \/ form.offset = Unset
        THEN Refused
        ELSE [form EXCEPT !.entity = entity, !.length = length,
                          !.function = IF form.entity = "" THEN @
                                       ELSE FunctionOf(entity, bytes)]

(* What the address gives replaces what the form has, unless it is zero.     *)
OverrideFormFromURLPath(form) ==
    LET given(n, default) == IF n > 0 THEN n ELSE default
    IN  [form EXCEPT !.unitID = given(form.url.unitID, @),
                     !.offset = given(form.url.offset, @),
                     !.length = IF form.url.length > 0
                                THEN 2 * form.url.length ELSE @]

ValidateContentLength(form, bytes) ==
    bytes > 0 => 2 * bytes = SizeOf(form.entity) * form.length

Orders == {"BIG_ENDIAN", "LITTLE_ENDIAN", "BIG_ENDIAN_BYTE_SWAP",
           "LITTLE_ENDIAN_BYTE_SWAP"}

ValidateEndianness(order) ==
    CASE order = "" -> "BIG_ENDIAN"
      [] order \in Orders -> order
      [] OTHER -> "invalid"

PerformOperation(form, bytes) ==
    LET filled == ValidateAndFillDefaultForm(form, bytes)
        final == OverrideFormFromURLPath(filled)
    IN  IF \/ filled = Refused
           \/ ValidateEndianness(form.byteSeq) = "invalid"
           \/ ~ValidateContentLength(final, bytes)
        THEN Refused ELSE final

(* The part of a reply that is the operation's: the end of a slice of coils  *)
(* is its length, not its offset and its length.                             *)
SliceOf(reply, form, base) ==
    LET from == form.offset - base
        length == form.length \div 2
    IN  IF SizeOf(form.entity) = 2
        THEN SubSeq(reply, 2 * from + 1, 2 * (from + length))
        ELSE SubSeq(reply, from + 1, length)
=============================================================================
