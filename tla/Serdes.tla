------------------------------- MODULE Serdes -------------------------------
(* ContentSerdes and the codecs it chooses from: a value and the schema of   *)
(* its interaction become the content of a message and back. An object is a  *)
(* pair of "object" and a function of its keys; JSON text is the value it    *)
(* stands for. A namespace is a triple of "urn", what precedes its last      *)
(* segment, and this segment, which the codec takes for an alias.            *)
EXTENDS OctetstreamCodec, FiniteSets

CONSTANT Begins(_, _)             \* a name is the beginning of another one

Object(fields) == <<"object", fields>>
Json(value) == <<"json", value>>

Field(value, key) ==
    IF value[1] = "object" THEN Given(value[2], key, Undefined) ELSE Undefined

(* JSON.parse() of received bytes, or the text itself when it is no JSON.    *)
Parsed(bytes) ==
    LET text == Characters(bytes, "utf8")
    IN  IF bytes = Empty THEN Undefined
        ELSE IF text[1] = "printed" THEN text[2] ELSE text

Unwrapped(value) ==
    IF Field(value, "value") # Undefined THEN Field(value, "value") ELSE value

(* A number keeps the null that JSON has for it, an undefined value no text. *)
JsonBytes(value) == IF value = Undefined THEN Empty ELSE Json(value)

JsonValue(bytes) == Unwrapped(Parsed(bytes))

(* Buffer.from() takes strings only, and the codec does not convert. What    *)
(* other charsets than the two of Unicode keep of a string is not looked at, *)
(* and one that the codec does not know is taken for utf8.                   *)
TextBytes(value, charset) ==
    CASE value = Undefined -> Empty
      [] value[1] \in {"string", "printed", "raw"} ->
            CASE charset \in {"utf8", "utf16le"} -> Encoded(value, charset)
              [] charset = "unknown" -> Text(value)
              [] OTHER -> Encoded(<<"raw", value>>, charset)
      [] OTHER -> Fails

(* Base 64 text is decoded when it is sent, and not encoded when received.   *)
Base64Bytes(value) ==
    CASE value = Undefined -> Empty
      [] value[1] \in {"string", "printed", "raw"} -> Text(<<"raw", value>>)
      [] OTHER -> Fails

-----------------------------------------------------------------------------
(* OPC UA. A node variable is written with the data type of its property,    *)
(* an action with one argument for each of its inputs.                       *)
DataTypes == {"Boolean", "Int32", "UInt32", "Double", "String"}

DataType(name) == <<"type", IF name \in DataTypes THEN name ELSE "Double">>

Argument(name, value) ==
    Object([dataType |-> DataType(name), value |-> value])

InputArguments(value, input) ==
    LET named == IF value[1] = "object" THEN DOMAIN value[2] ELSE {}
        given(key) == Given(input.properties, key, "")
    IN  CASE "properties" \notin DOMAIN input ->
                IF input.type = "object" \/ input.dataType = "" THEN Fails
                ELSE Object([single |-> Argument(input.dataType, value)])
          [] OTHER ->
                IF \E key \in named : given(key) = "" THEN Fails
                ELSE Object([key \in named |-> Argument(given(key), value[2][key])])

OpcuaBytes(value, schema) ==
    CASE value = Undefined -> Empty
      [] value # Undefined /\ schema.class = "property" ->
            IF schema.dataType = "" THEN Fails
            ELSE Json(Object([payload |-> value, dataType |-> DataType(schema.dataType)]))
      [] value # Undefined /\ schema.class = "action" ->
            LET arguments == InputArguments(value, schema.input)
            IN  IF arguments = Fails THEN Fails
                ELSE Json(Object([payload |-> value, inputArguments |-> arguments]))
      [] OTHER -> Json(Object([payload |-> value]))

(* A read answers with a data value, whose value is a variant with a value.  *)
OpcuaValue(bytes) ==
    IF bytes = Empty THEN Undefined
    ELSE Unwrapped(Field(Parsed(bytes), "value"))

-----------------------------------------------------------------------------
(* NETCONF. Schemas are leaves, objects of schemas and containers, which     *)
(* tell of each field whether it is the namespace of the other one.          *)
Alias(ns) == ns[3]

(* Every field is there, one of them is the namespace, and the alias of the  *)
(* namespace becomes the prefix of the value, which the leaf names, if any.  *)
Container(fields, payload, leaf) ==
    LET spaces == {key \in DOMAIN fields : fields[key]}
        ns == Field(payload, CHOOSE key \in spaces : TRUE)
        values == DOMAIN fields \ spaces
        value == IF values = {} THEN Undefined
                 ELSE Field(payload, CHOOSE key \in values : TRUE)
        prefixed == <<"prefixed", Alias(ns), value>>
    IN  IF spaces = {} \/ \E key \in DOMAIN fields : ~Truthy(Field(payload, key))
        THEN Fails
        ELSE <<IF leaf = "" THEN prefixed ELSE Object(leaf :> prefixed), Alias(ns) :> ns>>

(* Nested objects are gone through key by key, here along the keys that lead *)
(* to them; the namespaces found later replace those of the same alias found *)
(* before.                                                                   *)
Namespaces(schema, payload, leaf) ==
    LET at(path) == FoldLeft(LAMBDA tree, key : tree[2][key], schema, path)
        within(path) == FoldLeft(Field, payload, path)
        nested(tree) == {key \in DOMAIN tree[2] : tree[2][key][1] # "leaf"}
        object(tree, value, below) ==
            IF \/ \E key \in nested(tree) : below[key] = Fails
               \/ nested(tree) # {} /\ value[1] # "object"
            THEN Fails
            ELSE <<IF nested(tree) = {} THEN value
                   ELSE Object([key \in nested(tree) |-> below[key][1]] @@ value[2]),
                   FoldSet(LAMBDA key, nss : below[key][2] @@ nss, <<>>, nested(tree))>>
        found[path \in Seq(STRING)] ==
            LET tree == at(path)
            IN  CASE tree[1] = "leaf" -> <<within(path), <<>>>>
                  [] tree[1] = "container" -> Container(tree[2], within(path), leaf)
                  [] OTHER -> object(tree, within(path),
                                     [key \in nested(tree) |-> found[Append(path, key)]])
    IN  found[<<>>]

(* The last step of the path of the first form names the leaf.               *)
NetconfBytes(value, schema, leaf) ==
    LET found == Namespaces(schema, value, leaf)
    IN  CASE value = Undefined -> Empty
          [] value # Undefined /\ (leaf = "" \/ found = Fails) -> Fails
          [] OTHER -> Json(Object([payload |-> found[1], NSs |-> found[2]]))

(* The codec of the core does not name the leaf.                             *)
CoreNetconfBytes(value, schema) ==
    LET found == Namespaces(schema, value, "")
    IN  CASE value = Undefined -> Empty
          [] value # Undefined /\ found = Fails -> Fails
          [] OTHER -> Json(Object([payload |-> found[1], NSs |-> found[2]]))

(* The reply is followed along the steps of the path. An identity of a       *)
(* container is split in its namespace and its name; other objects stay in   *)
(* the reply they came in.                                                   *)
NetconfValue(bytes, schema, path) ==
    LET reply == Field(Field(Parsed(bytes), "rpc_reply"), "data")
        found == FoldLeft(Field, reply, path)
    IN  CASE bytes = Empty -> Undefined
          [] bytes # Empty /\ bytes[1] # "json" -> Characters(bytes, "utf8")
          [] bytes # Empty /\ bytes[1] = "json" /\
               (path = <<>> \/ FoldLeft(Field, reply, Front(path)) = Undefined) -> Fails
          [] bytes # Empty /\ bytes[1] = "json" /\ path # <<>> /\
               FoldLeft(Field, reply, Front(path)) # Undefined ->
               CASE schema[1] = "leaf" -> found
                 [] schema[1] = "container" ->
                      IF found[1] # "instance" THEN Fails
                      ELSE Object([xmlns |-> found[2], value |-> found[3]])
                 [] OTHER -> Parsed(bytes)

-----------------------------------------------------------------------------
(* A step of a path has the alias of its namespace, a name, and the leaves   *)
(* that are written in brackets behind it. No path that means anything has   *)
(* an object or a value like 0 appended, which follow without a slash: the   *)
(* path is empty then.                                                       *)
JsonToXpath(step, payload) ==
    IF \E key \in DOMAIN payload[2] :
          payload[2][key][1] = "object" \/ ~Truthy(payload[2][key])
    THEN <<>>
    ELSE <<[step EXCEPT !.leaves = @ @@ payload[2]]>>

(* The leaves of the payload go behind the last step. The step that names    *)
(* the leaf is removed before, unless it is the only one, at the first place *)
(* where its text occurs, which may cut another step.                        *)
AddLeaves(path, payload) ==
    LET last == Len(path)
        first == CHOOSE i \in 1 .. last :
                    /\ Begins(path[i].name, path[last].name)
                    /\ \A j \in 1 .. i - 1 : ~Begins(path[j].name, path[last].name)
        kept == IF last > 1 THEN Front(path) ELSE path
        extended == JsonToXpath(Last(kept), payload)
    IN  IF payload[1] # "object" THEN path
        ELSE IF (last > 1 /\ first # last) \/ extended = <<>> THEN <<>>
        ELSE Front(kept) \o extended

(* From the last step to the first, each element with the namespace of its   *)
(* alias. The alias of a value is looked up below the root only.             *)
Unresolved(path, nss) ==
    \E i \in DOMAIN path :
        \/ path[i].ns # "" /\ path[i].ns \notin DOMAIN nss
        \/ /\ i > 1
           /\ \E key \in DOMAIN path[i].leaves :
                LET value == path[i].leaves[key]
                IN  value[1] = "prefixed" /\ value[2] \notin DOMAIN nss

XpathToJson(path, nss) ==
    LET spaced(i, value) ==
            IF i > 1 /\ value[1] = "prefixed"
            THEN <<"instance", nss[value[2]], value[3]>> ELSE value
        element(i, below) ==
            Object(below @@ [key \in DOMAIN path[i].leaves |->
                               spaced(i, path[i].leaves[key])]
                         @@ (IF path[i].ns = "" THEN <<>>
                             ELSE "$" :> nss[path[i].ns]))
    IN  IF Unresolved(path, nss) THEN Fails
        ELSE Object(FoldRight(LAMBDA i, below : path[i].name :> element(i, below),
                              [i \in DOMAIN path |-> i], <<>>))

-----------------------------------------------------------------------------
(* The codecs that get() and the client factories register.                  *)
CodecOf(media) ==
    CASE media \in {"application/json", "application/senml+json"} -> "json"
      [] media \in {"text/plain", "application/xml"} -> "text"
      [] media = "image/png" -> "base64"
      [] media = "application/octet-stream" -> "octets"
      [] media = "application/x.opcua-binary" -> "opcua"
      [] media = "application/yang-data+xml" -> "netconf"
      [] OTHER -> "none"

(* An unsupported media type passes strings through.                         *)
ValueToContent(value, schema, contentType) ==
    LET codec == CodecOf(contentType.media)
    IN  CASE codec = "json" -> JsonBytes(value)
          [] codec = "text" -> TextBytes(value, CharsetOf(contentType.parameters))
          [] codec = "none" ->
                IF value = Undefined THEN Fails ELSE TextBytes(value, "utf8")
          [] codec = "base64" -> Base64Bytes(value)
          [] codec = "octets" ->
                ValueToBytes(value, schema.type, contentType.parameters)
          [] codec = "opcua" -> OpcuaBytes(value, schema)
          [] codec = "netconf" -> NetconfBytes(value, schema.tree, schema.leaf)

(* Content without a type is JSON, unless it is empty.                       *)
ContentToValue(bytes, schema, contentType) ==
    LET codec == IF contentType.media = "" THEN "json"
                 ELSE CodecOf(contentType.media)
    IN  CASE codec = "json" -> JsonValue(bytes)
          [] codec = "text" -> Characters(bytes, CharsetOf(contentType.parameters))
          [] codec = "none" -> Characters(bytes, "utf8")
          [] codec = "base64" -> Characters(bytes, "ascii")
          [] codec = "octets" ->
                BytesToValue(bytes, schema.type, contentType.parameters)
          [] codec = "opcua" -> OpcuaValue(bytes)
          [] codec = "netconf" -> NetconfValue(bytes, schema.tree, schema.path)
=============================================================================
