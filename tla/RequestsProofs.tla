--------------------------- MODULE RequestsProofs ---------------------------
(***************************************************************************)
(* Theorems about Requests, for every set of requests, inputs, servers and *)
(* values: the types, that only due requests reach the thing, that what    *)
(* listens to a subject is told what it is called with, in order, and that *)
(* observations stop.                                                      *)
(***************************************************************************)
EXTENDS Requests, SequenceTheorems, TLAPS

-----------------------------------------------------------------------------
(* What the handling of a request does                                     *)

(* OnlyDueRequestsServed, for one request.                                 *)
Admitted(r) ==
    /\ r \in known
    /\ setup.binding = "http" =>
         CASE setup.security = "NoSec" -> TRUE
           [] setup.security = "Digest" -> FALSE
           [] setup.security = "OAuth" -> token[r] = "active"
           [] OTHER -> input[r].auth = "right"

Subscribes(r) == input[r].method = "GET" /\ input[r].target \in {"observe", "event"}

Loads(i) == i.method \in {"PUT", "POST"} /\ i.content \in Value

(* An observation of a CoapServer begins.                                  *)
Begins(r) ==
    /\ At(r, "reading") /\ ticking' = ticking \cup {r}
    /\ UNCHANGED <<answer, got, since, served, thingVars>>

(* What one step of a handler comes to, and what is known of the request   *)
(* when it does.                                                           *)
Does(r) ==
    \/ \E code \in Code : Reply(r, code)
    \/ Wait(r, "lost")
    \/ /\ Wait(r, "checking") /\ setup.binding = "http" /\ setup.security = "OAuth"
       /\ r \in known'
       /\ input'[r].method \in {"PUT", "POST"} => Loads(input'[r])
       /\ r \notin served
    \/ Wait(r, "loading") /\ Admitted(r)' /\ Loads(input'[r]) /\ r \notin served
    \/ Call(r) /\ Admitted(r)' /\ ~Subscribes(r)'
    \/ Admitted(r)' /\ ~Subscribes(r)' /\ \E v \in Value : ReplyValue(r, v)
    \/ Admitted(r)' /\ input'[r].method = "PUT" /\ \E v \in Value : Written(r, v)
    \/ /\ ObserveProperty(r) /\ Subscribed(r, "open", changes) /\ Admitted(r)'
       /\ setup.binding = "http" /\ input'[r].target = "observe"
    \/ /\ SubscribeEvent(r) /\ Subscribed(r, "open", events) /\ Admitted(r)'
       /\ setup.binding \in {"http", "coap"} /\ input'[r].target # "observe"
    \/ /\ Begins(r) /\ Admitted(r)'
       /\ setup.binding = "coap" /\ input'[r].target = "observe"

-----------------------------------------------------------------------------
(* Types, in two parts: what handlers change through Does, and the rest.   *)

Inner ==
    /\ ThingTypeOK
    /\ stage \in [Request -> Stage]
    /\ answer \in [Request -> Code \cup {"none"}]
    /\ got \in [Request -> Seq(Value \ {Bad})]
    /\ since \in [Request -> Nat]
    /\ served \subseteq Request /\ ticking \subseteq Request
    /\ \A r \in Request : answer[r] # "none" => stage[r] = "done"

Outer ==
    /\ setup \in Configured /\ registered \in BOOLEAN
    /\ DOMAIN input = Request /\ \A r \in Request : input[r] \in Input[r] \cup {NoInput}
    /\ known \subseteq Request
    /\ token \in [Request -> Introspection \cup {"unseen"}]

LEMMA TypeParts == TypeOK /\ DOMAIN input = Request <=> Inner /\ Outer
BY DEF TypeOK, Inner, Outer

LEMMA ConfiguredType ==
    ASSUME Outer
    PROVE  /\ setup.binding \in {"http", "coap", "fujitsu", "mqtt", "oracle"}
           /\ setup.readOnly \in BOOLEAN
           /\ setup.read \in {"none", "promise"}
           /\ setup.write \in {"none", "value", "promise"}
<1>1. PICK s \in Setup : setup = [s EXCEPT !.security = HttpSecurityScheme(@)]
  BY DEF Outer, Configured
<1>2. s \in [binding : {"http", "coap", "fujitsu", "mqtt", "oracle"},
             security : {"none", "nosec", "basic", "digest", "oauth2", "bearer"},
             readOnly : BOOLEAN, variables : BOOLEAN, read : {"none", "promise"},
             write : {"none", "value", "promise"}]
  BY SetupAssumption
<1>3. QED
  BY <1>1, <1>2

LEMMA InputType ==
    ASSUME NEW r \in Request, NEW i \in Input[r]
    PROVE  /\ i.method \in {"GET", "PUT", "POST", "DELETE", "OPTIONS"}
           /\ i.target \in {"undecodable", "list", "thing", "all", "property", "observe",
                            "action", "event", "eventRead", "eventCancel", "other"}
           /\ i.content \in Value \cup {Unsupported}
<1>1. i \in [method : {"GET", "PUT", "POST", "DELETE", "OPTIONS"},
             target : {"undecodable", "list", "thing", "all", "property", "observe",
                       "action", "event", "eventRead", "eventCancel", "other"},
             query : {"none", "malformed"},
             content : Value \cup {Unsupported},
             auth : {"none", "wrong", "right"}]
  BY InputAssumption
<1>2. QED
  BY <1>1

LEMMA LeftBehindType ==
    ASSUME NEW S, NEW listeners \in Seq(S), NEW throws
    PROVE  LeftBehind(listeners, throws) \in Seq(S)
BY DEF LeftBehind

(* The value is stored and whoever listens is told.                        *)
LEMMA WrittenTypes ==
    ASSUME Inner, NEW r \in Request, NEW v \in Value, Written(r, v)
    PROVE  Inner'
<1> DEFINE told == IF Notifies(v) THEN Told(observers, v) ELSE {}
<1>1. ThingTypeOK'
  <2>1. /\ value' = v /\ changes' = IF Notifies(v) THEN Append(changes, v) ELSE changes
        /\ UNCHANGED <<events, subscribers, completed>>
        /\ \E throws : observers' = LeftBehind(observers, throws)
    BY DEF Written, Store, eventVars
  <2>2. observers' \in Seq(Listener)
    BY <2>1, LeftBehindType DEF Inner, ThingTypeOK
  <2>3. changes' \in Seq(Value)
    BY <2>1 DEF Inner, ThingTypeOK
  <2>4. QED
    BY <2>1, <2>2, <2>3 DEF Inner, ThingTypeOK
<1>2. got' \in [Request -> Seq(Value \ {Bad})]
  <2>1. \A q \in Request : got[q] \in Seq(Value \ {Bad})
    BY DEF Inner
  <2>2. got' = [q \in Request |-> IF q \in told /\ v # Bad THEN Append(got[q], v) ELSE got[q]]
    BY DEF Written, Deliver
  <2> HIDE DEF told
  <2>3. QED
    BY <2>1, <2>2
<1>3. answer' \in [Request -> Code \cup {"none"}]
        /\ \A q \in Request : answer'[q] = answer[q] \/ answer'[q] # "none" \/ q \in told
  <2>1. \A q \in Request : answer[q] \in Code \cup {"none"} /\ AnswerTo(told, q, v) \in Code \cup {"none"}
    BY DEF Inner, AnswerTo, Code
  <2>2. \E f : answer' = [q \in Request |-> IF q # r THEN AnswerTo(told, q, v) ELSE f]
                 /\ f \in Code
    BY DEF Written, Code
  <2>3. QED
    BY <2>1, <2>2 DEF AnswerTo, Code
<1>4. stage' = [q \in Request |-> IF answer'[q] # answer[q] THEN "done" ELSE stage[q]]
  BY DEF Written, Finish
<1>5. stage' \in [Request -> Stage]
  BY <1>4 DEF Inner, Stage
<1>6. UNCHANGED <<since, ticking>> /\ served' = served \cup {r}
  BY DEF Written
<1>7. \A q \in Request : answer'[q] # "none" => stage'[q] = "done"
  BY <1>4 DEF Inner
<1>8. QED
  BY <1>1, <1>2, <1>3, <1>5, <1>6, <1>7 DEF Inner

LEMMA DoesTypes ==
    ASSUME Inner, NEW r \in Request, answer[r] = "none", Does(r)
    PROVE  Inner'
<1>1. ASSUME NEW code \in Code, Reply(r, code) PROVE Inner'
  BY <1>1 DEF Reply, At, Inner, ThingTypeOK, Stage, thingVars, propertyVars, eventVars
<1>2. ASSUME NEW s \in Stage \ {"done"}, Wait(r, s) PROVE Inner'
  BY <1>2 DEF Wait, At, Inner, ThingTypeOK, thingVars, propertyVars, eventVars
<1>3. CASE Call(r)
  BY <1>3 DEF Call, At, Inner, ThingTypeOK, Stage, thingVars, propertyVars, eventVars
<1>4. ASSUME NEW v \in Value, ReplyValue(r, v) PROVE Inner'
  <2>1. got' \in [Request -> Seq(Value \ {Bad})]
    BY <1>4 DEF ReplyValue, Inner
  <2>2. answer' \in [Request -> Code \cup {"none"}] /\ stage' \in [Request -> Stage]
    BY <1>4 DEF ReplyValue, Inner, At, Stage, Code
  <2>3. \A q \in Request : answer'[q] # "none" => stage'[q] = "done"
    BY <1>4 DEF ReplyValue, Inner, At
  <2>4. ThingTypeOK' /\ UNCHANGED <<since, ticking>> /\ served' = served \cup {r}
    BY <1>4 DEF ReplyValue, Inner, ThingTypeOK, thingVars, propertyVars, eventVars
  <2>5. QED
    BY <2>1, <2>2, <2>3, <2>4 DEF Inner
<1>5. ASSUME NEW log \in {changes, events}, Subscribed(r, "open", log), ThingTypeOK'
      PROVE  Inner'
  <2>1. Len(log) \in Nat
    BY <1>5 DEF Inner, ThingTypeOK
  <2>2. QED
    BY <1>5, <2>1 DEF Subscribed, At, Inner, Stage
<1>6. CASE ObserveProperty(r) /\ Subscribed(r, "open", changes)
  <2>1. ThingTypeOK'
    BY <1>6, RequestAssumption DEF ObserveProperty, Inner, ThingTypeOK, eventVars
  <2>2. QED
    BY <1>5, <1>6, <2>1
<1>7. CASE SubscribeEvent(r) /\ Subscribed(r, "open", events)
  <2>1. ThingTypeOK'
    BY <1>7, RequestAssumption DEF SubscribeEvent, Inner, ThingTypeOK, propertyVars
  <2>2. QED
    BY <1>5, <1>7, <2>1
<1>8. CASE Begins(r)
  BY <1>8 DEF Begins, At, Inner, ThingTypeOK, Stage, thingVars, propertyVars, eventVars
<1>9. QED
  BY <1>1, <1>2, <1>3, <1>4, <1>6, <1>7, <1>8, WrittenTypes DEF Does, Stage

-----------------------------------------------------------------------------
(* Where a request stands                                                  *)

(* What holds of a request in each stage: after its credentials have been  *)
(* awaited its input is still the one that was let through.                *)
Placed(r) ==
    /\ stage[r] # "unsent" => input[r] \in Input[r]
    /\ stage[r] \in {"unsent", "checking", "loading"} => r \notin served
    /\ stage[r] = "checking" =>
         /\ r \in known /\ setup.binding = "http" /\ setup.security = "OAuth"
         /\ input[r].method \in {"PUT", "POST"} => Loads(input[r])
    /\ stage[r] \in {"loading", "called", "open", "reading"} => Admitted(r)
    /\ stage[r] = "loading" => Loads(input[r])
    /\ stage[r] = "called" => ~Subscribes(r)
    /\ stage[r] = "reading" => setup.binding = "coap"
    /\ r \in served => Admitted(r)
    /\ r \in ticking => stage[r] = "reading" \/ (stage[r] = "done" /\ got[r] = <<>>)

(* What a handler finds and leaves alone.                                  *)
Frame(r) ==
    /\ UNCHANGED setup
    /\ \A q \in Request \ {r} :
         input'[q] = input[q] /\ token'[q] = token[q] /\ (q \in known' <=> q \in known)
    /\ input'[r] \in Input[r]
    /\ stage[r] \in {"unsent", "checking", "loading", "called"}
    /\ r \in served => Admitted(r)'

LEMMA ReadDoes ==
    ASSUME Inner, NEW r \in Request, Read(r), Admitted(r)', ~Subscribes(r)'
    PROVE  Does(r)
<1>1. value \in Value
  BY DEF Inner, ThingTypeOK
<1>2. QED
  BY <1>1 DEF Read, Does

LEMMA WriteDoes ==
    ASSUME NEW r \in Request, NEW i, Write(r, i), Admitted(r)', input'[r] = i,
           i.method = "PUT", i.content \in Value
    PROVE  Does(r)
<1>1. CASE Reply(r, "badRequest")
  BY <1>1 DEF Does, Code
<1>2. CASE Call(r)
  BY <1>2 DEF Does, Subscribes
<1>3. CASE \E v \in StoredBy(setup.write, i.content) : Written(r, v)
  BY <1>3 DEF Does, StoredBy
<1>4. QED
  BY <1>1, <1>2, <1>3 DEF Write

LEMMA InvokeDoes ==
    ASSUME NEW r \in Request, NEW i, Invoke(r, i), Admitted(r)', input'[r] = i,
           i.method = "POST"
    PROVE  Does(r)
<1>1. CASE Reply(r, "badRequest")
  BY <1>1 DEF Does, Code
<1>2. CASE Call(r)
  BY <1>2 DEF Does, Subscribes
<1>3. QED
  BY <1>1, <1>2 DEF Invoke

LEMMA HttpServeDoes ==
    ASSUME Inner, NEW r \in Request, NEW i \in Input[r], HttpServe(r, i), Admitted(r)',
           input'[r] = i, setup.binding = "http", i.method \in {"PUT", "POST"} => Loads(i),
           r \notin served
    PROVE  Does(r)
<1>1. /\ RespondUnallowedMethod(i) \in Code
      /\ "notFound" \in Code /\ "badRequest" \in Code
  BY DEF RespondUnallowedMethod, Code
<1>2. CASE \E code \in Code : Reply(r, code)
  BY <1>2 DEF Does
<1>3. CASE i.target \in {"all", "property"} /\ Read(r)
  BY <1>3, ReadDoes DEF Subscribes
<1>4. CASE i.target = "observe" /\ ObserveProperty(r) /\ Subscribed(r, "open", changes)
  BY <1>4 DEF Does
<1>5. CASE i.method \in {"PUT", "POST"} /\ Wait(r, "loading")
  BY <1>5 DEF Does
<1>6. CASE i.target # "observe" /\ SubscribeEvent(r) /\ Subscribed(r, "open", events)
  BY <1>6 DEF Does
<1>7. CASE Wait(r, "lost")
  BY <1>7 DEF Does
<1>8. CASE HttpParsed(r, i) /\ i.target \in {"property", "observe"}
  BY <1>1, <1>2, <1>3, <1>4, <1>5, <1>8 DEF HttpParsed
<1>9. QED
  BY <1>1, <1>2, <1>3, <1>5, <1>6, <1>7, <1>8
     DEF HttpServe, HttpProperty, HttpAction, HttpEvent, ReadAll

LEMMA HttpDoes ==
    ASSUME Inner, Outer, NEW r \in Request, NEW i \in Input[r], HttpRequest(r, i), Frame(r),
           input'[r] = i, setup.binding = "http", registered => r \in known', r \notin served
    PROVE  Does(r)
<1>1. HttpRoute(i) \in Code \cup {"none"} /\ "unauthorized" \in Code
  BY DEF HttpRoute, GetOnly, RespondUnallowedMethod, Code
<1>2. CASE \E code \in Code : Reply(r, code)
  BY <1>2 DEF Does
<1>3. CASE HttpRoute(i) = "none"
  <2>1. registered /\ (i.method \in {"PUT", "POST"} => Loads(i))
    BY <1>3, InputType DEF HttpRoute, GetOnly, RespondUnallowedMethod, Loads
  <2>2. CASE Wait(r, "checking") /\ setup.security = "OAuth"
    BY <2>1, <2>2 DEF Does
  <2>3. CASE CheckCredentials(i.auth) /\ HttpServe(r, i)
    <3>1. Admitted(r)'
      BY <2>1, <2>3 DEF Admitted, CheckCredentials, Frame
    <3>2. QED
      BY <2>1, <2>3, <3>1, HttpServeDoes
  <2>4. QED
    BY <1>1, <1>2, <1>3, <2>2, <2>3 DEF HttpRequest
<1>4. QED
  BY <1>1, <1>2, <1>3 DEF HttpRequest

LEMMA CoapDoes ==
    ASSUME Inner, Outer, NEW r \in Request, NEW i \in Input[r], CoapRequest(r, i), Frame(r),
           input'[r] = i, setup.binding = "coap", registered => r \in known'
    PROVE  Does(r)
<1>1. CoapRoute(i) \in Code \cup {"none"}
  BY DEF CoapRoute, CoapGetOnly, Code
<1>2. CASE \E code \in Code : Reply(r, code)
  BY <1>2 DEF Does
<1>3. CASE Wait(r, "lost")
  BY <1>3 DEF Does
<1>4. CASE CoapRoute(i) = "none" /\ ~CoapUndecodable(i)
  <2>1. registered /\ (i.method \in {"PUT", "POST"} => Loads(i))
    BY <1>4, InputType DEF CoapRoute, CoapGetOnly, CoapUndecodable, Loads
  <2>2. Admitted(r)'
    BY <2>1 DEF Admitted, Frame
  <2>3. CASE CoapProperty(r, i) /\ i.target \in {"property", "observe"}
    <3>1. CASE i.target = "property" /\ Read(r)
      BY <2>2, <3>1, ReadDoes DEF Subscribes
    <3>2. CASE i.target = "observe" /\ Begins(r)
      BY <2>2, <3>2 DEF Does
    <3>3. CASE i.method = "PUT" /\ Write(r, i)
      BY <2>1, <2>2, <3>3, WriteDoes DEF Loads
    <3>4. QED
      BY <1>2, <2>3, <3>1, <3>2, <3>3 DEF CoapProperty, Begins, Code
  <2>4. CASE CoapAction(r, i)
    BY <1>2, <2>2, <2>4, InvokeDoes DEF CoapAction, Code
  <2>5. CASE CoapEvent(r, i) /\ i.target \in {"event", "eventRead", "eventCancel"}
    <3>1. CASE SubscribeEvent(r) /\ Subscribed(r, "open", events)
      BY <2>2, <2>5, <3>1 DEF Does
    <3>2. QED
      BY <1>2, <2>5, <3>1 DEF CoapEvent, Code
  <2>6. QED
    BY <1>2, <1>4, <2>3, <2>4, <2>5 DEF CoapRequest, Code
<1>5. QED
  BY <1>1, <1>2, <1>3, <1>4 DEF CoapRequest

LEMMA FujitsuDoes ==
    ASSUME Inner, NEW r \in Request, NEW i \in Input[r], FujitsuRequest(r, i), Frame(r),
           input'[r] = i, setup.binding = "fujitsu", registered => r \in known'
    PROVE  Does(r)
<1>1. CASE Reply(r, "notFound") \/ Reply(r, "notAllowed")
  BY <1>1 DEF Does, Code
<1>2. CASE Wait(r, "lost")
  BY <1>2 DEF Does
<1>3. registered => Admitted(r)'
  BY DEF Admitted, Frame
<1>4. CASE registered /\ i.target = "property" /\ Read(r)
  BY <1>3, <1>4, ReadDoes DEF Subscribes
<1>5. CASE registered /\ i.method = "POST" /\ Call(r)
  BY <1>3, <1>5 DEF Does, Subscribes
<1>6. QED
  BY <1>1, <1>2, <1>4, <1>5 DEF FujitsuRequest, FujitsuRead

LEMMA MqttDoes ==
    ASSUME NEW r \in Request, NEW i, MqttMessage(r, i)
    PROVE  Does(r)
<1>1. MqttTopic(i) = <<"thing", "actions", "action">>
        \/ MqttTopic(i) = <<"thing", "properties", "property", "writeproperty">>
  BY DEF MqttTopic
<1>2. \A topic : topic = <<"thing", "actions", "action">> => Len(topic) = 3
  OBVIOUS
<1>3. \A topic : topic = <<"thing", "properties", "property", "writeproperty">> =>
        Len(topic) = 4 /\ topic[2] = "properties"
  OBVIOUS
<1>4. ~IsInvocation(MqttTopic(i)) /\ ~IsWrite(MqttTopic(i))
  BY <1>1, <1>2, <1>3 DEF IsInvocation, IsWrite
<1>5. QED
  BY <1>4 DEF MqttMessage, Does

LEMMA ReceiveDoes ==
    ASSUME Inner, Outer, NEW r \in Request, Placed(r), Receive(r)
    PROVE  Does(r) /\ Frame(r) /\ Outer'
<1>1. PICK i \in Input[r] :
        /\ input' = [input EXCEPT ![r] = i]
        /\ CASE setup.binding = "http" -> HttpRequest(r, i)
             [] setup.binding = "coap" -> CoapRequest(r, i)
             [] setup.binding = "fujitsu" -> FujitsuRequest(r, i)
             [] setup.binding = "mqtt" -> MqttMessage(r, i)
             [] setup.binding = "oracle" -> OracleCall(r, i)
  BY DEF Receive
<1>2. /\ stage[r] = "unsent" /\ UNCHANGED <<setup, registered, token>>
      /\ known' = IF registered THEN known \cup {r} ELSE known
  BY DEF Receive
<1>3. input'[r] = i /\ DOMAIN input' = Request /\ \A q \in Request \ {r} : input'[q] = input[q]
  BY <1>1 DEF Outer
<1>4. Frame(r)
  BY <1>2, <1>3 DEF Frame, Placed
<1>5. Outer'
  <2>1. \A q \in Request : input'[q] \in Input[q] \cup {NoInput}
    BY <1>3 DEF Outer
  <2>2. QED
    BY <1>2, <1>3, <2>1 DEF Outer
<1>6. (registered => r \in known') /\ r \notin served
  BY <1>2 DEF Placed
<1>7. CASE setup.binding = "http"
  <2>1. HttpRequest(r, i)
    BY <1>1, <1>7
  <2>2. QED
    BY <1>3, <1>4, <1>5, <1>6, <1>7, <2>1, HttpDoes
<1>8. CASE setup.binding = "coap"
  <2>1. CoapRequest(r, i)
    BY <1>1, <1>8
  <2>2. QED
    BY <1>3, <1>4, <1>5, <1>6, <1>8, <2>1, CoapDoes
<1>9. CASE setup.binding = "fujitsu"
  <2>1. FujitsuRequest(r, i)
    BY <1>1, <1>9
  <2>2. QED
    BY <1>3, <1>4, <1>5, <1>6, <1>9, <2>1, FujitsuDoes
<1>10. CASE setup.binding = "mqtt"
  BY <1>1, <1>4, <1>5, <1>10, MqttDoes
<1>11. CASE setup.binding = "oracle"
  BY <1>1, <1>4, <1>5, <1>11 DEF OracleCall, Does
<1>12. QED
  BY <1>4, <1>5, <1>7, <1>8, <1>9, <1>10, <1>11, ConfiguredType

LEMMA CheckedDoes ==
    ASSUME Inner, Outer, NEW r \in Request, Placed(r), Checked(r)
    PROVE  Does(r) /\ Frame(r) /\ Outer'
<1>1. /\ stage[r] = "checking" /\ input[r] \in Input[r]
      /\ UNCHANGED <<setup, registered, input, known>>
      /\ r \in known /\ setup.binding = "http" /\ setup.security = "OAuth"
      /\ input[r].method \in {"PUT", "POST"} => Loads(input[r])
      /\ r \notin served
  BY DEF Checked, Placed
<1>2. PICK answered \in Validate(input[r].auth) :
        /\ token' = [token EXCEPT ![r] = answered]
        /\ IF answered = "active" THEN HttpServe(r, input[r]) ELSE Reply(r, "unauthorized")
  BY DEF Checked
<1>3. answered \in Introspection
  BY DEF Validate, Introspection
<1>4. /\ token' \in [Request -> Introspection \cup {"unseen"}] /\ token'[r] = answered
      /\ \A q \in Request \ {r} : token'[q] = token[q]
  BY <1>2, <1>3 DEF Outer
<1>5. Frame(r) /\ Outer'
  BY <1>1, <1>4 DEF Frame, Outer
<1>6. CASE answered = "active"
  <2>1. Admitted(r)'
    BY <1>1, <1>4, <1>6 DEF Admitted
  <2>2. HttpServe(r, input[r])
    BY <1>2, <1>6
  <2>3. Does(r)
    BY <1>1, <2>1, <2>2, HttpServeDoes
  <2>4. QED
    BY <1>5, <2>3
<1>7. CASE answered # "active"
  <2>1. Reply(r, "unauthorized") /\ "unauthorized" \in Code
    BY <1>2, <1>7 DEF Code
  <2>2. QED
    BY <1>5, <2>1 DEF Does
<1>8. QED
  BY <1>6, <1>7

LEMMA LoadedDoes ==
    ASSUME Inner, Outer, NEW r \in Request, Placed(r), Loaded(r)
    PROVE  Does(r) /\ Frame(r) /\ Outer'
<1>1. /\ stage[r] = "loading" /\ input[r] \in Input[r] /\ r \notin served
      /\ UNCHANGED <<setup, registered, input, known, token>>
      /\ Admitted(r) /\ Loads(input[r])
  BY DEF Loaded, Placed
<1>2. Frame(r) /\ Outer' /\ Admitted(r)'
  BY <1>1 DEF Frame, Outer, Admitted
<1>3. CASE input[r].method = "PUT"
  BY <1>1, <1>2, <1>3, WriteDoes DEF Loaded, Loads
<1>4. CASE input[r].method = "POST"
  <2>1. CASE Invoke(r, input[r])
    BY <1>1, <1>2, <1>4, <2>1, InvokeDoes
  <2>2. CASE Wait(r, "lost")
    BY <1>2, <2>2 DEF Does
  <2>3. QED
    BY <1>1, <1>4, <2>1, <2>2 DEF Loaded, HttpInvoke
<1>5. QED
  BY <1>1, <1>3, <1>4 DEF Loads

LEMMA SettlesDoes ==
    ASSUME Inner, Outer, NEW r \in Request, Placed(r), Settles(r)
    PROVE  Does(r) /\ Frame(r) /\ Outer'
<1>1. /\ stage[r] = "called" /\ UNCHANGED <<setup, registered, input, known, token>>
      /\ Admitted(r) /\ ~Subscribes(r) /\ input[r] \in Input[r]
  BY DEF Settles, ReadSettles, WriteSettles, ActionSettles, Placed
<1>2. Frame(r) /\ Outer' /\ Admitted(r)' /\ ~Subscribes(r)'
  BY <1>1 DEF Frame, Outer, Admitted, Subscribes
<1>3. CASE Rejected(r)
  BY <1>2, <1>3 DEF Rejected, Does, Code
<1>4. CASE Reply(r, "ok")
  BY <1>2, <1>4 DEF Does, Code
<1>5. ASSUME NEW v \in Value, ReplyValue(r, v) PROVE Does(r) /\ Frame(r) /\ Outer'
  BY <1>2, <1>5 DEF Does
<1>6. ASSUME NEW v \in Value, Written(r, v), input[r].method = "PUT"
      PROVE  Does(r) /\ Frame(r) /\ Outer'
  BY <1>1, <1>2, <1>6 DEF Does
<1>7. QED
  BY <1>3, <1>4, <1>5, <1>6 DEF Settles, ReadSettles, WriteSettles, ActionSettles

(* The four steps in which the handler of a request goes on.               *)
Goes(r) == Receive(r) \/ Checked(r) \/ Loaded(r) \/ Settles(r)

LEMMA GoesDoes ==
    ASSUME Inner, Outer, NEW r \in Request, Placed(r), Goes(r)
    PROVE  Does(r) /\ Frame(r) /\ Outer'
BY ReceiveDoes, CheckedDoes, LoadedDoes, SettlesDoes DEF Goes

(* Of the other requests, only those that listen are told, and done.       *)
LEMMA Others ==
    ASSUME Inner, NEW r \in Request, Does(r), NEW q \in Request, q # r
    PROVE  /\ \/ stage'[q] = stage[q] /\ got'[q] = got[q]
              \/ stage[q] = "open" /\ stage'[q] \in {"open", "done"}
           /\ q \in served' <=> q \in served
           /\ q \in ticking' <=> q \in ticking
<1>1. ASSUME NEW v \in Value, Written(r, v)
      PROVE  /\ \/ stage'[q] = stage[q] /\ got'[q] = got[q]
                \/ stage[q] = "open" /\ stage'[q] \in {"open", "done"}
             /\ q \in served' <=> q \in served
             /\ q \in ticking' <=> q \in ticking
  <2> DEFINE told == IF Notifies(v) THEN Told(observers, v) ELSE {}
  <2>1. /\ answer'[q] = AnswerTo(told, q, v)
        /\ got'[q] = IF q \in told /\ v # Bad THEN Append(got[q], v) ELSE got[q]
        /\ stage'[q] = IF answer'[q] # answer[q] THEN "done" ELSE stage[q]
        /\ served' = served \cup {r} /\ ticking' = ticking
    BY <1>1 DEF Written, Deliver, Finish
  <2>2. q \in told => stage[q] = "open"
    BY DEF Told
  <2>3. q \notin told => answer'[q] = answer[q]
    BY <2>1 DEF AnswerTo
  <2> HIDE DEF told
  <2>4. QED
    BY <2>1, <2>2, <2>3
<1>2. CASE \/ \E code \in Code : Reply(r, code)
           \/ \E s \in Stage : Wait(r, s)
           \/ Call(r)
           \/ \E v \in Value : ReplyValue(r, v)
           \/ \E log \in {changes, events} : Subscribed(r, "open", log)
           \/ Begins(r)
  BY <1>2 DEF Reply, Wait, Call, ReplyValue, Subscribed, Begins, At, Inner
<1>3. QED
  BY <1>1, <1>2 DEF Does, Stage

LEMMA SamePlace ==
    ASSUME NEW q \in Request, Placed(q), UNCHANGED setup,
           input'[q] = input[q], token'[q] = token[q], q \in known' <=> q \in known,
           \/ stage'[q] = stage[q] /\ got'[q] = got[q]
           \/ stage[q] = "open" /\ stage'[q] \in {"open", "done"},
           q \in served' <=> q \in served, q \in ticking' <=> q \in ticking
    PROVE  Placed(q)'
<1>1. /\ Admitted(q)' <=> Admitted(q)
      /\ Subscribes(q)' <=> Subscribes(q)
      /\ Loads(input'[q]) <=> Loads(input[q])
  BY DEF Admitted, Subscribes, Loads
<1>2. QED
  BY <1>1 DEF Placed

LEMMA GoesPlaced ==
    ASSUME Inner, Outer, NEW r \in Request, Placed(r), Does(r), Frame(r)
    PROVE  Placed(r)'
<1> USE DEF Frame, Placed
<1>1. /\ stage[r] \in {"unsent", "checking", "loading", "called"} /\ r \notin ticking
      /\ input'[r] \in Input[r] /\ UNCHANGED setup
      /\ r \in served => Admitted(r)'
  OBVIOUS
<1>2. ASSUME NEW code \in Code, Reply(r, code) PROVE Placed(r)'
  <2>1. stage'[r] = "done" /\ served' = served /\ ticking' = ticking
    BY <1>2 DEF Reply, At, Inner
  <2>2. QED
    BY <1>1, <2>1
<1>3. CASE Wait(r, "lost")
  <2>1. stage'[r] = "lost" /\ served' = served /\ ticking' = ticking
    BY <1>3 DEF Wait, At, Inner
  <2>2. QED
    BY <1>1, <2>1
<1>4. ASSUME NEW v \in Value, Written(r, v), Admitted(r)' PROVE Placed(r)'
  <2>1. answer[r] = "none"
    BY <1>1 DEF Inner
  <2>2. answer'[r] \in {"ok", "error"}
    BY <1>4 DEF Written
  <2>3. stage'[r] = "done" /\ served' = served \cup {r} /\ ticking' = ticking
    BY <1>4, <2>1, <2>2 DEF Written, Finish
  <2>4. QED
    BY <1>1, <1>4, <2>3
<1>5. ASSUME NEW v \in Value, ReplyValue(r, v), Admitted(r)' PROVE Placed(r)'
  <2>1. stage'[r] = "done" /\ served' = served \cup {r} /\ ticking' = ticking
    BY <1>5 DEF ReplyValue, At, Inner
  <2>2. QED
    BY <1>1, <1>5, <2>1
<1>6. CASE Call(r) /\ Admitted(r)' /\ ~Subscribes(r)'
  <2>1. stage'[r] = "called" /\ served' = served \cup {r} /\ ticking' = ticking
    BY <1>6 DEF Call, At, Inner
  <2>2. QED
    BY <1>1, <1>6, <2>1
<1>7. ASSUME NEW log, Subscribed(r, "open", log), Admitted(r)' PROVE Placed(r)'
  <2>1. stage'[r] = "open" /\ served' = served \cup {r} /\ ticking' = ticking
    BY <1>7 DEF Subscribed, At, Inner
  <2>2. QED
    BY <1>1, <1>7, <2>1
<1>8. CASE Begins(r) /\ Admitted(r)' /\ setup.binding = "coap"
  <2>1. stage'[r] = "reading" /\ served' = served
    BY <1>8 DEF Begins, At, Inner
  <2>2. QED
    BY <1>1, <1>8, <2>1
<1>9. CASE /\ Wait(r, "checking") /\ setup.binding = "http" /\ setup.security = "OAuth"
           /\ r \in known'
           /\ input'[r].method \in {"PUT", "POST"} => Loads(input'[r])
           /\ r \notin served
  <2>1. stage'[r] = "checking" /\ served' = served /\ ticking' = ticking
    BY <1>9 DEF Wait, At, Inner
  <2>2. QED
    BY <1>1, <1>9, <2>1
<1>10. CASE Wait(r, "loading") /\ Admitted(r)' /\ Loads(input'[r]) /\ r \notin served
  <2>1. stage'[r] = "loading" /\ served' = served /\ ticking' = ticking
    BY <1>10 DEF Wait, At, Inner
  <2>2. QED
    BY <1>1, <1>10, <2>1
<1>11. QED
  BY <1>2, <1>3, <1>4, <1>5, <1>6, <1>7, <1>8, <1>9, <1>10 DEF Does

-----------------------------------------------------------------------------
(* The other steps                                                         *)

Fixed == UNCHANGED <<setup, registered, input, known, token>>

LEMMA FixedPlaced ==
    ASSUME Fixed, NEW q \in Request, Placed(q),
           \/ stage'[q] = stage[q] /\ got'[q] = got[q]
           \/ stage[q] = "open" /\ stage'[q] \in {"open", "done"},
           q \in served' <=> q \in served, q \in ticking' <=> q \in ticking
    PROVE  Placed(q)'
BY SamePlace DEF Fixed

LEMMA TickStep ==
    ASSUME Inner, Outer, \A q \in Request : Placed(q), NEW r \in Request, Tick(r)
    PROVE  Inner' /\ Outer' /\ \A q \in Request : Placed(q)'
<1>1. /\ stage[r] = "reading" /\ served' = served \cup {r} /\ Fixed
      /\ UNCHANGED <<thingVars, since>>
  BY DEF Tick, Fixed
<1>2. PICK v \in Value :
        IF v = Bad
        THEN /\ At(r, "done") /\ answer' = [answer EXCEPT ![r] = "error"]
             /\ Finished(r) /\ UNCHANGED got
        ELSE /\ got' = [got EXCEPT ![r] = Append(@, v)]
             /\ UNCHANGED <<stage, answer, ticking>>
  <2>1. value \in Value
    BY DEF Inner, ThingTypeOK
  <2>2. QED
    BY <2>1 DEF Tick
<1>3. Outer'
  BY <1>1 DEF Fixed, Outer
<1>4. Admitted(r)' /\ input'[r] \in Input[r] /\ setup'.binding = "coap"
  <2>1. Admitted(r) /\ input[r] \in Input[r] /\ setup.binding = "coap"
    BY <1>1 DEF Placed
  <2>2. QED
    BY <1>1, <2>1 DEF Admitted, Fixed
<1>5. ThingTypeOK'
  BY <1>1 DEF Inner, ThingTypeOK, thingVars, propertyVars, eventVars
<1>6. CASE v = Bad
  <2>1. /\ stage' = [stage EXCEPT ![r] = "done"] /\ got' = got
        /\ answer' = [answer EXCEPT ![r] = "error"]
        /\ ticking' = IF got[r] # <<>> THEN ticking \ {r} ELSE ticking
    BY <1>2, <1>6 DEF At, Finished
  <2>2. Inner'
    BY <1>1, <1>5, <2>1 DEF Inner, Stage, Code
  <2>3. stage'[r] = "done" /\ \A q \in Request \ {r} : stage'[q] = stage[q]
    BY <2>1 DEF Inner
  <2>4. Placed(r)'
    BY <1>4, <2>1, <2>3 DEF Placed
  <2>5. ASSUME NEW q \in Request \ {r} PROVE Placed(q)'
    BY <1>1, <2>1, <2>3, FixedPlaced
  <2>6. QED
    BY <1>3, <2>2, <2>4, <2>5
<1>7. CASE v # Bad
  <2>1. got' = [got EXCEPT ![r] = Append(@, v)] /\ UNCHANGED <<stage, answer, ticking>>
    BY <1>2, <1>7
  <2>2. got' \in [Request -> Seq(Value \ {Bad})]
    BY <1>7, <2>1 DEF Inner
  <2>3. Inner'
    BY <1>1, <1>5, <2>1, <2>2 DEF Inner
  <2>4. Placed(r)'
    BY <1>1, <1>4, <2>1 DEF Placed
  <2>5. ASSUME NEW q \in Request \ {r} PROVE Placed(q)'
    <3>1. got'[q] = got[q]
      BY <2>1 DEF Inner
    <3>2. QED
      BY <1>1, <2>1, <3>1, FixedPlaced
  <2>6. QED
    BY <1>3, <2>3, <2>4, <2>5
<1>8. QED
  BY <1>6, <1>7

LEMMA ResetStep ==
    ASSUME Inner, Outer, \A q \in Request : Placed(q), NEW r \in Request, Reset(r)
    PROVE  Inner' /\ Outer' /\ \A q \in Request : Placed(q)'
<1>1. /\ stage[r] \in {"open", "reading"} /\ Fixed
      /\ stage' = [stage EXCEPT ![r] = "done"]
      /\ ticking' = IF got[r] # <<>> THEN ticking \ {r} ELSE ticking
      /\ UNCHANGED <<thingVars, answer, got, since, served>>
  BY DEF Reset, Fixed, At, Finished, Unsubscribe
<1>2. Outer'
  BY <1>1 DEF Fixed, Outer
<1>3. ThingTypeOK'
  BY <1>1 DEF Inner, ThingTypeOK, thingVars, propertyVars, eventVars
<1>4. Inner'
  BY <1>1, <1>3 DEF Inner, Stage
<1>5. stage'[r] = "done" /\ \A q \in Request \ {r} : stage'[q] = stage[q]
  BY <1>1 DEF Inner
<1>6. Admitted(r)' /\ input'[r] \in Input[r]
  <2>1. Admitted(r) /\ input[r] \in Input[r]
    BY <1>1 DEF Placed
  <2>2. QED
    BY <1>1, <2>1 DEF Admitted, Fixed
<1>7. Placed(r)'
  BY <1>1, <1>5, <1>6 DEF Placed
<1>8. ASSUME NEW q \in Request \ {r} PROVE Placed(q)'
  BY <1>1, <1>5, FixedPlaced
<1>9. QED
  BY <1>2, <1>4, <1>7, <1>8

LEMMA EmitStep ==
    ASSUME Inner, Outer, \A q \in Request : Placed(q), Emit
    PROVE  Inner' /\ Outer' /\ \A q \in Request : Placed(q)'
<1>1. Fixed /\ UNCHANGED <<propertyVars, completed, since, served, ticking>>
  BY DEF Emit, Fixed, EmitEvent
<1>2. PICK v \in Value :
        /\ events' = IF completed THEN events ELSE Append(events, v)
        /\ subscribers' = LeftBehind(subscribers, Throws(v))
        /\ Deliver(Told(subscribers, v), v)
        /\ answer' = [r \in Request |-> AnswerTo(Told(subscribers, v), r, v)]
        /\ Finish
  BY DEF Emit, EmitEvent
<1> DEFINE told == Told(subscribers, v)
<1>3. ThingTypeOK'
  <2>1. subscribers' \in Seq(Listener)
    BY <1>2, LeftBehindType DEF Inner, ThingTypeOK
  <2>2. events' \in Seq(Value)
    BY <1>2 DEF Inner, ThingTypeOK
  <2>3. QED
    BY <1>1, <2>1, <2>2 DEF Inner, ThingTypeOK, propertyVars
<1>4. \A q \in told : stage[q] = "open"
  BY DEF Told
<1>5. /\ got' = [q \in Request |-> IF q \in told /\ v # Bad THEN Append(got[q], v) ELSE got[q]]
      /\ answer' = [q \in Request |-> AnswerTo(told, q, v)]
      /\ stage' = [q \in Request |-> IF answer'[q] # answer[q] THEN "done" ELSE stage[q]]
  BY <1>2 DEF Deliver, Finish
<1> HIDE DEF told
<1>6. \A q \in Request : q \notin told => answer'[q] = answer[q] /\ got'[q] = got[q]
  BY <1>5 DEF AnswerTo
<1>7. got' \in [Request -> Seq(Value \ {Bad})]
  <2>1. \A q \in Request : got[q] \in Seq(Value \ {Bad})
    BY DEF Inner
  <2>2. QED
    BY <1>5, <2>1
<1>8. answer' \in [Request -> Code \cup {"none"}]
  BY <1>5 DEF AnswerTo, Code, Inner
<1>9. stage' \in [Request -> Stage]
  BY <1>5 DEF Inner, Stage
<1>10. \A q \in Request : answer'[q] # "none" => stage'[q] = "done"
  BY <1>5 DEF Inner
<1>11. Inner' /\ Outer'
  BY <1>1, <1>3, <1>7, <1>8, <1>9, <1>10 DEF Inner, Fixed, Outer
<1>12. ASSUME NEW q \in Request PROVE Placed(q)'
  <2>1. CASE q \in told
    BY <1>1, <1>4, <1>5, <2>1, FixedPlaced
  <2>2. CASE q \notin told
    BY <1>1, <1>5, <1>6, <2>2, FixedPlaced
  <2>3. QED
    BY <2>1, <2>2
<1>13. QED
  BY <1>11, <1>12

LEMMA DestroyStep ==
    ASSUME Inner, Outer, \A q \in Request : Placed(q), Destroy
    PROVE  Inner' /\ Outer' /\ \A q \in Request : Placed(q)'
<1>1. /\ registered' = FALSE
      /\ UNCHANGED <<setup, input, stage, answer, got, since, known, served, token, ticking>>
      /\ UNCHANGED <<value, changes, events>>
      /\ observers' = <<>> /\ subscribers' = <<>> /\ completed' = TRUE
  BY DEF Destroy, CompleteSubjects
<1>2. Inner' /\ Outer'
  <2>1. <<>> \in Seq(Listener)
    BY EmptySeq
  <2>2. ThingTypeOK'
    BY <1>1, <2>1 DEF Inner, ThingTypeOK
  <2>3. QED
    BY <1>1, <2>2 DEF Inner, Outer
<1>3. \A q \in Request : Placed(q)'
  BY <1>1 DEF Placed, Admitted, Subscribes
<1>4. QED
  BY <1>2, <1>3

-----------------------------------------------------------------------------
(* Only due requests                                                       *)

IInv == Inner /\ Outer /\ \A r \in Request : Placed(r)

LEMMA InitIInv == Init => IInv
<1> SUFFICES ASSUME Init PROVE IInv
  OBVIOUS
<1>1. Inner
  <2>1. ThingTypeOK
    <3>1. <<>> \in Seq(Value) /\ <<>> \in Seq(Listener)
      BY EmptySeq
    <3>2. /\ value = Initial /\ completed = FALSE
          /\ changes = <<>> /\ observers = <<>> /\ events = <<>> /\ subscribers = <<>>
      BY DEF Init, ThingInit
    <3>3. QED
      BY <3>1, <3>2, ValueAssumption DEF ThingTypeOK
  <2>2. QED
    BY <2>1 DEF Init, Inner, Stage
<1>2. Outer
  BY DEF Init, Outer
<1>3. \A r \in Request : Placed(r)
  BY DEF Init, Placed
<1>4. QED
  BY <1>1, <1>2, <1>3 DEF IInv

LEMMA GoesStep ==
    ASSUME IInv, NEW r \in Request, Goes(r)
    PROVE  IInv' /\ Does(r) /\ Frame(r)
<1>1. Does(r) /\ Frame(r) /\ Outer' /\ Placed(r)
  BY GoesDoes DEF IInv
<1>2. answer[r] = "none"
  BY <1>1 DEF IInv, Inner, Frame
<1>3. Inner'
  BY <1>1, <1>2, DoesTypes DEF IInv
<1>4. Placed(r)'
  BY <1>1, GoesPlaced DEF IInv
<1>5. ASSUME NEW q \in Request \ {r} PROVE Placed(q)'
  <2>1. /\ \/ stage'[q] = stage[q] /\ got'[q] = got[q]
           \/ stage[q] = "open" /\ stage'[q] \in {"open", "done"}
        /\ q \in served' <=> q \in served
        /\ q \in ticking' <=> q \in ticking
    BY <1>1, Others DEF IInv
  <2>2. Placed(q)
    BY DEF IInv
  <2>3. QED
    BY <1>1, <2>1, <2>2, SamePlace DEF Frame
<1>6. QED
  BY <1>1, <1>3, <1>4, <1>5 DEF IInv

LEMMA IInvStep == IInv /\ [Next]_vars => IInv'
<1> SUFFICES ASSUME IInv, [Next]_vars PROVE IInv'
  OBVIOUS
<1>1. ASSUME NEW r \in Request, Goes(r) PROVE IInv'
  BY <1>1, GoesStep
<1>2. ASSUME NEW r \in Request, Tick(r) \/ Reset(r) PROVE IInv'
  BY <1>2, TickStep, ResetStep DEF IInv
<1>3. CASE Emit \/ Destroy
  BY <1>3, EmitStep, DestroyStep DEF IInv
<1>4. CASE UNCHANGED vars
  <2>1. UNCHANGED <<setup, registered, input, stage, answer, got, since, known, served, token, ticking>>
          /\ UNCHANGED <<value, changes, observers, events, subscribers, completed>>
    BY <1>4 DEF vars, requestVars, thingVars, propertyVars, eventVars
  <2>2. Inner' /\ Outer'
    BY <2>1 DEF IInv, Inner, Outer, ThingTypeOK
  <2>3. \A r \in Request : Placed(r)'
    BY <2>1 DEF IInv, Placed, Admitted, Subscribes
  <2>4. QED
    BY <2>2, <2>3 DEF IInv
<1>5. QED
  BY <1>1, <1>2, <1>3, <1>4 DEF Next, Goes

LEMMA IInvInvariant == Spec => []IInv
BY InitIInv, IInvStep, PTL DEF Spec

(* Every variable of the requests and of the thing keeps its type.         *)
THEOREM TypeCorrect == Spec => []TypeOK
<1>1. IInv => TypeOK
  BY TypeParts DEF IInv
<1>2. QED
  BY <1>1, IInvInvariant, PTL

(* handleRequest(): an operation of the thing is called for a request that *)
(* found the thing registered and whose credentials hold, and for no other *)
(* one, whatever is awaited and whatever happens meanwhile.                *)
THEOREM OnlyDue == Spec => []OnlyDueRequestsServed
<1>1. IInv => OnlyDueRequestsServed
  BY DEF IInv, Placed, Admitted, Inner, OnlyDueRequestsServed
<1>2. QED
  BY <1>1, IInvInvariant, PTL

(* CoapServer: an observation that ends after it was read once does not go *)
(* on.                                                                     *)
THEOREM ObservationsStop == Spec => []FinishedObservationsStop
<1>1. IInv => FinishedObservationsStop
  BY DEF IInv, Placed, Inner, FinishedObservationsStop
<1>2. QED
  BY <1>1, IInvInvariant, PTL

-----------------------------------------------------------------------------
(* The value and what is told of it                                        *)

(* Steps change the value by writes only.                                  *)
Writes(v) ==
    /\ value' = v /\ completed' = completed
    /\ changes' = IF Notifies(v) THEN Append(changes, v) ELSE changes

Keeps == UNCHANGED <<value, changes>> /\ (completed => completed')

LEMMA DoesWrites ==
    ASSUME NEW r \in Request, Does(r)
    PROVE  Keeps \/ \E v \in Value : Written(r, v) /\ Writes(v)
<1>1. ASSUME NEW v \in Value, Written(r, v) PROVE Writes(v)
  BY <1>1 DEF Written, Store, Writes
<1>2. CASE \/ \E code \in Code : Reply(r, code)
           \/ \E s \in Stage : Wait(r, s)
           \/ Call(r)
           \/ \E v \in Value : ReplyValue(r, v)
           \/ ObserveProperty(r)
           \/ SubscribeEvent(r)
           \/ Begins(r)
  BY <1>2 DEF Keeps, Reply, Wait, Call, ReplyValue, ObserveProperty, SubscribeEvent, Begins,
              thingVars, propertyVars, eventVars
<1>3. QED
  BY <1>1, <1>2 DEF Does, Stage

LEMMA ValueMoves ==
    ASSUME IInv, [Next]_vars
    PROVE  Keeps \/ \E v \in Value : Writes(v)
<1>1. ASSUME NEW r \in Request, Goes(r) PROVE Keeps \/ \E v \in Value : Writes(v)
  BY <1>1, GoesStep, DoesWrites
<1>2. ASSUME NEW r \in Request, Tick(r) \/ Reset(r) PROVE Keeps
  BY <1>2 DEF Tick, Reset, Unsubscribe, Keeps, thingVars, propertyVars
<1>3. CASE Emit \/ Destroy
  BY <1>3 DEF Emit, EmitEvent, Destroy, CompleteSubjects, Keeps, propertyVars
<1>4. CASE UNCHANGED vars
  BY <1>4 DEF vars, thingVars, propertyVars, Keeps
<1>5. QED
  BY <1>1, <1>2, <1>3, <1>4 DEF Next, Goes

(* A value that is told differs from the one that is stored, which is the  *)
(* last one that was told.                                                 *)
LEMMA ChangesStep == IInv /\ ChangesTrackValue /\ [Next]_vars => ChangesTrackValue'
<1> SUFFICES ASSUME IInv, ChangesTrackValue, [Next]_vars PROVE ChangesTrackValue'
  OBVIOUS
<1>1. changes \in Seq(Value) /\ completed \in BOOLEAN
  BY DEF IInv, Inner, ThingTypeOK
<1>2. CASE Keeps
  BY <1>1, <1>2 DEF Keeps, ChangesTrackValue
<1>3. ASSUME NEW v \in Value, Writes(v), Notifies(v) PROVE ChangesTrackValue'
  <2>1. /\ changes' = Append(changes, v) /\ value' = v
        /\ v # value /\ ~completed
    BY <1>3 DEF Writes, Notifies
  <2>2. /\ Len(changes') = Len(changes) + 1 /\ changes'[Len(changes) + 1] = v
        /\ \A i \in 1 .. Len(changes) : changes'[i] = changes[i]
        /\ Len(changes) \in Nat /\ (Len(changes) > 0 => changes # <<>>)
    BY <1>1, <2>1
  <2>3. \A i \in 1 .. Len(changes') - 1 : changes'[i] # changes'[i + 1]
    <3>1. ASSUME NEW i \in 1 .. Len(changes') - 1 PROVE changes'[i] # changes'[i + 1]
      <4>1. CASE i = Len(changes)
        BY <2>1, <2>2, <4>1 DEF ChangesTrackValue
      <4>2. CASE i < Len(changes)
        BY <2>2, <4>2 DEF ChangesTrackValue
      <4>3. QED
        BY <2>2, <4>1, <4>2
    <3>2. QED
      BY <3>1
  <2>4. QED
    BY <2>1, <2>2, <2>3 DEF ChangesTrackValue
<1>4. ASSUME NEW v \in Value, Writes(v), ~Notifies(v) PROVE ChangesTrackValue'
  BY <1>1, <1>4 DEF Writes, Notifies, ChangesTrackValue
<1>5. QED
  BY <1>2, <1>3, <1>4, ValueMoves

(* writeProperty(): the subject was last called with the value that a read *)
(* returns, and never twice with the same value in a row.                  *)
THEOREM ChangesTrack == Spec => []ChangesTrackValue
<1>1. Init => ChangesTrackValue
  BY DEF Init, ThingInit, ChangesTrackValue
<1>2. QED
  BY <1>1, ChangesStep, IInvInvariant, PTL DEF Spec

(* writeProperty(): a write that is answered with an error has changed     *)
(* nothing, or has set a value that its listeners could not be sent.       *)
THEOREM FailedWrites == Spec => FailedWriteKeepsValue
<1> DEFINE Kept(r) == input[r].method = "PUT" /\ answer[r] = "none" /\ answer'[r] = "error"
                        => value' \in {value, Bad}
<1>1. ASSUME IInv, [Next]_vars, NEW r \in Request PROVE Kept(r)
  <2>1. ASSUME NEW s \in Request, NEW v \in Value, Written(s, v) PROVE Kept(r)
    <3> DEFINE told == IF Notifies(v) THEN Told(observers, v) ELSE {}
               thrown == Notifies(v) /\ Throws(v) /\ observers # <<>>
    <3>1. /\ value' = v
          /\ answer'[r] = IF r # s THEN AnswerTo(told, r, v)
                          ELSE IF thrown THEN "error" ELSE "ok"
      BY <2>1 DEF Written, Store
    <3>2. thrown => v = Bad
      BY DEF Throws
    <3>3. AnswerTo(told, r, v) = "error" => v = Bad \/ answer[r] = "error"
      BY DEF AnswerTo
    <3> HIDE DEF told, thrown
    <3>4. QED
      BY <3>1, <3>2, <3>3
  <2>2. ASSUME Keeps PROVE Kept(r)
    BY <2>2 DEF Keeps
  <2>3. ASSUME NEW s \in Request, Goes(s) PROVE Kept(r)
    BY <1>1, <2>1, <2>2, <2>3, GoesStep, DoesWrites
  <2>4. CASE \E s \in Request : Tick(s) \/ Reset(s)
    BY <2>2, <2>4 DEF Tick, Reset, Unsubscribe, Keeps, thingVars, propertyVars
  <2>5. CASE Emit \/ Destroy
    BY <2>2, <2>5 DEF Emit, EmitEvent, Destroy, CompleteSubjects, Keeps, propertyVars
  <2>6. CASE UNCHANGED vars
    BY <2>2, <2>6 DEF vars, thingVars, propertyVars, Keeps
  <2>7. QED
    BY <1>1, <2>3, <2>4, <2>5, <2>6 DEF Next, Goes
<1>2. IInv /\ [Next]_vars => [\A r \in Request :
          input[r].method = "PUT" /\ answer[r] = "none" /\ answer'[r] = "error"
            => value' \in {value, Bad}]_vars
  BY <1>1
<1>3. QED
  BY <1>2, IInvInvariant, PTL DEF Spec, FailedWriteKeepsValue

-----------------------------------------------------------------------------
(* Who listens to what                                                     *)

Log(r)  == IF input[r].target = "observe" THEN changes ELSE events
Ears(r) == IF input[r].target = "observe" THEN observers ELSE subscribers

ListensIn(ears, r) == \E i \in DOMAIN ears : ears[i] = r
Listens(r) == ListensIn(Ears(r), r)

(* The listeners of a subject are requests that have asked for it.         *)
EarsOwn ==
    /\ \A r \in Request : ListensIn(observers, r) => stage[r] # "unsent" /\ input[r].target = "observe"
    /\ \A r \in Request : ListensIn(subscribers, r) => stage[r] # "unsent" /\ input[r].target # "observe"

(* A request for the notifications of an HTTP server, and for the events   *)
(* of a CoAP server.                                                       *)
Follower(r) ==
    /\ r \in served /\ Subscribes(r)
    /\ setup.binding = "http" \/ (setup.binding = "coap" /\ input[r].target = "event")

Untold(r) == Len(Log(r)) - since[r]

FollowsHttp(r) ==
    /\ Untold(r) = 0 =>
         got[r] = <<>> /\ stage[r] = "open" /\ (completed \/ Listens(r))
    /\ Untold(r) > 0 /\ Log(r)[since[r] + 1] # Bad =>
         got[r] = <<Log(r)[since[r] + 1]>> /\ stage[r] = "done"

FollowsCoap(r) ==
    /\ Len(got[r]) <= Untold(r)
    /\ \A j \in 1 .. Len(got[r]) : got[r][j] = Log(r)[since[r] + j]
    /\ stage[r] = "open" =>
         Len(got[r]) = Untold(r) /\ (completed \/ Listens(r))

(* EachToldInOrder for one request, with where the request is meanwhile.   *)
Follows(r) == Follower(r) =>
    /\ stage[r] \in {"open", "done"} /\ Untold(r) \in Nat
    /\ setup.binding = "http" => FollowsHttp(r)
    /\ setup.binding = "coap" => FollowsCoap(r)

(* Nothing is told before a request is served.                             *)
Fresh(r) ==
    /\ stage[r] \in {"unsent", "checking", "loading", "called"} => got[r] = <<>>
    /\ stage[r] = "reading" => input[r].target = "observe"

FInv == EarsOwn /\ \A r \in Request : Fresh(r) /\ Follows(r)

-----------------------------------------------------------------------------
(* What a follower finds in one step                                       *)

(* The subject is not called, and the follower stays as it is.             *)
LEMMA Calm ==
    ASSUME NEW q \in Request, Follows(q), setup' = setup, input'[q] = input[q],
           stage'[q] = stage[q], got'[q] = got[q], since'[q] = since[q],
           q \in served' <=> q \in served, Log(q)' = Log(q),
           completed' \/ (completed' = completed /\ (Listens(q) => Listens(q)'))
    PROVE  Follows(q)'
<1>1. (Follower(q)' <=> Follower(q)) /\ Untold(q)' = Untold(q)
  BY DEF Follower, Subscribes, Untold
<1>2. FollowsHttp(q) => FollowsHttp(q)'
  BY <1>1 DEF FollowsHttp
<1>3. FollowsCoap(q) => FollowsCoap(q)'
  BY <1>1 DEF FollowsCoap
<1>4. QED
  BY <1>1, <1>2, <1>3 DEF Follows

(* Its subject is called with v: what happens to the follower when it is   *)
(* told, and when it is not.                                               *)
Told1(q, v) ==
    /\ got'[q] = IF v = Bad THEN got[q] ELSE Append(got[q], v)
    /\ stage'[q] = IF v = Bad \/ setup.binding = "http" THEN "done" ELSE stage[q]

Called(q, v) ==
    LET told == stage[q] = "open" /\ ~Throws(v) /\ Listens(q)
    IN /\ told => Told1(q, v)
       /\ ~told => got'[q] = got[q] /\ stage'[q] = stage[q]
       /\ ~Throws(v) /\ Listens(q) => Listens(q)'

LEMMA Hearing ==
    ASSUME Inner, NEW q \in Request, Follows(q), setup' = setup, input'[q] = input[q],
           since'[q] = since[q], q \in served' <=> q \in served,
           NEW v \in Value, Log(q)' = Append(Log(q), v), ~completed, completed' = completed,
           Called(q, v)
    PROVE  Follows(q)'
<1>1. /\ Log(q) \in Seq(Value) /\ since[q] \in Nat /\ got[q] \in Seq(Value \ {Bad})
      /\ Len(Log(q)) \in Nat
  BY DEF Inner, ThingTypeOK, Log
<1>2. /\ Follower(q)' <=> Follower(q)
      /\ Untold(q)' = Untold(q) + 1
      /\ Log(q)'[Len(Log(q)) + 1] = v
      /\ \A i \in 1 .. Len(Log(q)) : Log(q)'[i] = Log(q)[i]
  <2>1. Follower(q)' <=> Follower(q)
    BY DEF Follower, Subscribes
  <2>2. /\ Len(Append(Log(q), v)) = Len(Log(q)) + 1
        /\ Append(Log(q), v)[Len(Log(q)) + 1] = v
        /\ \A i \in 1 .. Len(Log(q)) : Append(Log(q), v)[i] = Log(q)[i]
    <3> DEFINE log == Log(q)
    <3> HIDE DEF log
    <3>1. log \in Seq(Value)
      BY <1>1 DEF log
    <3>2. /\ Len(Append(log, v)) = Len(log) + 1
          /\ Append(log, v)[Len(log) + 1] = v
          /\ \A i \in 1 .. Len(log) : Append(log, v)[i] = log[i]
      BY <3>1
    <3>3. QED
      BY <3>2 DEF log
  <2>3. Untold(q)' = Untold(q) + 1
    BY <1>1, <2>2 DEF Untold
  <2>4. QED
    BY <2>1, <2>2, <2>3
<1> SUFFICES ASSUME Follower(q) PROVE Follows(q)'
  BY <1>2 DEF Follows
<1>3. stage[q] \in {"open", "done"} /\ Untold(q) \in Nat
  BY DEF Follows
<1>4. stage'[q] \in {"open", "done"} /\ Untold(q)' \in Nat
  BY <1>2, <1>3 DEF Called, Told1
<1>5. ASSUME setup.binding = "http" PROVE FollowsHttp(q)'
  <2>1. FollowsHttp(q)
    BY <1>5 DEF Follows
  <2>2. CASE Untold(q) = 0
    <3>1. got[q] = <<>> /\ stage[q] = "open" /\ Listens(q)
      BY <2>1, <2>2 DEF FollowsHttp
    <3>2. Log(q)'[since'[q] + 1] = v
      BY <1>1, <1>2, <2>2 DEF Untold
    <3>3. v # Bad => got'[q] = <<v>> /\ stage'[q] = "done"
      BY <1>5, <3>1 DEF Called, Told1, Throws
    <3>4. QED
      BY <1>2, <2>2, <3>2, <3>3 DEF FollowsHttp
  <2>3. CASE Untold(q) > 0
    <3>1. since[q] + 1 \in 1 .. Len(Log(q))
      BY <1>1, <2>3 DEF Untold
    <3>2. Log(q)'[since'[q] + 1] = Log(q)[since[q] + 1]
      BY <1>2, <3>1
    <3>3. Log(q)[since[q] + 1] # Bad =>
            /\ got[q] = <<Log(q)[since[q] + 1]>> /\ stage[q] = "done"
            /\ got'[q] = got[q] /\ stage'[q] = stage[q]
      BY <2>1, <2>3 DEF FollowsHttp, Called
    <3>4. QED
      BY <1>2, <1>3, <2>3, <3>2, <3>3 DEF FollowsHttp
  <2>4. QED
    BY <1>3, <2>2, <2>3
<1>6. ASSUME setup.binding = "coap" PROVE FollowsCoap(q)'
  <2>1. FollowsCoap(q) /\ ~Throws(v)
    BY <1>6 DEF Follows, Throws
  <2>2. \A j \in 1 .. Len(got[q]) : got[q][j] = Log(q)'[since'[q] + j]
    <3>1. ASSUME NEW j \in 1 .. Len(got[q]) PROVE since[q] + j \in 1 .. Len(Log(q))
      BY <1>1, <2>1 DEF FollowsCoap, Untold
    <3>2. QED
      BY <1>2, <2>1, <3>1 DEF FollowsCoap
  <2>3. CASE got'[q] = got[q] /\ stage'[q] = "done"
    <3>1. Len(got[q]) <= Untold(q) + 1
      BY <1>1, <1>3, <2>1 DEF FollowsCoap
    <3>2. QED
      BY <1>2, <2>2, <2>3, <3>1 DEF FollowsCoap
  <2>4. CASE stage[q] = "open" /\ v # Bad
    <3>1. Len(got[q]) = Untold(q) /\ Listens(q)
      BY <2>1, <2>4 DEF FollowsCoap
    <3>2. got'[q] = Append(got[q], v) /\ stage'[q] = "open" /\ Listens(q)'
      BY <1>6, <2>1, <2>4, <3>1 DEF Called, Told1
    <3>3. Len(got'[q]) = Untold(q)'
      BY <1>1, <1>2, <3>1, <3>2
    <3>4. ASSUME NEW j \in 1 .. Len(got'[q]) PROVE got'[q][j] = Log(q)'[since'[q] + j]
      <4>1. CASE j = Len(got[q]) + 1
        <5>1. since'[q] + j = Len(Log(q)) + 1
          BY <1>1, <3>1, <4>1 DEF Untold
        <5>2. QED
          BY <1>1, <1>2, <3>2, <4>1, <5>1
      <4>2. CASE j \in 1 .. Len(got[q])
        <5>1. got'[q][j] = got[q][j]
          BY <1>1, <2>4, <3>2, <4>2
        <5>2. QED
          BY <2>2, <4>2, <5>1
      <4>3. QED
        <5>1. Len(got[q]) \in Nat /\ Len(got'[q]) = Len(got[q]) + 1
          BY <1>1, <3>2
        <5>2. j \in 1 .. Len(got[q]) + 1
          BY <3>4, <5>1
        <5>3. j = Len(got[q]) + 1 \/ j \in 1 .. Len(got[q])
          BY <5>1, <5>2
        <5>4. QED
          BY <4>1, <4>2, <5>3
    <3>5. QED
      <4>1. Len(got'[q]) <= Untold(q)'
        BY <1>4, <3>3
      <4>2. QED
        BY <3>2, <3>3, <3>4, <4>1 DEF FollowsCoap
  <2>5. QED
    <3>1. stage[q] = "open" => Listens(q)
      BY <2>1 DEF FollowsCoap
    <3>2. CASE stage[q] = "open" /\ v = Bad
      BY <2>1, <2>3, <3>1, <3>2 DEF Called, Told1
    <3>3. CASE stage[q] = "done"
      BY <2>3, <3>3 DEF Called
    <3>4. QED
      BY <1>3, <2>4, <3>2, <3>3
<1>7. QED
  BY <1>4, <1>5, <1>6 DEF Follows

-----------------------------------------------------------------------------
(* Subjects that are called                                                *)

LEMMA Leaves ==
    ASSUME NEW ears \in Seq(Request), NEW throws, NEW q \in Request
    PROVE  ListensIn(LeftBehind(ears, throws), q) => ListensIn(ears, q)
<1>1. CASE LeftBehind(ears, throws) = ears
  BY <1>1
<1>2. CASE LeftBehind(ears, throws) = Tail(ears) /\ ears # <<>>
  <2>1. ASSUME NEW i \in DOMAIN Tail(ears)
        PROVE  i + 1 \in DOMAIN ears /\ Tail(ears)[i] = ears[i + 1]
    BY <1>2, <2>1
  <2>2. QED
    BY <1>2, <2>1 DEF ListensIn
<1>3. QED
  BY <1>1, <1>2 DEF LeftBehind

(* A subject with these listeners is called with v.                        *)
LEMMA CallsListeners ==
    ASSUME Inner, NEW ears \in Seq(Request), NEW ears2, NEW v \in Value, NEW told,
           told = Told(ears, v), ears2 = LeftBehind(ears, Throws(v)),
           NEW q \in Request,
           got'[q] = IF q \in told /\ v # Bad THEN Append(got[q], v) ELSE got[q],
           answer'[q] = AnswerTo(told, q, v),
           stage'[q] = IF answer'[q] # answer[q] THEN "done" ELSE stage[q]
    PROVE  LET heard == stage[q] = "open" /\ ~Throws(v) /\ ListensIn(ears, q)
           IN /\ heard => Told1(q, v)
              /\ ~heard => got'[q] = got[q] /\ stage'[q] = stage[q]
              /\ ~Throws(v) /\ ListensIn(ears, q) => ListensIn(ears2, q)
              /\ ListensIn(ears2, q) => ListensIn(ears, q)
<1>1. q \in told <=> stage[q] = "open" /\ ~Throws(v) /\ ListensIn(ears, q)
  BY DEF Told, ListensIn
<1>2. q \in told => answer[q] = "none"
  BY <1>1 DEF Inner
<1>3. q \in told => Told1(q, v)
  BY <1>1, <1>2 DEF AnswerTo, Told1, Throws
<1>4. q \notin told => got'[q] = got[q] /\ stage'[q] = stage[q]
  BY DEF AnswerTo
<1>5. ~Throws(v) => ears2 = ears
  BY DEF LeftBehind
<1>6. ListensIn(ears2, q) => ListensIn(ears, q)
  BY Leaves
<1>7. QED
  BY <1>1, <1>3, <1>4, <1>5, <1>6

LEMMA AddsListener ==
    ASSUME NEW ears \in Seq(Request), NEW r \in Request, NEW q \in Request
    PROVE  ListensIn(Append(ears, r), q) <=> ListensIn(ears, q) \/ q = r
<1>1. /\ DOMAIN Append(ears, r) = 1 .. Len(ears) + 1 /\ DOMAIN ears = 1 .. Len(ears)
      /\ Append(ears, r)[Len(ears) + 1] = r /\ Len(ears) \in Nat
      /\ \A i \in 1 .. Len(ears) : Append(ears, r)[i] = ears[i]
  OBVIOUS
<1>2. Len(ears) + 1 \in DOMAIN Append(ears, r) /\ \A i \in DOMAIN ears : i \in DOMAIN Append(ears, r)
  BY <1>1
<1>3. ASSUME ListensIn(Append(ears, r), q), q # r PROVE ListensIn(ears, q)
  <2>1. PICK i \in DOMAIN Append(ears, r) : Append(ears, r)[i] = q
    BY <1>3 DEF ListensIn
  <2>2. i # Len(ears) + 1
    BY <1>1, <1>3, <2>1
  <2>3. i \in 1 .. Len(ears)
    BY <1>1, <2>1, <2>2
  <2>4. QED
    BY <1>1, <2>1, <2>3 DEF ListensIn
<1>4. QED
  BY <1>1, <1>2, <1>3 DEF ListensIn

-----------------------------------------------------------------------------
(* Handlers                                                                *)

(* A request keeps the input it arrived with.                              *)
LEMMA GoesInput ==
    ASSUME NEW r \in Request, Goes(r), stage[r] # "unsent"
    PROVE  input'[r] = input[r]
BY DEF Goes, Receive, Checked, Loaded, Settles, ReadSettles, WriteSettles, ActionSettles

(* Whoever has not arrived in an open response listens to nothing.         *)
LEMMA GoesFresh ==
    ASSUME IInv, FInv, NEW r \in Request, Goes(r), Does(r), Frame(r)
    PROVE  /\ got[r] = <<>> /\ answer[r] = "none"
           /\ r \in served => ~Subscribes(r)'
           /\ ListensIn(observers, r) => input'[r].target = "observe"
           /\ ListensIn(subscribers, r) => input'[r].target # "observe"
<1>1. /\ stage[r] \in {"unsent", "checking", "loading", "called"}
      /\ Fresh(r) /\ Placed(r) /\ EarsOwn
  BY DEF Frame, IInv, FInv
<1>2. r \in served => stage[r] = "called" /\ ~Subscribes(r)
  BY <1>1 DEF Placed
<1>3. stage[r] # "unsent" => input'[r] = input[r] /\ (Subscribes(r)' <=> Subscribes(r))
  BY GoesInput DEF Subscribes
<1>4. answer[r] = "none"
  BY <1>1 DEF IInv, Inner
<1>5. QED
  BY <1>1, <1>2, <1>3, <1>4 DEF Fresh, EarsOwn

(* The steps of a handler that do not touch the subjects.                  *)
LEMMA QuietFollow ==
    ASSUME IInv, FInv, NEW r \in Request, Goes(r), Does(r), Frame(r), UNCHANGED <<thingVars, since>>,
           NEW s \in Stage \ {"unsent"}, stage' = [stage EXCEPT ![r] = s],
           \A q \in Request \ {r} : got'[q] = got[q] /\ (q \in served' <=> q \in served),
           ~Follower(r)',
           s \in {"checking", "loading", "called"} => got' = got,
           s = "reading" => input'[r].target = "observe"
    PROVE  FInv'
<1>1. stage'[r] = s /\ \A q \in Request \ {r} : stage'[q] = stage[q] /\ input'[q] = input[q]
  BY DEF IInv, Inner, Frame
<1>2. UNCHANGED <<setup, value, changes, observers, events, subscribers, completed>>
  BY DEF Frame, thingVars, propertyVars, eventVars
<1>3. Fresh(r)' /\ Follows(r)'
  BY <1>1, GoesFresh DEF Fresh, Follows
<1>4. ASSUME NEW q \in Request \ {r} PROVE Fresh(q)' /\ Follows(q)'
  <2>1. Fresh(q) /\ Follows(q)
    BY DEF FInv
  <2>2. Log(q)' = Log(q) /\ (Listens(q)' <=> Listens(q))
    BY <1>1, <1>2 DEF Log, Listens, Ears
  <2>3. Follows(q)'
    BY <1>1, <1>2, <2>1, <2>2, Calm
  <2>4. QED
    BY <1>1, <2>1, <2>3 DEF Fresh
<1>5. EarsOwn'
  <2>1. ASSUME NEW q \in Request
        PROVE  /\ ListensIn(observers, q) => stage'[q] # "unsent" /\ input'[q].target = "observe"
               /\ ListensIn(subscribers, q) => stage'[q] # "unsent" /\ input'[q].target # "observe"
    <3>1. CASE q = r
      BY <1>1, <3>1, GoesFresh
    <3>2. CASE q # r
      BY <1>1, <3>2 DEF FInv, EarsOwn
    <3>3. QED
      BY <3>1, <3>2
  <2>2. QED
    BY <1>2, <2>1 DEF EarsOwn, ListensIn
<1>6. QED
  BY <1>3, <1>4, <1>5 DEF FInv

(* A long poll or a subscription begins.                                   *)
LEMMA SubscribedFollow ==
    ASSUME IInv, FInv, NEW r \in Request, Goes(r), Does(r), Frame(r), Inner',
           UNCHANGED <<value, changes, events, completed>>,
           NEW log, Subscribed(r, "open", log), log = Log(r)',
           observers' = IF completed \/ input'[r].target # "observe"
                        THEN observers ELSE Append(observers, r),
           subscribers' = IF completed \/ input'[r].target = "observe"
                          THEN subscribers ELSE Append(subscribers, r)
    PROVE  FInv'
<1>1. /\ stage' = [stage EXCEPT ![r] = "open"] /\ since' = [since EXCEPT ![r] = Len(log)]
      /\ served' = served \cup {r} /\ got' = got
  BY DEF Subscribed, At
<1>2. /\ stage'[r] = "open" /\ since'[r] = Len(Log(r)')
      /\ \A q \in Request \ {r} : stage'[q] = stage[q] /\ since'[q] = since[q] /\ input'[q] = input[q]
  BY <1>1 DEF IInv, Inner, Frame
<1>3. /\ observers \in Seq(Request) /\ subscribers \in Seq(Request) /\ setup' = setup
  BY RequestAssumption DEF IInv, Inner, ThingTypeOK, Frame
<1>4. \A q \in Request :
        /\ ListensIn(observers', q) <=>
             ListensIn(observers, q) \/ (q = r /\ ~completed /\ input'[r].target = "observe")
        /\ ListensIn(subscribers', q) <=>
             ListensIn(subscribers, q) \/ (q = r /\ ~completed /\ input'[r].target # "observe")
  BY <1>3, AddsListener
<1>5. EarsOwn'
  <2>1. ASSUME NEW q \in Request
        PROVE  /\ ListensIn(observers', q) => stage'[q] # "unsent" /\ input'[q].target = "observe"
               /\ ListensIn(subscribers', q) => stage'[q] # "unsent" /\ input'[q].target # "observe"
    <3>1. CASE q = r
      BY <1>2, <1>4, <3>1, GoesFresh
    <3>2. CASE q # r
      BY <1>2, <1>4, <3>2 DEF FInv, EarsOwn
    <3>3. QED
      BY <3>1, <3>2
  <2>2. QED
    BY <2>1 DEF EarsOwn
<1>6. Fresh(r)' /\ Follows(r)'
  <2>1. got'[r] = <<>>
    BY <1>1, GoesFresh
  <2>2. Len(Log(r)') \in Nat
    BY DEF Inner, ThingTypeOK, Log
  <2>3. Untold(r)' = 0
    BY <1>2, <2>2 DEF Untold
  <2>4. completed' \/ Listens(r)'
    BY <1>4 DEF Listens, Ears
  <2>5. FollowsHttp(r)' /\ FollowsCoap(r)'
    BY <1>2, <2>1, <2>3, <2>4 DEF FollowsHttp, FollowsCoap
  <2>6. QED
    BY <1>2, <2>3, <2>5 DEF Fresh, Follows
<1>7. ASSUME NEW q \in Request \ {r} PROVE Fresh(q)' /\ Follows(q)'
  <2>1. Fresh(q) /\ Follows(q)
    BY DEF FInv
  <2>2. Log(q)' = Log(q) /\ (Listens(q) => Listens(q)')
    BY <1>2, <1>4 DEF Log, Listens, Ears
  <2>3. q \in served' <=> q \in served
    BY <1>1
  <2>4. Follows(q)'
    BY <1>1, <1>2, <1>3, <2>1, <2>2, <2>3, Calm
  <2>5. QED
    BY <1>1, <1>2, <2>1, <2>4 DEF Fresh
<1>8. QED
  BY <1>5, <1>6, <1>7 DEF FInv

(* A write is done, and the listeners of the property are told.            *)
LEMMA WrittenFollow ==
    ASSUME IInv, FInv, NEW r \in Request, Goes(r), Does(r), Frame(r), NEW v \in Value,
           Written(r, v), input'[r].method = "PUT"
    PROVE  FInv'
<1> DEFINE told == IF Notifies(v) THEN Told(observers, v) ELSE {}
<1>1. /\ changes' = IF Notifies(v) THEN Append(changes, v) ELSE changes
      /\ observers' = LeftBehind(observers, Throws(v) /\ Notifies(v))
      /\ UNCHANGED <<events, subscribers, completed, since, setup>>
      /\ served' = served \cup {r}
  BY DEF Written, Store, eventVars, Frame
<1>2. \A q \in Request :
        /\ got'[q] = IF q \in told /\ v # Bad THEN Append(got[q], v) ELSE got[q]
        /\ answer'[q] = IF q # r THEN AnswerTo(told, q, v) ELSE answer'[q]
        /\ stage'[q] = IF answer'[q] # answer[q] THEN "done" ELSE stage[q]
  BY DEF Written, Deliver, Finish
<1> HIDE DEF told
<1>3. \A q \in Request \ {r} : input'[q] = input[q] /\ (q \in served' <=> q \in served)
  BY <1>1 DEF Frame
<1>4. observers \in Seq(Request) /\ Inner /\ EarsOwn
  BY RequestAssumption DEF IInv, Inner, ThingTypeOK, FInv
<1>5. stage'[r] = "done"
  <2>1. answer[r] = "none" /\ answer'[r] \in {"ok", "error"}
    BY GoesFresh DEF Written
  <2>2. QED
    BY <1>2, <2>1
<1>6. ~Subscribes(r)'
  BY DEF Subscribes
<1>7. Fresh(r)' /\ Follows(r)'
  BY <1>5, <1>6 DEF Fresh, Follows, Follower
<1>8. ASSUME NEW q \in Request \ {r}
      PROVE  /\ ListensIn(observers', q) => ListensIn(observers, q)
             /\ stage'[q] \in {stage[q], "done"}
             /\ Fresh(q)' /\ Follows(q)'
  <2>1. Fresh(q) /\ Follows(q) /\ answer'[q] = AnswerTo(told, q, v)
    BY <1>2 DEF FInv
  <2>2. CASE Notifies(v)
    <3>1. told = Told(observers, v) /\ observers' = LeftBehind(observers, Throws(v))
      BY <1>1, <2>2 DEF told, LeftBehind
    <3>2. LET heard == stage[q] = "open" /\ ~Throws(v) /\ ListensIn(observers, q)
          IN /\ heard => Told1(q, v)
             /\ ~heard => got'[q] = got[q] /\ stage'[q] = stage[q]
             /\ ~Throws(v) /\ ListensIn(observers, q) => ListensIn(observers', q)
             /\ ListensIn(observers', q) => ListensIn(observers, q)
      BY <1>2, <1>4, <2>1, <3>1, CallsListeners
    <3>3. Fresh(q)'
      BY <1>3, <2>1, <3>2 DEF Fresh, Told1
    <3>4. stage'[q] \in {stage[q], "done"}
      BY <3>2 DEF Told1
    <3>5. CASE input[q].target = "observe"
      <4>1. Log(q)' = Append(Log(q), v) /\ ~completed
        BY <1>1, <1>3, <2>2, <3>5 DEF Log, Notifies
      <4>2. Called(q, v)
        BY <1>3, <3>2, <3>5 DEF Called, Listens, Ears
      <4>3. Follows(q)'
        BY <1>1, <1>3, <1>4, <2>1, <4>1, <4>2, Hearing
      <4>4. QED
        BY <3>2, <3>3, <3>4, <4>3
    <3>6. CASE input[q].target # "observe"
      <4>1. ~ListensIn(observers, q)
        BY <1>4, <3>6 DEF EarsOwn
      <4>2. got'[q] = got[q] /\ stage'[q] = stage[q]
        BY <3>2, <4>1
      <4>3. Log(q)' = Log(q) /\ (Listens(q)' <=> Listens(q))
        BY <1>1, <1>3, <3>6 DEF Log, Listens, Ears
      <4>4. Follows(q)'
        BY <1>1, <1>3, <2>1, <4>2, <4>3, Calm
      <4>5. QED
        BY <3>2, <3>3, <3>4, <4>4
    <3>7. QED
      BY <3>5, <3>6
  <2>3. CASE ~Notifies(v)
    <3>1. observers' = observers /\ changes' = changes
      BY <1>1, <2>3 DEF LeftBehind
    <3>2. got'[q] = got[q] /\ stage'[q] = stage[q]
      BY <1>2, <2>1, <2>3 DEF AnswerTo, told
    <3>3. Log(q)' = Log(q) /\ (Listens(q)' <=> Listens(q))
      BY <1>1, <1>3, <3>1 DEF Log, Listens, Ears
    <3>4. Follows(q)'
      BY <1>1, <1>3, <2>1, <3>2, <3>3, Calm
    <3>5. QED
      BY <1>3, <2>1, <3>1, <3>2, <3>4 DEF Fresh
  <2>4. QED
    BY <2>2, <2>3
<1>9. EarsOwn'
  <2>1. ASSUME NEW q \in Request
        PROVE  /\ ListensIn(observers', q) => stage'[q] # "unsent" /\ input'[q].target = "observe"
               /\ ListensIn(subscribers', q) => stage'[q] # "unsent" /\ input'[q].target # "observe"
    <3>1. CASE q = r
      <4>1. ListensIn(observers', q) => ListensIn(observers, q)
        BY <1>2, <1>4, <3>1, Leaves, <1>1
      <4>2. QED
        BY <1>1, <1>5, <3>1, <4>1, GoesFresh
    <3>2. CASE q # r
      BY <1>1, <1>3, <1>4, <1>8, <3>2 DEF EarsOwn
    <3>3. QED
      BY <3>1, <3>2
  <2>2. QED
    BY <2>1 DEF EarsOwn
<1>10. QED
  BY <1>7, <1>8, <1>9 DEF FInv

LEMMA GoesFollow ==
    ASSUME IInv, FInv, NEW r \in Request, Goes(r)
    PROVE  FInv'
<1>1. IInv' /\ Does(r) /\ Frame(r) /\ Inner'
  BY GoesStep DEF IInv
<1>2. r \in served => ~Subscribes(r)'
  BY <1>1, GoesFresh
<1>3. \A q \in Request \ {r} : q \in served \cup {r} <=> q \in served
  OBVIOUS
<1>4. ASSUME NEW code \in Code, Reply(r, code) PROVE FInv'
  <2>1. /\ stage' = [stage EXCEPT ![r] = "done"] /\ served' = served /\ got' = got
        /\ UNCHANGED <<thingVars, since>>
    BY <1>4 DEF Reply, At
  <2>2. ~Follower(r)'
    BY <1>2, <2>1 DEF Follower
  <2>3. QED
    BY <1>1, <2>1, <2>2, QuietFollow DEF Stage
<1>5. ASSUME NEW s \in {"checking", "loading", "lost"}, Wait(r, s) PROVE FInv'
  <2>1. /\ stage' = [stage EXCEPT ![r] = s] /\ served' = served /\ got' = got
        /\ UNCHANGED <<thingVars, since>>
    BY <1>5 DEF Wait, At
  <2>2. ~Follower(r)'
    BY <1>2, <2>1 DEF Follower
  <2>3. QED
    BY <1>1, <2>1, <2>2, QuietFollow DEF Stage
<1>6. CASE Call(r) /\ ~Subscribes(r)'
  <2>1. /\ stage' = [stage EXCEPT ![r] = "called"] /\ served' = served \cup {r} /\ got' = got
        /\ UNCHANGED <<thingVars, since>>
    BY <1>6 DEF Call, At
  <2>2. ~Follower(r)'
    BY <1>6 DEF Follower
  <2>3. QED
    BY <1>1, <1>3, <2>1, <2>2, QuietFollow DEF Stage
<1>7. ASSUME NEW v \in Value, ReplyValue(r, v), ~Subscribes(r)' PROVE FInv'
  <2>1. /\ stage' = [stage EXCEPT ![r] = "done"] /\ served' = served \cup {r}
        /\ UNCHANGED <<thingVars, since>>
        /\ \A q \in Request \ {r} : got'[q] = got[q]
    BY <1>7 DEF ReplyValue, At, IInv, Inner
  <2>2. ~Follower(r)'
    BY <1>7 DEF Follower
  <2>3. QED
    BY <1>1, <1>3, <2>1, <2>2, QuietFollow DEF Stage
<1>8. ASSUME NEW v \in Value, Written(r, v), input'[r].method = "PUT" PROVE FInv'
  BY <1>1, <1>8, WrittenFollow
<1>9. CASE ObserveProperty(r) /\ Subscribed(r, "open", changes) /\ input'[r].target = "observe"
  <2>1. /\ UNCHANGED <<value, changes, events, subscribers, completed>>
        /\ observers' = IF completed THEN observers ELSE Append(observers, r)
        /\ changes = Log(r)'
    BY <1>9 DEF ObserveProperty, eventVars, Log
  <2>2. QED
    BY <1>1, <1>9, <2>1, SubscribedFollow
<1>10. CASE SubscribeEvent(r) /\ Subscribed(r, "open", events) /\ input'[r].target # "observe"
  <2>1. /\ UNCHANGED <<value, changes, events, observers, completed>>
        /\ subscribers' = IF completed THEN subscribers ELSE Append(subscribers, r)
        /\ events = Log(r)'
    BY <1>10 DEF SubscribeEvent, propertyVars, Log
  <2>2. QED
    BY <1>1, <1>10, <2>1, SubscribedFollow
<1>11. CASE Begins(r) /\ setup.binding = "coap" /\ input'[r].target = "observe"
  <2>1. /\ stage' = [stage EXCEPT ![r] = "reading"] /\ served' = served /\ got' = got
        /\ UNCHANGED <<thingVars, since>>
    BY <1>11 DEF Begins, At
  <2>2. ~Follower(r)'
    BY <1>1, <1>11 DEF Follower, Frame
  <2>3. QED
    BY <1>1, <1>11, <2>1, <2>2, QuietFollow DEF Stage
<1>12. QED
  BY <1>1, <1>4, <1>5, <1>6, <1>7, <1>8, <1>9, <1>10, <1>11 DEF Does

-----------------------------------------------------------------------------
(* The other steps                                                         *)

LEMMA EmitFollow ==
    ASSUME IInv, FInv, Emit
    PROVE  FInv'
<1>1. UNCHANGED <<changes, observers, completed, since, setup, input, served>> /\ ~completed
  BY DEF Emit, EmitEvent, propertyVars
<1>2. PICK v \in Value :
        /\ events' = Append(events, v)
        /\ subscribers' = LeftBehind(subscribers, Throws(v))
        /\ Deliver(Told(subscribers, v), v)
        /\ answer' = [r \in Request |-> AnswerTo(Told(subscribers, v), r, v)]
        /\ Finish
  BY <1>1 DEF Emit, EmitEvent
<1> DEFINE told == Told(subscribers, v)
<1>3. \A q \in Request :
        /\ got'[q] = IF q \in told /\ v # Bad THEN Append(got[q], v) ELSE got[q]
        /\ answer'[q] = AnswerTo(told, q, v)
        /\ stage'[q] = IF answer'[q] # answer[q] THEN "done" ELSE stage[q]
  BY <1>2 DEF Deliver, Finish
<1>4. subscribers \in Seq(Request) /\ Inner /\ EarsOwn
  BY RequestAssumption DEF IInv, Inner, ThingTypeOK, FInv
<1>5. told = Told(subscribers, v)
  OBVIOUS
<1> HIDE DEF told
<1>6. ASSUME NEW q \in Request
      PROVE  /\ ListensIn(subscribers', q) => ListensIn(subscribers, q)
             /\ stage'[q] \in {stage[q], "done"}
             /\ Fresh(q)' /\ Follows(q)'
  <2>1. Fresh(q) /\ Follows(q)
    BY DEF FInv
  <2>2. LET heard == stage[q] = "open" /\ ~Throws(v) /\ ListensIn(subscribers, q)
        IN /\ heard => Told1(q, v)
           /\ ~heard => got'[q] = got[q] /\ stage'[q] = stage[q]
           /\ ~Throws(v) /\ ListensIn(subscribers, q) => ListensIn(subscribers', q)
           /\ ListensIn(subscribers', q) => ListensIn(subscribers, q)
    BY <1>2, <1>3, <1>4, <1>5, CallsListeners
  <2>3. Fresh(q)'
    BY <1>1, <2>1, <2>2 DEF Fresh, Told1
  <2>4. stage'[q] \in {stage[q], "done"}
    BY <2>2 DEF Told1
  <2>5. CASE input[q].target # "observe"
    <3>1. Log(q)' = Append(Log(q), v)
      BY <1>1, <1>2, <2>5 DEF Log
    <3>2. Called(q, v)
      BY <1>1, <2>2, <2>5 DEF Called, Listens, Ears
    <3>3. Follows(q)'
      BY <1>1, <1>4, <2>1, <3>1, <3>2, Hearing
    <3>4. QED
      BY <2>2, <2>3, <2>4, <3>3
  <2>6. CASE input[q].target = "observe"
    <3>1. ~ListensIn(subscribers, q)
      BY <1>4, <2>6 DEF EarsOwn
    <3>2. got'[q] = got[q] /\ stage'[q] = stage[q]
      BY <2>2, <3>1
    <3>3. Log(q)' = Log(q) /\ (Listens(q)' <=> Listens(q))
      BY <1>1, <2>6 DEF Log, Listens, Ears
    <3>4. Follows(q)'
      BY <1>1, <2>1, <3>2, <3>3, Calm
    <3>5. QED
      BY <2>2, <2>3, <2>4, <3>4
  <2>7. QED
    BY <2>5, <2>6
<1>7. EarsOwn'
  BY <1>1, <1>4, <1>6 DEF EarsOwn
<1>8. QED
  BY <1>6, <1>7 DEF FInv

LEMMA TickFollow ==
    ASSUME IInv, FInv, NEW r \in Request, Tick(r)
    PROVE  FInv'
<1>1. /\ stage[r] = "reading" /\ served' = served \cup {r}
      /\ UNCHANGED <<setup, thingVars, input, since>>
      /\ stage' \in {stage, [stage EXCEPT ![r] = "done"]}
      /\ \A q \in Request \ {r} : got'[q] = got[q]
  BY DEF Tick, At, IInv, Inner
<1>2. /\ stage'[r] \in {"reading", "done"} /\ \A q \in Request \ {r} : stage'[q] = stage[q]
  BY <1>1 DEF IInv, Inner
<1>3. UNCHANGED <<changes, observers, events, subscribers, completed>>
  BY <1>1 DEF thingVars, propertyVars, eventVars
<1>4. setup.binding = "coap" /\ input[r].target = "observe"
  BY <1>1 DEF IInv, Placed, FInv, Fresh
<1>5. Fresh(r)' /\ Follows(r)'
  BY <1>1, <1>2, <1>4 DEF Fresh, Follows, Follower
<1>6. ASSUME NEW q \in Request \ {r} PROVE Fresh(q)' /\ Follows(q)'
  <2>1. Fresh(q) /\ Follows(q)
    BY DEF FInv
  <2>2. Log(q)' = Log(q) /\ (Listens(q)' <=> Listens(q))
    BY <1>1, <1>3 DEF Log, Listens, Ears
  <2>3. Follows(q)'
    BY <1>1, <1>2, <1>3, <2>1, <2>2, Calm
  <2>4. QED
    BY <1>1, <1>2, <2>1, <2>3 DEF Fresh
<1>7. EarsOwn'
  BY <1>1, <1>2, <1>3 DEF FInv, EarsOwn, ListensIn
<1>8. QED
  BY <1>5, <1>6, <1>7 DEF FInv

LEMMA ResetFollow ==
    ASSUME IInv, FInv, NEW r \in Request, Reset(r)
    PROVE  FInv'
<1>1. /\ setup.binding = "coap" /\ stage[r] \in {"open", "reading"}
      /\ stage' = [stage EXCEPT ![r] = "done"]
      /\ UNCHANGED <<setup, thingVars, input, got, since, served>>
  BY DEF Reset, At, Unsubscribe
<1>2. stage'[r] = "done" /\ \A q \in Request \ {r} : stage'[q] = stage[q]
  BY <1>1 DEF IInv, Inner
<1>3. UNCHANGED <<changes, observers, events, subscribers, completed>>
  BY <1>1 DEF thingVars, propertyVars, eventVars
<1>4. ASSUME NEW q \in Request
      PROVE  Log(q)' = Log(q) /\ (Listens(q)' <=> Listens(q)) /\ Fresh(q) /\ Follows(q)
  BY <1>1, <1>3 DEF Log, Listens, Ears, FInv
<1>5. Fresh(r)' /\ Follows(r)'
  <2>1. Follower(r)' => Follower(r) /\ Untold(r)' = Untold(r)
    BY <1>1, <1>4 DEF Follower, Subscribes, Untold
  <2>2. Follower(r) => Untold(r) \in Nat /\ FollowsCoap(r)
    BY <1>1, <1>4 DEF Follows
  <2>3. Follower(r)' => FollowsCoap(r)'
    BY <1>1, <1>2, <1>4, <2>1, <2>2 DEF FollowsCoap
  <2>4. QED
    BY <1>1, <1>2, <2>1, <2>2, <2>3 DEF Fresh, Follows
<1>6. ASSUME NEW q \in Request \ {r} PROVE Fresh(q)' /\ Follows(q)'
  <2>1. Follows(q)'
    BY <1>1, <1>2, <1>3, <1>4, Calm
  <2>2. QED
    BY <1>1, <1>2, <1>4, <2>1 DEF Fresh
<1>7. EarsOwn'
  BY <1>1, <1>2, <1>3 DEF FInv, EarsOwn, ListensIn
<1>8. QED
  BY <1>5, <1>6, <1>7 DEF FInv

LEMMA DestroyFollow ==
    ASSUME IInv, FInv, Destroy
    PROVE  FInv'
<1>1. /\ UNCHANGED <<setup, input, stage, got, since, served, changes, events>>
      /\ observers' = <<>> /\ subscribers' = <<>> /\ completed' = TRUE
  BY DEF Destroy, CompleteSubjects
<1>2. ASSUME NEW q \in Request PROVE Fresh(q)' /\ Follows(q)'
  <2>1. Fresh(q) /\ Follows(q) /\ Log(q)' = Log(q)
    BY <1>1 DEF FInv, Log
  <2>2. Follows(q)'
    BY <1>1, <2>1, Calm
  <2>3. QED
    BY <1>1, <2>1, <2>2 DEF Fresh
<1>3. \A q \in Request : ~ListensIn(observers', q) /\ ~ListensIn(subscribers', q)
  BY <1>1 DEF ListensIn
<1>4. QED
  BY <1>2, <1>3 DEF FInv, EarsOwn

LEMMA FInvStep == IInv /\ FInv /\ [Next]_vars => FInv'
<1> SUFFICES ASSUME IInv, FInv, [Next]_vars PROVE FInv'
  OBVIOUS
<1>1. CASE \E r \in Request : Goes(r)
  BY <1>1, GoesFollow
<1>2. CASE \E r \in Request : Tick(r) \/ Reset(r)
  BY <1>2, TickFollow, ResetFollow
<1>3. CASE Emit \/ Destroy
  BY <1>3, EmitFollow, DestroyFollow
<1>4. CASE UNCHANGED vars
  <2>1. UNCHANGED <<setup, input, stage, got, since, served, changes, observers, events,
                    subscribers, completed>>
    BY <1>4 DEF vars, requestVars, thingVars, propertyVars, eventVars
  <2>2. QED
    BY <2>1 DEF FInv, EarsOwn, ListensIn, Fresh, Follows, Follower, Subscribes, FollowsHttp,
                FollowsCoap, Untold, Log, Listens, Ears
<1>5. QED
  BY <1>1, <1>2, <1>3, <1>4 DEF Next, Goes

LEMMA InitFInv == Init => FInv
<1> SUFFICES ASSUME Init PROVE FInv
  OBVIOUS
<1>1. /\ observers = <<>> /\ subscribers = <<>> /\ served = {}
      /\ \A r \in Request : stage[r] = "unsent" /\ got[r] = <<>>
  BY DEF Init, ThingInit
<1>2. QED
  BY <1>1 DEF FInv, EarsOwn, ListensIn, Fresh, Follows, Follower

-----------------------------------------------------------------------------
(* The theorem                                                             *)

LEMMA ToldInOrder == IInv /\ FInv => EachToldInOrder
<1> SUFFICES ASSUME IInv, FInv, NEW r \in served, Subscribes(r)
             PROVE  CASE setup.binding = "http" ->
                           LET heard == Heard(r) IN
                           /\ heard = <<>> => got[r] = <<>>
                           /\ heard # <<>> /\ heard[1] # Bad => got[r] = <<heard[1]>>
                      [] setup.binding = "coap" /\ input[r].target = "event" ->
                           /\ Len(got[r]) <= Len(Heard(r))
                           /\ got[r] = SubSeq(Heard(r), 1, Len(got[r]))
                           /\ stage[r] = "open" => got[r] = Heard(r)
                      [] OTHER -> TRUE
  BY DEF EachToldInOrder, Subscribes
<1> DEFINE log == Log(r)
           heard == SubSeq(log, since[r] + 1, Len(log))
<1>1. /\ r \in Request /\ log \in Seq(Value) /\ since[r] \in Nat
      /\ got[r] \in Seq(Value)
  <2>1. r \in Request
    BY DEF IInv, Inner
  <2>2. got[r] \in Seq(Value \ {Bad})
    BY <2>1 DEF IInv, Inner
  <2>3. got[r] \in Seq(Value)
    BY <2>2
  <2>4. QED
    BY <2>1, <2>3 DEF IInv, Inner, ThingTypeOK, Log
<1>2. Heard(r) = heard
  BY DEF Heard, Log
<1>3. ASSUME Follower(r)
      PROVE  /\ heard \in Seq(Value) /\ Len(heard) = Untold(r) /\ Untold(r) \in Nat
             /\ \A j \in 1 .. Len(heard) : heard[j] = log[since[r] + j]
  <2>1. Untold(r) = Len(log) - since[r] /\ Untold(r) \in Nat
    BY <1>1, <1>3 DEF FInv, Follows, Untold
  <2> HIDE DEF log
  <2>2. Len(log) \in Nat /\ since[r] + 1 \in 1 .. Len(log) + 1
    BY <1>1, <2>1
  <2>3. /\ heard \in Seq(Value)
        /\ Len(heard) = IF since[r] + 1 <= Len(log) THEN Len(log) - (since[r] + 1) + 1 ELSE 0
        /\ \A j \in 1 .. Len(log) - (since[r] + 1) + 1 : heard[j] = log[(since[r] + 1) + j - 1]
    BY <1>1, <2>2, SubSeqProperties
  <2>4. Len(heard) = Untold(r)
    BY <1>1, <2>1, <2>2, <2>3
  <2>5. ASSUME NEW j \in 1 .. Len(heard) PROVE heard[j] = log[since[r] + j]
    <3>1. /\ j \in 1 .. Len(log) - (since[r] + 1) + 1
          /\ (since[r] + 1) + j - 1 = since[r] + j
      BY <1>1, <2>1, <2>2, <2>4
    <3>2. QED
      BY <2>3, <3>1
  <2>6. QED
    BY <2>1, <2>3, <2>4, <2>5
<1>4. CASE setup.binding = "http"
  <2>1. Follower(r) /\ FollowsHttp(r)
    BY <1>1, <1>4 DEF FInv, Follower, Follows
  <2> HIDE DEF heard
  <2>2. CASE Untold(r) = 0
    <3>1. heard = <<>> /\ got[r] = <<>>
      BY <1>3, <2>1, <2>2 DEF FollowsHttp
    <3>2. QED
      BY <1>2, <1>4, <3>1
  <2>3. CASE Untold(r) > 0
    <3>1. heard # <<>> /\ heard[1] = log[since[r] + 1]
      BY <1>3, <2>1, <2>3
    <3>2. QED
      BY <1>2, <1>4, <2>1, <2>3, <3>1 DEF FollowsHttp
  <2>4. QED
    BY <1>3, <2>1, <2>2, <2>3
<1>5. CASE setup.binding = "coap" /\ input[r].target = "event"
  <2>1. Follower(r) /\ FollowsCoap(r)
    BY <1>1, <1>5 DEF FInv, Follower, Follows
  <2>2. /\ heard \in Seq(Value) /\ Len(got[r]) <= Len(heard)
        /\ \A j \in 1 .. Len(got[r]) : got[r][j] = heard[j]
    <3> HIDE DEF heard
    <3>1. Len(got[r]) \in Nat /\ Len(got[r]) <= Len(heard) /\ Len(heard) \in Nat
      BY <1>1, <1>3, <2>1 DEF FollowsCoap
    <3>2. ASSUME NEW j \in 1 .. Len(got[r]) PROVE j \in 1 .. Len(heard)
      BY <3>1
    <3>3. \A j \in 1 .. Len(got[r]) : got[r][j] = log[since[r] + j]
      BY <2>1 DEF FollowsCoap
    <3>4. QED
      BY <1>3, <2>1, <3>1, <3>2, <3>3
  <2> HIDE DEF heard
  <2>3. got[r] = SubSeq(heard, 1, Len(got[r]))
    <3>1. /\ SubSeq(heard, 1, Len(got[r])) \in Seq(Value)
          /\ Len(SubSeq(heard, 1, Len(got[r]))) = Len(got[r])
          /\ \A j \in 1 .. Len(got[r]) : SubSeq(heard, 1, Len(got[r]))[j] = heard[j]
      BY <1>1, <2>2
    <3>2. QED
      BY <1>1, <2>2, <3>1, SeqEqual
  <2>4. stage[r] = "open" => got[r] = heard
    <3>1. stage[r] = "open" => Len(got[r]) = Len(heard)
      BY <1>3, <2>1 DEF FollowsCoap
    <3>2. QED
      BY <1>1, <2>2, <3>1, SeqEqual
  <2>5. QED
    BY <1>2, <1>5, <2>2, <2>3, <2>4
<1>6. QED
  BY <1>4, <1>5

(* observeProperty() and subscribeEvent(): a long poll ends with the first *)
(* value its subject is called with after it has arrived, and a CoAP       *)
(* subscription is told every value, in order.                             *)
THEOREM EachTold == Spec => []EachToldInOrder
<1>1. Init => FInv
  BY InitFInv
<1>2. IInv /\ FInv => EachToldInOrder
  BY ToldInOrder
<1>3. QED
  BY <1>1, <1>2, FInvStep, IInvInvariant, PTL DEF Spec
=============================================================================
