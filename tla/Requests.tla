------------------------------ MODULE Requests ------------------------------
(***************************************************************************)
(* A thing behind one protocol server, and the requests the server gets    *)
(* for it: HttpServer.handleRequest, CoapServer.handleRequest,             *)
(* FujitsuServer.handle, and the messages and calls of an MQTT broker and  *)
(* of the Oracle cloud.  Requests run concurrently.  Between a request's   *)
(* arrival and its answer lie the validation of an OAuth token, the rest   *)
(* of the body, the promise of a handler the script has set, and, for a    *)
(* long poll or an observation, the notifications it waits for.            *)
(*                                                                         *)
(* Response codes are named by their meaning; HTTP and CoAP differ in the  *)
(* numbers only.                                                           *)
(***************************************************************************)
EXTENDS ExposedThing, FiniteSets

CONSTANTS
    Request,   \* numbered in the order of arrival
    Setup,     \* [binding, security, readOnly, variables, read, write]: a server and a
               \* thing, and whether its interactions have uriVariables
    Input,     \* by request, [method, target, query, content, auth]: what a client may send
    MaxEvents, \* bound: events the script emits
    MaxReads   \* bound: readings a CoAP observation sends

Unsupported == -1   \* stands for a body whose media type has no codec

ASSUME RequestAssumption == Request \subseteq Nat /\ Listener = Request
ASSUME SetupAssumption ==
    Setup \subseteq [binding : {"http", "coap", "fujitsu", "mqtt", "oracle"},
                     security : {"none", "nosec", "basic", "digest", "oauth2", "bearer"},
                     readOnly : BOOLEAN,
                     variables : BOOLEAN,
                     read : {"none", "promise"},
                     write : {"none", "value", "promise"}]
ASSUME InputAssumption ==
    Input \in [Request -> SUBSET [method : {"GET", "PUT", "POST", "DELETE", "OPTIONS"},
                     target : {"undecodable", "list", "thing", "all", "property",
                               "observe", "action", "event", "eventRead",
                               "eventCancel", "other"},
                     query : {"none", "malformed"},
                     content : Value \cup {Unsupported},
                     auth : {"none", "wrong", "right"}]]

Code == {"ok", "badRequest", "unauthorized", "notFound", "notAllowed",
         "unsupported", "error", "notImplemented"}
Stage == {"unsent", "checking", "loading", "called", "open", "reading", "done", "lost"}
NoInput == [method |-> "none"]

VARIABLES
    setup,      \* the server and the thing of this behaviour
    registered, \* the server's map of things holds the thing
    input,      \* what each request asks for
    stage,      \* how far its handling has got
    answer,     \* the code it was answered with, "none" before
    got,        \* the values its client has received, in order
    since,      \* length of the subject's log when it subscribed
    known,      \* the thing was registered when it arrived
    served,     \* requests an operation of the thing was called for
    token,      \* what the introspection endpoint said of its token
    ticking     \* CoAP observations whose interval has not been cleared

requestVars == <<registered, input, stage, answer, got, since, known, served, token, ticking>>
vars == <<setup, thingVars, requestVars>>

\* The constructor of HttpServer stores the scheme of its configuration, and
\* throws for any other one.
HttpSecurityScheme(scheme) ==
    CASE scheme \in {"none", "nosec"} -> "NoSec"
      [] scheme = "basic" -> "Basic"
      [] scheme = "digest" -> "Digest"
      [] scheme = "bearer" -> "Bearer"
      [] scheme = "oauth2" -> "OAuth"

Configured == {[s EXCEPT !.security = HttpSecurityScheme(@)] : s \in Setup}

Init ==
    /\ setup \in Configured
    /\ ThingInit
    /\ registered = TRUE
    /\ input = [r \in Request |-> NoInput]
    /\ stage = [r \in Request |-> "unsent"]
    /\ answer = [r \in Request |-> "none"]
    /\ got = [r \in Request |-> <<>>]
    /\ since = [r \in Request |-> 0]
    /\ known = {} /\ served = {} /\ ticking = {}
    /\ token = [r \in Request |-> "unseen"]

\* HTTP listeners call writeHead(500) behind writeHead(200), which throws.
Throws(v) == setup.binding = "http" /\ v = Bad

----------------------------------------------------------------------------
\* How handlers move on, leaving alone what they do not name.

At(r, s) == stage' = [stage EXCEPT ![r] = s]

Reply(r, code) ==
    /\ At(r, "done")
    /\ answer' = [answer EXCEPT ![r] = code]
    /\ UNCHANGED <<got, since, served, ticking, thingVars>>

ReplyValue(r, v) ==
    /\ At(r, "done") /\ served' = served \cup {r}
    /\ answer' = [answer EXCEPT ![r] = IF v = Bad THEN "error" ELSE "ok"]
    /\ got' = IF v = Bad THEN got ELSE [got EXCEPT ![r] = Append(@, v)]
    /\ UNCHANGED <<since, ticking, thingVars>>

\* A promise of the script's handler is awaited.
Call(r) ==
    /\ At(r, "called") /\ served' = served \cup {r}
    /\ UNCHANGED <<answer, got, since, ticking, thingVars>>

Wait(r, s) == At(r, s) /\ UNCHANGED <<answer, got, since, served, ticking, thingVars>>

Subscribed(r, s, log) ==
    /\ At(r, s)
    /\ since' = [since EXCEPT ![r] = Len(log)]
    /\ served' = served \cup {r}
    /\ UNCHANGED <<answer, got, ticking>>

\* Those who get a notification of v: an HTTP response ends with its first
\* value, a CoAP one is written to until a value cannot be converted.  When
\* the first listener throws, none gets it.
Told(listeners, v) ==
    {r \in Request : /\ stage[r] = "open" /\ ~Throws(v)
                     /\ \E i \in DOMAIN listeners : listeners[i] = r}

AnswerToOpen(told, r, v) ==
    IF r \in told /\ v = Bad THEN "error" ELSE answer[r]

AnswerTo(told, r, v) ==
    IF r \notin told THEN answer[r]
    ELSE IF v = Bad THEN "error"
    ELSE IF setup.binding = "http" THEN "ok" ELSE "none"

DeliverAll(told, v) ==
    got' = [r \in Request |-> IF r \in told THEN Append(got[r], v) ELSE got[r]]

Deliver(told, v) ==
    got' = [r \in Request |-> IF r \in told /\ v # Bad THEN Append(got[r], v) ELSE got[r]]

\* Whoever has been answered is done.
Finish == stage' = [r \in Request |-> IF answer'[r] # answer[r] THEN "done" ELSE stage[r]]

\* writeProperty() ends with the value to store.  When a listener throws, the
\* value is kept and the promise is rejected all the same.
Written(r, v) ==
    LET told == IF Notifies(v) THEN Told(observers, v) ELSE {}
        thrown == Notifies(v) /\ Throws(v) /\ observers # <<>>
    IN /\ Store(v, Throws(v))
       /\ Deliver(told, v)
       /\ answer' = [q \in Request |-> IF q # r THEN AnswerTo(told, q, v)
                                       ELSE IF thrown THEN "error" ELSE "ok"]
       /\ Finish
       /\ served' = served \cup {r}
       /\ UNCHANGED <<since, ticking>>

----------------------------------------------------------------------------
\* Access control of HttpServer.

\* checkCredentials() of the schemes that are decided at once; the servient
\* keeps the credentials a client has to present.
CheckCredentials(auth) ==
    \/ setup.security = "NoSec"
    \/ setup.security \in {"Basic", "Bearer"} /\ auth = "right"

\* EndpointValidator.validate(): a request without a token, an endpoint that
\* fails or an answer without "active" throws; an inactive token or one for
\* other scopes or clients is refused.
Introspection == {"throws", "refused", "active"}
Validate(auth) == IF auth = "none" THEN {"throws"} ELSE Introspection

----------------------------------------------------------------------------
\* The operations a request comes to, in all bindings.

Read(r) == IF setup.read = "none" THEN ReplyValue(r, value) ELSE Call(r)

\* readAllProperties() of a thing with one property.
ReadAll(r) == Read(r)

Write(r, i) ==
    IF i.content = Bad THEN Reply(r, "badRequest")
    ELSE IF setup.write = "promise" THEN Call(r)
    ELSE \E v \in StoredBy(setup.write, i.content) : Written(r, v)

Invoke(r, i) == IF i.content = Bad THEN Reply(r, "badRequest") ELSE Call(r)

----------------------------------------------------------------------------
\* HttpServer.handleRequest

\* A CORS preflight request is answered wherever the path is correct.
RespondUnallowedMethod(i) == IF i.method = "OPTIONS" THEN "ok" ELSE "notAllowed"
GetOnly(i) == IF i.method = "GET" THEN "ok" ELSE RespondUnallowedMethod(i)

\* The answer that is due before the path reaches an interaction.
HttpRoute(i) ==
    IF i.method \in {"PUT", "POST"} /\ i.content = Unsupported THEN "unsupported"
    ELSE IF i.target = "undecodable" THEN "badRequest"
    ELSE IF i.target = "list" THEN GetOnly(i)
    ELSE IF ~registered THEN "notFound"
    ELSE IF i.target = "thing" THEN GetOnly(i)
    ELSE "none"

\* parseUrlParameters() throws where decodeURIComponent() cannot undo an escape
\* of the query, and nothing catches it: the request gets no answer.
ParseThrows(i) == setup.variables /\ i.query = "malformed"

\* GET .../properties/p reads or, with /observable behind it, opens a long poll.
HttpParsed(r, i) ==
    CASE i.method = "GET" /\ i.target = "property" -> Read(r)
      [] i.method = "GET" /\ i.target = "observe" ->
           ObserveProperty(r) /\ Subscribed(r, "open", changes)
      [] i.method = "PUT" ->
           IF setup.readOnly THEN Reply(r, "badRequest") ELSE Wait(r, "loading")
      [] OTHER -> Reply(r, RespondUnallowedMethod(i))

HttpProperty(r, i) == IF ParseThrows(i) THEN Wait(r, "lost") ELSE HttpParsed(r, i)

HttpAction(r, i) ==
    IF i.method = "POST" THEN Wait(r, "loading")
                         ELSE Reply(r, RespondUnallowedMethod(i))

\* The status is written before the query is parsed.
HttpEvent(r, i) ==
    IF i.method # "GET" THEN Reply(r, RespondUnallowedMethod(i))
    ELSE IF ParseThrows(i) THEN Wait(r, "lost")
    ELSE SubscribeEvent(r) /\ Subscribed(r, "open", events)

HttpServe(r, i) ==
    CASE i.target = "all" ->
           IF i.method = "GET" THEN ReadAll(r) ELSE Reply(r, RespondUnallowedMethod(i))
      [] i.target \in {"property", "observe"} -> HttpProperty(r, i)
      [] i.target = "action" -> HttpAction(r, i)
      [] i.target \in {"event", "eventRead", "eventCancel"} -> HttpEvent(r, i)
      [] OTHER -> Reply(r, "notFound")

HttpRequestNoAwait(r, i) ==
    IF HttpRoute(i) # "none" THEN Reply(r, HttpRoute(i))
    ELSE IF setup.security = "OAuth" \/ CheckCredentials(i.auth) THEN HttpServe(r, i)
    ELSE Reply(r, "unauthorized")

HttpRequest(r, i) ==
    IF HttpRoute(i) # "none" THEN Reply(r, HttpRoute(i))
    ELSE IF setup.security = "OAuth" THEN Wait(r, "checking")
    ELSE IF CheckCredentials(i.auth) THEN HttpServe(r, i)
    ELSE Reply(r, "unauthorized")

CheckedUncaught(r) ==
    /\ stage[r] = "checking"
    /\ \E answered \in Validate(input[r].auth) :
        /\ token' = [token EXCEPT ![r] = answered]
        /\ CASE answered = "active" -> HttpServe(r, input[r])
             [] answered = "refused" -> Reply(r, "unauthorized")
             [] OTHER -> Wait(r, "lost")
    /\ UNCHANGED <<setup, registered, input, known>>

\* checkCredentials() has validated the token.  The thing was looked up
\* before and is served even when it has been destroyed meanwhile.
Checked(r) ==
    /\ stage[r] = "checking"
    /\ \E answered \in Validate(input[r].auth) :
        /\ token' = [token EXCEPT ![r] = answered]
        /\ IF answered = "active" THEN HttpServe(r, input[r]) ELSE Reply(r, "unauthorized")
    /\ UNCHANGED <<setup, registered, input, known>>

\* The query of an invocation is parsed when its body has been converted.
HttpInvoke(r, i) ==
    IF i.content # Bad /\ ParseThrows(i) THEN Wait(r, "lost") ELSE Invoke(r, i)

\* The body of a PUT or POST is complete.
Loaded(r) ==
    /\ stage[r] = "loading"
    /\ IF input[r].method = "PUT" THEN Write(r, input[r]) ELSE HttpInvoke(r, input[r])
    /\ UNCHANGED <<setup, registered, input, known, token>>

----------------------------------------------------------------------------
\* CoapServer.handleRequest

CoapGetOnly(i) == IF i.method = "GET" THEN "ok" ELSE "notAllowed"

CoapRoute(i) ==
    IF i.method \in {"PUT", "POST"} /\ i.content = Unsupported THEN "unsupported"
    ELSE IF i.target = "list" THEN CoapGetOnly(i)
    ELSE IF ~registered THEN "notFound"
    ELSE IF i.target = "thing" THEN CoapGetOnly(i)
    ELSE "none"

\* An observation reads the property ten times a second.
CoapProperty(r, i) ==
    CASE i.method = "GET" /\ i.target = "property" -> Read(r)
      [] i.method = "GET" /\ i.target = "observe" ->
           /\ At(r, "reading") /\ ticking' = ticking \cup {r}
           /\ UNCHANGED <<answer, got, since, served, thingVars>>
      [] i.method = "PUT" ->
           IF setup.readOnly THEN Reply(r, "badRequest") ELSE Write(r, i)
      [] OTHER -> Reply(r, "notAllowed")

CoapAction(r, i) ==
    IF i.method = "POST" THEN Invoke(r, i) ELSE Reply(r, "notAllowed")

\* Observe: 0 subscribes, a larger value cancels, none is a plain read.
CoapEvent(r, i) ==
    CASE i.method # "GET" -> Reply(r, "notAllowed")
      [] i.method = "GET" /\ i.target = "event" ->
           SubscribeEvent(r) /\ Subscribed(r, "open", events)
      [] i.method = "GET" /\ i.target = "eventCancel" -> Reply(r, "notImplemented")
      [] i.method = "GET" /\ i.target = "eventRead" -> Reply(r, "badRequest")

\* A path that cannot be decoded throws behind the check of the media type.
CoapUndecodable(i) == i.target = "undecodable" /\ CoapRoute(i) # "unsupported"

CoapRequest(r, i) ==
    CASE CoapUndecodable(i) -> Wait(r, "lost")
      [] ~CoapUndecodable(i) /\ CoapRoute(i) # "none" -> Reply(r, CoapRoute(i))
      [] OTHER ->
           CASE i.target \in {"property", "observe"} -> CoapProperty(r, i)
             [] i.target = "action" -> CoapAction(r, i)
             [] i.target \in {"event", "eventRead", "eventCancel"} -> CoapEvent(r, i)
             [] OTHER -> Reply(r, "notFound")

\* 'finish' clears the interval, but the handler that does so is only set by
\* a read that succeeded.
FinishedSilently(r) == UNCHANGED ticking

Finished(r) == ticking' = IF got[r] # <<>> THEN ticking \ {r} ELSE ticking

\* The interval of an observation fires and the property is read.
Tick(r) ==
    /\ r \in ticking /\ stage[r] = "reading" /\ Len(got[r]) < MaxReads
    /\ \E v \in IF setup.read = "none" THEN {value} ELSE Value :
        IF v = Bad
        THEN /\ At(r, "done") /\ answer' = [answer EXCEPT ![r] = "error"]
             /\ Finished(r) /\ UNCHANGED got
        ELSE /\ got' = [got EXCEPT ![r] = Append(@, v)]
             /\ UNCHANGED <<stage, answer, ticking>>
    /\ served' = served \cup {r}
    /\ UNCHANGED <<setup, thingVars, registered, input, since, known, token>>

\* A CoAP client resets an observation.
Reset(r) ==
    /\ setup.binding = "coap" /\ stage[r] \in {"open", "reading"}
    /\ At(r, "done") /\ Finished(r) /\ Unsubscribe
    /\ UNCHANGED <<setup, registered, input, answer, got, since, known, served, token>>

----------------------------------------------------------------------------
\* FujitsuServer.handle.  Nothing is replied where an operation fails or the
\* interaction is not known, and property.write is not a function.

FujitsuRead(r) ==
    IF setup.read = "none" /\ value = Bad THEN Wait(r, "lost") ELSE Read(r)

FujitsuRequest(r, i) ==
    CASE ~registered -> Reply(r, "notFound")
      [] registered /\ i.method \notin {"GET", "PUT", "POST"} -> Reply(r, "notAllowed")
      [] registered /\ i.method = "GET" /\ i.target = "property" -> FujitsuRead(r)
      [] registered /\ i.method = "POST" /\ i.target = "action" /\ i.content # Bad -> Call(r)
      [] OTHER -> Wait(r, "lost")

----------------------------------------------------------------------------
\* The listener that MqttBrokerServer.expose() adds for messages.  The topics it
\* has subscribed to begin with the name of the thing, and the listener looks
\* for the name in the second segment.  No message is answered.
MqttTopic(i) ==
    IF i.target = "action" THEN <<"thing", "actions", "action">>
                           ELSE <<"thing", "properties", "property", "writeproperty">>

IsInvocation(topic) == Len(topic) = 4 /\ topic[2] = "thing" /\ topic[3] = "actions"
IsWrite(topic) == Len(topic) = 5 /\ topic[5] = "writeproperty"
                    /\ topic[2] = "thing" /\ topic[3] = "properties"

MqttMessage(r, i) ==
    LET topic == MqttTopic(i) IN
    IF registered /\ (IsInvocation(topic) \/ (IsWrite(topic) /\ ~setup.readOnly))
    THEN Call(r) ELSE Wait(r, "lost")

\* OracleServer.startDevice() has the cloud call the read(), write() and
\* invoke() of the interactions, which are no functions.
OracleCall(r, i) == Wait(r, "lost")

----------------------------------------------------------------------------
\* A request arrives; its thing is looked up now.
Receive(r) ==
    /\ stage[r] = "unsent"
    /\ \A q \in Request : q < r => stage[q] # "unsent"
    /\ \E i \in Input[r] :
        /\ input' = [input EXCEPT ![r] = i]
        /\ CASE setup.binding = "http" -> HttpRequest(r, i)
             [] setup.binding = "coap" -> CoapRequest(r, i)
             [] setup.binding = "fujitsu" -> FujitsuRequest(r, i)
             [] setup.binding = "mqtt" -> MqttMessage(r, i)
             [] setup.binding = "oracle" -> OracleCall(r, i)
    /\ known' = IF registered THEN known \cup {r} ELSE known
    /\ UNCHANGED <<setup, registered, token>>

\* A rejected promise is a 500 over HTTP and CoAP, and no reply over Fujitsu's.
Rejected(r) == IF setup.binding = "fujitsu" THEN Wait(r, "lost") ELSE Reply(r, "error")

\* The promise of the handler a request waits for is settled.
ReadSettles(r) ==
    /\ stage[r] = "called" /\ input[r].method = "GET"
    /\ \/ Rejected(r)
       \/ \E v \in Value : IF v = Bad THEN Rejected(r) ELSE ReplyValue(r, v)
    /\ UNCHANGED <<setup, registered, input, known, token>>

WriteSettlesFirst(r) ==
    /\ stage[r] = "called" /\ input[r].method = "PUT"
    /\ \/ \E v \in Value : Written(r, v)
       \/ /\ At(r, "done") /\ answer' = [answer EXCEPT ![r] = "error"]
          /\ Store(input[r].content, FALSE)
          /\ UNCHANGED <<got, since, served, ticking>>
    /\ UNCHANGED <<setup, registered, input, known, token>>

WriteSettles(r) ==
    /\ stage[r] = "called" /\ input[r].method = "PUT"
    /\ Rejected(r) \/ \E v \in Value : Written(r, v)
    /\ UNCHANGED <<setup, registered, input, known, token>>

\* The output of an action is Bad when it cannot be converted.
ActionSettles(r) ==
    /\ stage[r] = "called" /\ input[r].method = "POST"
    /\ Rejected(r) \/ Reply(r, "ok")
    /\ UNCHANGED <<setup, registered, input, known, token>>

Settles(r) == ReadSettles(r) \/ WriteSettles(r) \/ ActionSettles(r)

\* The script emits the event.
Emit ==
    /\ Len(events) < MaxEvents /\ ~completed
    /\ \E data \in Value :
        LET told == Told(subscribers, data) IN
        /\ EmitEvent(data, Throws(data))
        /\ Deliver(told, data)
        /\ answer' = [r \in Request |-> AnswerTo(told, r, data)]
        /\ Finish
    /\ UNCHANGED <<setup, registered, input, since, known, served, token, ticking>>

\* ExposedThing.destroy(): the server forgets the thing, then the subjects
\* complete.
Destroy ==
    /\ registered
    /\ registered' = FALSE
    /\ CompleteSubjects
    /\ UNCHANGED <<setup, input, stage, answer, got, since, known, served, token, ticking>>

Next ==
    \/ \E r \in Request : \/ Receive(r) \/ Checked(r) \/ Loaded(r) \/ Settles(r)
                          \/ Tick(r) \/ Reset(r)
    \/ Emit
    \/ Destroy

Spec == Init /\ [][Next]_vars

\* Introspection endpoints answer or fail, bodies end, and the handlers of a
\* script settle the promises they return.  It is enough that one of them does
\* as long as there are any.
FairSpec ==
    Spec /\ WF_vars(\E r \in Request : Checked(r) \/ Loaded(r) \/ Settles(r))

----------------------------------------------------------------------------
\* Every variable has its type.
TypeOK ==
    /\ setup \in Configured /\ ThingTypeOK /\ registered \in BOOLEAN
    /\ \A r \in Request : input[r] \in Input[r] \cup {NoInput}
    /\ stage \in [Request -> Stage]
    /\ answer \in [Request -> Code \cup {"none"}]
    /\ got \in [Request -> Seq(Value \ {Bad})]
    /\ since \in [Request -> Nat]
    /\ known \subseteq Request /\ served \subseteq Request /\ ticking \subseteq Request
    /\ token \in [Request -> Introspection \cup {"unseen"}]
    /\ \A r \in Request : answer[r] # "none" => stage[r] = "done"

\* handleRequest(): no operation of a thing is called for a request that came
\* after destroy(), nor over HTTP for one whose credentials do not hold, while
\* its own token is still being validated or whatever else goes on meanwhile.
OnlyDueRequestsServed == \A r \in served :
    /\ r \in known
    /\ setup.binding = "http" =>
         CASE setup.security = "NoSec" -> TRUE
           [] setup.security = "Digest" -> FALSE
           [] setup.security = "OAuth" -> token[r] = "active"
           [] OTHER -> input[r].auth = "right"

\* PropertyState: what the subject was last called with is the value a read
\* returns, and no value is told twice in a row, whatever the write handlers
\* return and in whatever order they do.
ChangesTrackValue ==
    /\ ~completed /\ changes # <<>> => changes[Len(changes)] = value
    /\ \A i \in 1..Len(changes) - 1 : changes[i] # changes[i + 1]

\* What the subject r listens to was called with since r subscribed.
Heard(r) ==
    LET log == IF input[r].target = "observe" THEN changes ELSE events
    IN SubSeq(log, since[r] + 1, Len(log))

\* observeProperty() and subscribeEvent(): a long poll ends with the first
\* value after its arrival, and a CoAP subscription gets every value, in
\* order, up to one that cannot be converted.
EachToldInOrder == \A r \in served :
    input[r].method = "GET" /\ input[r].target \in {"observe", "event"} /\ r \notin ticking =>
        CASE setup.binding = "http" ->
               LET heard == Heard(r) IN
               /\ heard = <<>> => got[r] = <<>>
               /\ heard # <<>> /\ heard[1] # Bad => got[r] = <<heard[1]>>
          [] setup.binding = "coap" /\ input[r].target = "event" ->
               /\ Len(got[r]) <= Len(Heard(r))
               /\ got[r] = SubSeq(Heard(r), 1, Len(got[r]))
               /\ stage[r] = "open" => got[r] = Heard(r)
          [] OTHER -> TRUE

\* CoapServer: an observation that was finished after it was read once does
\* not go on reading the property.
FinishedObservationsStop == \A r \in ticking : stage[r] = "done" => got[r] = <<>>

\* writeProperty(): a write that is answered with an error has not changed
\* the property, unless to a value that cannot be sent to the listeners.
FailedWriteKeepsValue == [][\A r \in Request :
    input[r].method = "PUT" /\ answer[r] = "none" /\ answer'[r] = "error"
        => value' \in {value, Bad}]_vars

\* handleRequest(): whatever the checks, the codecs and the handlers do, no
\* request waits for one of them for good, and one of an HTTP or CoAP client that
\* no longer waits has been answered, but for one whose query cannot be decoded
\* and whose interaction has uriVariables: it is never answered, and no operation
\* is called for it.  Requests are bounded, so it is enough that again and again
\* none waits.
Waits(r) == stage[r] \in {"checking", "loading", "called"}
Unanswered(r) == stage[r] = "lost" /\ ParseThrows(input[r]) /\ r \notin served
Answered(r) ==
    answer[r] # "none" \/ stage[r] = "open" \/ setup.binding = "fujitsu" \/ Unanswered(r)

EveryRequestAnswered ==
    /\ []<>(\A r \in Request : ~Waits(r))
    /\ [][\A r \in Request : Waits(r) /\ ~Waits(r)' => Answered(r)']_vars
=============================================================================
