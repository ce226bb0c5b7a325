# A TLA+ model of node-wot with the Tuya binding

node-wot is a Web of Things runtime in TypeScript: a *Servient* runs scripts that
produce and expose Things, protocol *servers* make them reachable and protocol
*clients* reach the Things of others. All paths below are relative to
`src/packages/`.

Everything runs on one event loop. There are no threads and no shared memory, so an
**action** of a module is what the code does between two points where it gives the loop
back (an `await`, a `then`, a callback, a timer). The hard behaviours come from those
points: state that is read before one and used after it, two callers that both find
something missing, answers in another order than the requests, a timer that fires
during a call.

## Inventory

| Part (source) | State | Operations and partners | What is hard |
|---|---|---|---|
| Modbus connection (`binding-modbus/src/modbus-connection.ts`) | socket, `connecting`, idle timer, queue of transactions, current transaction | `enqueue`, `connect`, `trigger`, `execute`, `modbusstop`; called by ModbusClient, calls modbus-serial | combination and serialization, connect loops that overlap, retries, the idle timer, requests that nobody triggers |
| Modbus client (`modbus-client.ts`) | connections per host, polling subscriptions | read, write, invoke, subscribe, unlink | polls that overlap or answer after unsubscribe |
| HTTP client credentials (`binding-http/src/credential.ts`, `oauth-manager.ts`, `http-client.ts`) | token, its expiry, its promise | `sign`, `refreshToken`, fetch with one retry | concurrent fetches and refreshes of a shared token, expiry, failures |
| HTTP subscriptions (`subscription-protocols.ts`) | `closed`, event source | open, close | messages that arrive while closing, `complete()` after every message |
| Servient (`core/src/servient.ts`, `wot-impl.ts`) | things, servers, client factories, credentials | produce, expose, destroy, addServer, start, shutdown; calls ExposedThing and every server | any order of these calls; a loop over servers or things that fails half-way |
| HTTP server (`http-server.ts`) | routing table, port | start, stop, expose, destroy; requests | routing table and forms kept together; things that go while a request waits for its credentials; long polls |
| ExposedThing (`core/src/exposed-thing.ts`) | values, handlers, subjects | read, write, invoke, observe, emit, expose, destroy | asynchronous handlers, listeners that throw, subscriptions that never end |
| ConsumedThing (`core/src/consumed-thing.ts`) | cache of clients | choice of client and form, all interactions | cached client and chosen form that do not belong together |
| CoAP, MQTT, WebSocket, Fujitsu, Oracle servers | routing tables, broker or socket | the ProtocolServer interface | destroy that forgets too much or too little, promises that never settle |
| OPC UA and NETCONF clients | one session or router | open on demand, call | two calls that both open it |
| MQTT, CoAP, file and WebSocket clients | little or none | the ProtocolClient interface | subscriptions that end after the client has |
| Content codecs, TD tools | none that changes | conversions of data | both directions of a conversion written apart; server and client that never met agree on forms |
| Command line | none that changes | start-up | nothing concurrent |

Correctness, per part:

- *Modbus*: one transaction at a time, first come first served; every request is
  settled, with its own registers; a request that was rejected is not sent.
- *HTTP credentials*: a request is never sent without a token or with one that is known
  to have expired; a retry carries a newer token than the refused one; every call
  settles.
- *Servient and servers*: what a server routes to is registered; what a thing's form
  promises is what its server does; the subscribers of a destroyed thing are told; every
  promise the Servient waits for is settled.
- *ExposedThing and requests*: listeners see the values in the order they were stored; a
  write that failed changed nothing; only requests that are due reach a thing, and every
  request is answered.
- *ConsumedThing*: form and client belong together, and the client has the thing's
  security; a subscription that is over stays over; calls settle.
- *Sessions*: a request goes over one session that was open by then.
- *Conversions*: a value that is written comes back or is refused; a form that a server
  wrote leads a client to the operation it names; parsing is stable.

## Modules

| Module | Models |
|---|---|
| `ModbusConnection` | one connection with its queue, its transactions, its connect loops, the idle timer and the socket |
| `HttpClient` | one client with a Tuya or an OAuth credential, the calls that share it, the authorization server and the service |
| `Servient` | things, their ids and forms, HTTP servers and their routing tables |
| `ExposedThing` | a property, an event, their subjects and listeners (operations, no `Next`) |
| `Requests` | extends `ExposedThing` by a server of five kinds and the concurrent requests it handles |
| `Servers` | the ProtocolServer interface of the servers other than the HTTP server, and the channels events go out on |
| `Subscription` | abstract: what a script may expect of a subscription |
| `Subscriptions` | `subscribeResource()` and `unlinkResource()` of seven clients (operations, no `Next`) |
| `ConsumedThing` | extends `Subscriptions` by the calls of one thing; implements `Subscription` |
| `OnDemandSession` | abstract: what a client promises that opens its session with the first request |
| `Sessions` | the OPC UA and NETCONF clients; implements `OnDemandSession` |
| `OctetstreamCodec`, `Serdes` | the codecs and the choice between them |
| `Descriptions`, `Forms` | parser, serializer and transformer; forms, requests and routes |
| `Conversions` | the ways a value, a thing, a form and a description take through the four modules above |
| `...Proofs` | the theorems about `ModbusConnection`, `Servient`, `HttpClient`, `Sessions`, `Servers`, `ConsumedThing`, `Requests` and `Conversions` |
| `MC...` | constants for TLC |

### ModbusConnection

A request is made with one of `Forms`. A register is its address, and the value a
request wants in a register is the pair of both, so a property can say whose value
went where. `queue`, `busy` (`currentTransaction # null`), `isOpen`, `connecting` and
`timer` are the fields of the class. The code has no list of its connect loops, they are
suspended `connect()` calls; `dialing[r]` and `backoff[r]` count those inside
`connectTCP` and inside the sleep after attempt `r`. `wire` holds the transactions
inside a call to the client; `got` and `landed` say what a read was answered with and
what the device was told.

`Request` is `performOperation()` with `enqueue()` and `trigger()`; `Trigger` is an
operator, because it ends most actions: it dials, starts the next transaction or does
nothing. `ConnectDone`, `ConnectFailed` and `Redial` are the three ways a connect loop
goes on, `GiveUp` is the `catch` of `trigger()`. `Answer` and `CallFails` are
`ModbusTransaction.execute()` with the continuation in `trigger()`. `IdleTimeout`,
`Stop`, `Closed` and `Disconnect` are the ends of a socket. Only `Disconnect` is not code
of the repository.

Values are not turned into bytes: the reversal of registers and of coil bytes is
modelled, the swap inside a register is not. Timeouts have no length; any timer may fire
at any time after it was set. `Answer` reports success of a whole transaction;
`CallFails` covers errors, the client's timeout and refused writes, with and without
effect on the device.

### HttpClient

`stage[c]` is where call `c` waits: `signing` for a token, `sent` for the answer,
`refreshing` for a token after a 401, `resent` for the answer to the retry. Tokens are
numbered in the order they are issued. `promise` is the promise that
`OAuthManager` puts into a new credential; it is kept or broken at any time.
`Issue` and `TokenArrives` are two actions, so answers to token requests may overtake
each other. `Revoke` lets the service refuse any token at any time, `Tick` lets Tuya
tokens expire. A Tuya credential asks again when it finds no token or an expired one;
an OAuth credential is replaced after a 401, once per call.

Basic, bearer and API key credentials never change; which one a client signs with is in
`Forms`. The computation of Tuya's signature is left out.

### Servient

A thing is an ExposedThing object, numbered in the order of production, because two of
them may have had the same id one after the other. A slug is the slugified title of an
id, taken apart into its stem and the number behind its last underscore (`NoNumber` if
there is none; two numbers that differ in leading zeros only are one). A path is a slug, or what
`generateUniqueName()` makes of it: the number is counted on, and a name without one gets
`_2`. So `foo` exposed twice and `foo_2` meet at one path. The forms of a thing are the pairs
of server and path their hrefs are made of. `expose()`, `destroy()` and `addServer()` call
the servers in one go, so each is one action; `Destroyed` is the continuation of
`ExposedThing.destroy()` after all servers have answered.

`AddServer` follows the loop over the registered things, whose `Tables` are the routing
table before and after each of them: a server that listens already
takes the path of a thing first and then fails with a TypeError in `addEndpoint()` if
the thing's interactions have no array of forms yet. The server is then not added, but
keeps the paths it took. The servers in `Https` fill in a security scheme (https without a
`baseUri`), which throws for a thing whose security they do not support, behind the
routing table and the forms: `Expose` then leaves out the servers behind it (`Reached`, in
an order that is left open), and `AddServer` ends at that thing.

Not in the model: what a script may do to an ExposedThing after its `destroy()`, and
adding a server again for which `addServer()` threw. `expose()` is one step for all the
servers: the things it does between them are its own calls.

### ExposedThing and Requests

`ExposedThing` keeps the value of a property and, for each subject, the log of what it
was called with and its listeners. A value `Bad` stands for one that no codec can
convert. With rxjs 5, which this code uses, a listener that throws leaves its subject,
the ones behind it are not told, and the exception comes out of `next()`: that is what
`LeftBehind` and the parameter `throws` do. `unobserveProperty()` and
`unsubscribeEvent()` look a subject up and do nothing.

`Requests` puts one thing behind a server. `setup` is the server, the security of the
thing and the handlers its script has set; `Receive` is the synchronous part of the
handler of the binding, and `Checked` (an OAuth token was introspected), `Loaded` (the
body of a PUT or POST is complete), `Settles` (the promise of a script's handler) and
`Tick` (the interval of a CoAP observation) are its continuations. `Emit` and `Destroy`
are the script's. A request is `lost` where the code replies nothing.

What the translation shows of the code, and the properties take into account:

- The thing is looked up before the credentials are awaited: a thing that is destroyed
  meanwhile is still served, and only `known`, not `registered`, is required of a
  request that is served.
- `parseUrlParameters()` throws for a query like `?x=%zz` when the interaction has
  uriVariables: behind an `await` for a property or an event (whose status is written by
  then), in the listener of `end` for an action. Nothing catches it and the request is never
  answered. Behind the `await` that is a rejected promise; in a listener it is an uncaught
  exception, which ends the process unless the program around the servient handles it. In
  the model the request is `lost` and everything else goes on, as in a program that does.
  The same holds for a CoAP path that cannot be decoded, when its media type is supported. `EveryRequestAnswered` names the malformed
  queries as its exception and asks that no operation was called for them.
- Finished long polls stay listeners, because `unobserveProperty()` removes none; they are
  written to again, which changes nothing for their clients.
- A long poll whose value does not convert calls `writeHead(500)` behind
  `writeHead(200)`, which throws: a write that caused the notification is reported as
  failed, and its value stays.
- A CoAP observation that ends before it was read once goes on polling the property,
  because the handler that clears the interval is set by the first read.
- `property.write` is not a function in FujitsuServer, nor are `read`, `write` and
  `invoke` in OracleServer, so these requests are `lost`.
- A message that comes in over MQTT never reaches the thing: topics have three or four
  segments and begin with the name of the thing; the handler expects four or five
  segments and the name in the second one.

### Servers

One behaviour has one server: CoAP, MQTT with and without a broker, a WebSocketServer of
its own or on an HttpServer, Fujitsu or Oracle. `table` is its map from names to things,
`phase` and `stop` how far `start()` and `stop()` have got, `exposing` and `told` what
has become of the promises of `expose()` and `destroy()`. A channel is a WebSocket
connection, or the topic one `expose()` call makes a listener publish to; `heard` says
which events it carried.

`WebSocketServer.destroy()` does not look at the id: it forgets the names of all things
and keeps their socket servers, so a destroyed thing can be connected to, which
`DestroyedNotReached` leaves out. `stop()` of a server on an HttpServer never settles,
nor does `expose()` of an Oracle server that is not activated or fails behind the device
model. `FujitsuServer.stop()` waits for the event `close` of its WebSocket, which comes no
more when the cloud or the network has closed it (`Lose`) or it never opened: `stop` is then
`unsettled`. `EveryPromiseSettles` names these cases and demands the others. `Stop` is only
taken once `start()` has settled: a program that shuts down a servient it has not started yet
is not in the model. An event that does not convert calls `ws.close(-1)`, which throws in the first listener
whose connection is not closed yet (`EmitBad`).

### Subscription, Subscriptions and ConsumedThing

`Start` is a call of a script: `Chosen` and `FindForm` are `getClientFor()` and
`findForm()`, `KeepClient` the cache of clients with `ensureClientSecurity()`, `Send`
the client's method. What a remote thing does with a read, a write or an invocation is a
set of outcomes (`Answers`): whether the thing carried it out, and how the promise
settles. `StartMultiple` starts the loop of `readMultipleProperties()`, which `Start`
goes through before anything else may happen; `SettleMultiple` is its `Promise.all()`.

`Subscriptions` has what follows a subscription, by client: long polls that are asked
again, pushes that come by themselves, Modbus intervals that fire while a read is under
way, an MQTT broker that connects, is lost and fails. `reads` counts the requests under
way, `closed` remembers whose `close()` was called and `registry` is the map by which
`unlinkResource()` finds a subscription.

The refinement maps `link`, `closed` and `reads` to the three phases of `Subscription`:
off, on, over. A subscription over Modbus is over when its last read has been answered,
because such an answer is still told; every other one when it has been closed.

What the translation shows: with a `formIndex` a new client is used that was not given
the security of the thing; a write over CoAP is resolved by any response; the promises
of WebSocketClient never settle; a second MQTT subscription through a client that is
connected hears nothing, because topics are subscribed to in the handler of 'connect';
the parameter of its 'error' handler hides the callback, so the promise is not rejected;
`unobserveProperty()` hands over the template of an href and finds nothing when
`observeProperty()` had expanded it.

### OnDemandSession and Sessions

`stage[r]` is how far request `r` is: an OPC UA client connects, then creates the
session; a NETCONF client reads a key file, then opens the router. Sessions, clients and
routers are named after the request that makes them, so two requests that both find no
OPC UA session make two, and the later one stays. An OPC UA client may find that
`this.client` is by now the unconnected client of another request, and fails. A second
NETCONF request finds an empty router and fails. Nothing resets a session that is lost.

`OtherMethod` are the OPC UA invocations whose `opc:method` is not `CALL_METHOD`:
`invokeResource()` makes sure that there is a session and then resolves without sending
anything, as `opcua-client-test.ts:203-224` asserts. They are `silent` in the abstract
session, which promises of them only that they succeed after one was opened; of all others
that they succeed only if they were sent.

That a NETCONF rpc over a lost connection ends at all rests on the vendor library:
`async-node-netconf.ts:96-101` sets no timeout. `Answer` with its fairness is that
assumption.

### OctetstreamCodec, Serdes, Descriptions, Forms and Conversions

These are pure operators; `Conversions` chains them the way the program does and has a
step for each point where one party hands over to another: `Encode`, `Carry`, `Decode`;
`ExposeThing`, `Describe`, `Consume`, `Request`, `Serve`; `Parse`, `Serialize`; `Fill`,
`Answered`; `Transform`. A job is one input. Properties are about the ends of such a
chain: what comes back, which operation the server takes a request for, whether a
description changes.

A byte has `Bits` bits, eight in the code, fewer in the run, so that four bytes fit the
integers of TLC; JSON text is the value it stands for; encoded text is the text with its
charset, and what another charset makes of the bytes is not looked at; a path is a sequence
of segments. A segment and the name of a variable are written with `EncodeURIComponent`,
which marks the names in `Escaped`; `DecodeURI` restores a segment unless its name is in
`Undecoded`, which gives what the server reads instead (`a%3Ab` for `a:b`). The library that
expands templates is external: it knows a variable by the name in the template. Nothing is a recursive operator:
`Accumulated` is a function of a position and `Namespaces` one of the path of keys that
leads to a part of a schema, so that the modules can be reasoned about.

The properties leave out, and name, what the code does differently. A name
that `decodeURI()` does not restore (with `: / ? # @ & = + $ ,` or `;` in it) leads to 404, and
a variable with an escaped name is not sent. The octet stream codec writes every string in
utf8 (the charset in line 272 is commented out) and reads it in the charset of its content
type, so a string in another one comes back as another string; the text codec takes a
charset it does not know for utf8 when it writes and fails when it reads, and charsets that
are not Unicode need not keep a string. The octet stream codec takes numbers for signed when it writes and for unsigned when it reads (the
comment says unsigned), refuses the greatest unsigned number, garbles lengths of three
bytes, and ignores the length of a string when it writes and refuses one when it reads.
Text in base 64 is decoded when sent and not encoded when received; `{value: x}` comes
back as `x` from JSON; of a NETCONF tree only the leaves of containers survive. A form for
writing all properties is answered with 405; an https server describes a thing without
security as `nosec` and demands credentials, and refuses one with empty definitions; over
http or below a `baseUri` it never names its security;
digest accepts no one, and a body of a media type without a codec is refused. An
offset, length or unit of 0 in a Modbus URL does not override the form's. The transformation
from version 3 keeps `link`, because it deletes `links`. The slice of a coil reply is
wrong for an offset that is not 0.

## Runs

| Run | Bounds | Shows |
|---|---|---|
| `modbus` | 3 requests, 5 forms, 2 attempts per connect loop; 953,200 states | type invariant, `Serialized`, `NoStranded`, `AnswersOwn`, `FirstComeFirstServed`, `EveryRequestSettles` |
| `modbus_failed_not_sent` | 2 requests | `FailedNotSent` is violated |
| `modbus_single_writes` | 2 requests with function 6 | `AnswersOwn` is violated |
| `http_client` | 3 calls, 3 tokens, clock to 2, both schemes; 145,035 states | type invariant, `NeverUninitialized`, `SignedInTime`, `RetryIsNewer`, `EveryCallSettles` |
| `servient` | 2 things, 2 ids with paths of their own (`lamp`, `lamp_3`), 2 servers, one with a security scheme; 79,620 states | type invariant, `RoutesRegistered`, `FormsLead`, `SubjectsComplete` |
| `servient_produced` | 1 thing, 1 server | `ServedWhenExposed` is violated |
| `servient_same_titles` | 2 things of one title, 1 server | `FormsLead` is violated |
| `requests` | 3 requests, 2 values and one that does not convert, 2 events, 1 reading per observation, 11 setups; 777,972 states | type invariant, `OnlyDueRequestsServed`, `ChangesTrackValue`, `EachToldInOrder`, `FinishedObservationsStop`, `FailedWriteKeepsValue`, `EveryRequestAnswered` |
| `servers` | 2 things with one title, 7 kinds of servers, up to 3 calls of `expose()`, 2 channels, 2 events; 171,471 states | type invariant, `DestroyedNotReached`, `EachHearsAll`, `EveryPromiseSettles` |
| `consumed_thing` | 3 calls, 13 Thing Descriptions, 2 values, 2 Modbus reads under way; 99,604 states | type invariant, `UnindexedSecured`, `UnsubscribedEnds`, `OneIntervalPerId`, `DoneIsDone`, `ImplementsSubscription`, `EveryCallSettles` |
| `sessions` | 3 requests, one of them with another method than `CALL_METHOD`, 2 clients, 3 kinds of credentials; 15,540 states | type invariant, `OneOpener`, `ImplementsOnDemandSession`, `EveryRequestEnds` |
| `conversions` | bytes of 4 bits, the jobs of `MCConversions`; 276,167 states | `ValuesSurvive`, `RequestsUnderstood`, `DescriptionsStable` |

Why the bounds are enough. *Modbus*: three requests are one in flight, one queued and
one that joins it in front or behind, or that starts a queue of two; the forms have a
neighbour on each side and two neighbouring reads, each of which gets its slice of a combined
reply. Two attempts give a loop that
sleeps and one that gives up, and requests during the sleep start loops next to it.
`MaxOps` and `maxRetries` are the only bounds; the socket may be lost, closed and
reopened without limit. *HttpClient*: three calls are two that refresh concurrently and
one that uses what they leave; three tokens are the first and one for each of them; the
clock runs until the first token has expired. When `MaxTokens` tokens are issued, token
requests can only fail. *Servient*: two things can be two with different ids or one
that is destroyed and produced again; two servers can be one that is listening and one
that is not, or one that is added late. *Requests*: three are a write, one that waits
for its notification and one that comes in between, or two writes whose handlers settle
in either order in front of a listener. `MaxEvents` lets a CoAP subscription hear one event after another, one of
which may not convert; `MaxReads` bounds the readings of an observation; subscribers in any number and order come from the requests, and
writes notify as often as they come. *Servers*: of three calls the third makes a name
that was generated before; two channels are two listeners on one thing, or one on each;
WebSocketServers get there with two calls, because `destroy()` frees all names.
*ConsumedThing*: three calls are a subscription, one that replaces it and one that ends
either; with two values a listener can see that one comes late. *Sessions*: three
requests are one that opens, one that meets it and one that finds what both left.
*Conversions*: the numbers are the ends of every range and their neighbours, things
have each kind of affordance with each flag, forms each entity and function.

Deadlock is checked for `modbus` and `conversions` (whose `Done` says which ends are
meant). The other systems stop when all calls have settled or nothing is left to do, so
their configurations turn it off.

What the four violations show:

- `modbus_failed_not_sent`: after the last attempt `trigger()` rejects the queued
  operations but keeps the queue. The next request dials again, and the device gets a
  write whose author was told it had failed.
- `modbus_single_writes`: `enqueue()` does not look at the function. Two neighbouring
  writes with function 6, the default for one register, become a transaction of two
  registers of which `writeModbus()` sends the first; both are reported done.
- `servient_produced`: a server that listens before it is added gets every produced
  thing, although the comment speaks of exposed ones.
- `servient_same_titles`: a generated name is not looked up. Exposing the first of two
  things of one title again takes the path of the second.

## Fairness

Node runs every callback whose time has come, so continuations and timers are weakly
fair; nothing makes a user, a script or the network act.

- *Modbus*: `connectTCP` ends and calls end because `connect()` sets
  `client.setTimeout`; the back-off timer fires. Of several loops, or calls, it is enough
  that one goes on. The idle timer need not fire.
- *HttpClient*: every fetch ends in an answer or an error; a token request may always
  fail, a request may always be rejected.
- *Servient*: the promise jobs of `destroy()` run, because the HTTP servers answer at
  once.
- *Requests*: introspection endpoints answer or fail, bodies end, and the handlers of
  the script settle the promises they return (`Checked`, `Loaded`, `Settles`); it is enough
  that one of them goes on as long as there are any. Events and intervals need not come.
- *Servers*: sockets get bound or fail, brokers and clouds answer or refuse (`Started`,
  `Stopped`, `ExposeGoesOn`), and the continuation of `destroy()` runs (`Complete`).
- *ConsumedThing*: remote things answer or connections fail (`Answer`), the loop over
  several properties runs on, intervals fire and Modbus calls time out. Nothing makes a
  broker connect or a message come, so no subscription but Modbus's has to settle.
- *Sessions*: connecting, opening and requests end, well or badly.

## Proofs

TLAPS proves, for every value of the constants that satisfies the named assumptions of
the modules (forms, things and Thing Descriptions are well-formed, bounds are natural
numbers, at least one attempt):

| Theorem | Says |
|---|---|
| `ModbusConnectionProofs!SerializedTheorem` | `Spec => []Serialized` |
| `ModbusConnectionProofs!TypeCorrect` | `Spec => []TypeOK`, if there is a form |
| `ModbusConnectionProofs!NoStrandedTheorem` | `Spec => []NoStranded`, if there is a form |
| `ModbusConnectionProofs!FirstComeFirstServedTheorem` | `Spec => FirstComeFirstServed`, if there is a form |
| `ModbusConnectionProofs!AnswersOwnTheorem` | `Spec => []AnswersOwn`, if there is a form and forms are `Combinable` |
| `ServientProofs!TypeCorrect` | `Spec => []TypeOK` |
| `ServientProofs!RoutesTheorem` | `Spec => []RoutesRegistered` |
| `ServientProofs!FormsTheorem` | `Spec => []FormsLead`, if no two ids have a path in common |
| `HttpClientProofs!TypeCorrect` | `Spec => []TypeOK` |
| `HttpClientProofs!TokenInHand` | `Spec => []NeverUninitialized` |
| `HttpClientProofs!RetryCarriesNewer` | `Spec => RetryIsNewer` |
| `HttpClientProofs!TuyaSignsInTime` | `Spec => SignedInTime` |
| `SessionsProofs!TypeCorrect` | `Spec => []TypeOK` |
| `SessionsProofs!OneOpenerTheorem` | `Spec => []OneOpener` |
| `SessionsProofs!Refinement` | `Spec => ImplementsOnDemandSession` |
| `ServersProofs!TypeCorrect` | `Spec => []TypeOK` |
| `ServersProofs!NotReached` | `Spec => []DestroyedNotReached` |
| `ServersProofs!EachHears` | `Spec => []EachHearsAll` |
| `ConsumedThingProofs!TypeCorrect` | `Spec => []TypeOK` |
| `ConsumedThingProofs!Secured` | `Spec => []UnindexedSecured` |
| `ConsumedThingProofs!OneInterval` | `Spec => []OneIntervalPerId` |
| `ConsumedThingProofs!Refinement` | `Spec => ImplementsSubscription` |
| `ConsumedThingProofs!Unsubscribed` | `Spec => []UnsubscribedEnds` |
| `ConsumedThingProofs!DoneWrites` | `Spec => []DoneIsDone` |
| `RequestsProofs!TypeCorrect` | `Spec => []TypeOK` |
| `RequestsProofs!OnlyDue` | `Spec => []OnlyDueRequestsServed` |
| `RequestsProofs!ObservationsStop` | `Spec => []FinishedObservationsStop` |
| `RequestsProofs!ChangesTrack` | `Spec => []ChangesTrackValue` |
| `RequestsProofs!FailedWrites` | `Spec => FailedWriteKeepsValue` |
| `RequestsProofs!EachTold` | `Spec => []EachToldInOrder` |
| `ConversionsProofs!IntegersBack` | integers of 1, 2 and 4 bytes of 2 to 8 bits are read as they were written, or refused |
| `ConversionsProofs!ValuesTheorem` | `Spec => []ValuesSurvive`, but for values over NETCONF |
| `ConversionsProofs!DescriptionsTheorem` | `Spec => []DescriptionsStable`, but for older descriptions |
| `ConversionsProofs!RequestsTheorem` | `Spec => []RequestsUnderstood` |

*Serialized* is not inductive: `trigger()` asks `busy`, not the wire. `OneCall` adds that
while `busy` is false nothing is in flight; lemma `TriggerOneCall` carries it through
every action that ends in `trigger()`.

*NoStranded* needs more, because a queued request is safe only if something will trigger
the connection, and `trigger()` leaves that to others when `connecting` is set. `Progress`
adds that the flag is only set while a loop is inside `connectTCP` (`FlagHonest`), that
no loop sleeps after its last attempt (`LastAttempt`), `OneCall`, and that every pending
request is held by a call or a loop (`AllHeld`). Lemma `TriggerHolds` says that
`trigger()` keeps what it finds; `ProgressStep` has a step for each action.

`FirstComeFirstServed` rests on `Sorted`: the oldest requests of the transactions in the
queue grow from its head to its tail and have all been made, and a new request is newer
than every one of them. A request that joins a transaction never becomes its oldest one.

`AnswersOwn` needs to know what each transaction stands for. `Fits` says of one, queued or
on the wire, that it is of the kind of its requests, that its registers are those from the
first to the last of theirs (`Covers`), and that a write has in each place the value that
its request wants in that register (`Stores`); `AllFit` says so of all of them. The theorem
assumes `Combinable`: a form can be carried out by itself, and forms that can join each
other are `Plain`. They are not written with function 5 or 6, are big-endian, and do not
read coils. The forms of `modbus` satisfy it. Without it `AnswersOwn` is false, because
`enqueue()` does not look at any of this; for function 6 the run `modbus_single_writes`
shows it.

*Servient*: `RoutesRegistered` is inductive once every thing that is not destroyed is known
to be registered (`Alive`), because `addServer()` and `expose()` route to things they do not
look up. What the loop of `addServer()` leaves is shown by counting up the registered
things: lemma `CountUp` gets this induction from `<` being well-founded, since the induction
rules of the library take operators. `FormsLead` adds that each path is the slug of its
thing or what it is renamed to (`Titled`), that the server of a form routes to the thing whether it listens or
not (`Lead`), because it may be started again, and that a thing not yet produced has no
forms (`Fresh`). `OwnPathsOnly` assumes that the slug of an id and what it is renamed to are
neither of another id (`lamp` and `lamp_2` would not do); the run
`servient_same_titles` shows what happens otherwise. These invariants were checked by TLC
with three things and three ids before they were proved.

*HttpClient* has one inductive invariant, `IInv`: the types, `NeverUninitialized`,
`PromiseKept` (while the promise is pending no token is out and no call is past
`sign()`) and `IssuedFirst` (tokens are issued before they are granted, stored or used,
and a token granted to a call that refreshes is newer than the one it used). Both action
properties follow from it, step by step.

*Sessions*: `IInv` adds to the types and `OneOpener` that each client has stages of its
own (`OwnStages`), that a request has a session exactly from when it is sent and an
outcome exactly from its end (`Progresses`), and that what later requests find has been
opened (`FoundOpened`). Without the last one a request could be sent over a session that
nobody opened, and the step would not be one of `OnDemandSession`.

*Servers*: `Types` strengthens `TypeOK` by the bound on the channels and by what
`expose()` of an Oracle server has looked at before it asks for the model. `NotReached`
adds that an Oracle server names nothing, because its `destroy()` clears no name.
`EachHears` needs `Listening`: whoever is still to hear events listens, and nobody
listens to a thing that has completed its subjects. Lemma `Increasing` is the step of a
channel that carries one more event.

*ConsumedThing*: `Inv` has four parts. `Linked` says how `link`, `sub` and `promise`
agree: what was closed had an account and is not listening, an MQTT subscription ends
only with its client, an id that is polled is that of the last subscription registered,
what was received is not newer than the value, and an href determines its binding.
`Kept` is about the cache and its security, `SentAt` about the client and the form of a
call. `Min` of a set of naturals is in the set because `<` is well-founded, which is how
`Chosen` and `FindForm` are known to return a form that exists. The refinement has one
lemma for each way a subscription can move.

`UnsubscribedEnds` and `DoneIsDone` share the invariant `Told`. Its parts are `Ordered` (no
call is made twice), `AskedAt` (a call that waits has sent the request it was made with, and
none waits for the end of a subscription), `LastAt` (the last subscription of a client to an
href is registered or closed), and the two properties for each call, `EndsAt` and `DoneAt`.
`LastAt` is what makes the first one inductive: an unsubscription closes what is registered,
which must be what was subscribed to last.

*Requests*: the handlers of five servers come down to ten things a step may do (`Does`),
each with what is known of the request then, and `Frame` says what a handler leaves to
the others; lemma `GoesDoes` proves that of arrivals, checked tokens, loaded bodies and
settled promises. `IInv` is the types and, for each request, `Placed`: whoever waits for
a body or a handler, or listens, has been admitted (it found the thing and its
credentials hold), nobody is served before that, and an interval belongs to an
observation that is read or to one that was never read. `ChangesTrackValue` is inductive
with the types, because the subject is called exactly when the stored value differs.
`EachToldInOrder` is not. `FInv` adds that a request listens only to the subject it
asked for (`EarsOwn`), that nobody has received a value before it listens (`Fresh`), and
`Follows`: a long poll that has heard nothing is still open and, unless the thing is
destroyed, still a listener, so that the next value cannot miss it, and a CoAP
subscription that is open has as many values as its subject has given since.
Lemma `Hearing` is the call of a subject, `Calm` every other step.

*Conversions*: what becomes of a value is known once it is known what each step was given,
which is what `Carried` says; then `ValuesSurvive` is a fact about operators, with one lemma
per codec. That of the integers, `IntegersBack`, goes through the digits of a number: one,
two or four digits accumulate to the number (`TwoDigits`, `FourDigits`), and a number below
zero comes back from its complement (`Complement`). It holds for every width of a byte that
`BitsAssumption` allows, two to eight bits, eight being that of the code. `JobsAssumption` says that numbers and booleans have contents and
the parameters of a content type their types.
`DescriptionsTheorem` rests on `Conveyed`, which says what the data is at each stage; what is
left are facts about the parser and the serializer. What the parser leaves in a context, a
type, flags or forms it leaves as it is (`ContextFixed`, `TypeFixed`, `FlagsFixed`,
`SettledStay`), so a document returns from the serializer as it was (`DocumentReturns`), and
the forms of a server are absolute whatever the affordance (`EndpointsRouted`), so no parser
changes them (`FormsReach`). `WellFormed` says which terms a description has.
`RequestsTheorem` has two parts. For Modbus, `Completed` says that a form that was filled in
has an entity, a function of it, and starts no earlier than the read that answers it, which
`ModbusAssumption` says of what a device is asked for. For HTTP, `Requesting` says which
request was sent and what the server made of it. `ConsumedIs` brings the forms and the
security of the server through its serializer and the client's parser, `Suits` says what a
form must be for its affordance, `EndpointsRouted` that all forms of an affordance are so,
`TogetherIs` which forms a thing has for all of its properties, and `FormUnderstood` and
`ThingUnderstood` that the server handles what follows from such a form. `JobsAssumption`
says here that a client asks for an operation of the thing or of one of its affordances,
and that a cloud is not the server itself; `NamesAssumption`, that what `decodeURI()` does
not restore was escaped and is another name. `DescriptionsTheorem` speaks of the forms of
affordances, because the parser leaves `thing.forms` as they are.

What TLC alone shows, and why:

- The liveness properties `EveryRequestSettles`, `EveryCallSettles`, `SubjectsComplete`,
  `EveryRequestAnswered`, `EveryRequestEnds` and `EveryPromiseSettles`: fairness is out of
  the prover's reach.
- `ValuesSurvive` for NETCONF, whose `Namespaces` recurs along a tree and whose replies are
  folds along a path.
- `DescriptionsStable` for the transformation of older descriptions, which is a fold over
  interactions and links.

## Plan

The components are modelled and most safety properties are proved. What is left, in this
order:

1. `ValuesSurvive` for a NETCONF container at the root of a schema.
2. Little-endian forms in the run `modbus`, which the theorem about `AnswersOwn` covers
   for forms that join no other; combined reads of coils, whose slice is wrong.
3. An abstract `RequestQueue` (each request is pending, then settled once) that
   `ModbusConnection` implements.

## Not modelled

- The command line and the default servient: options and files are read and a Servient
  is started, in one sequence; the scripts a Servient runs in a sandbox, and
  `discover()`, which the code does not implement.
- `readAllProperties()` of a ConsumedThing, whose loop is that of
  `readMultipleProperties()` over all names.
- The swap of the two bytes inside a Modbus register, floating point numbers of the
  octet stream codec, the helpers that read streams, Tuya's signature.
- Lookups in descriptions (`td-helpers.ts`), the client of the description repository,
  which sends plain HTTP requests, and the declarations of types.
- What vendor libraries do inside: modbus-serial, rxjs, node-opcua, node-netconf, mqtt, ws,
  the CoAP library, the library of URI templates and the Oracle library appear as the outcomes their callers can see.
- The examples and the browser bundle.

Hazards that the models reach and no property catches, because no text of the repository
asks for more than the code does; `PROJECT.json` has the reason for each: the rejected
promise an OAuth credential keeps, the slice of a coil reply, the Modbus subscription that
stays registered after an error, the routes of a server whose `addServer()` failed, the
listeners of finished long polls, the order of concurrent writes, the template that
`unobserveProperty()` does not expand, a second MQTT subscription, and CoAP writes that were
refused.

`PROJECT.json` lists every component with what is left of it.
