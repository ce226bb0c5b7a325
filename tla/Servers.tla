------------------------------ MODULE Servers ------------------------------
(***************************************************************************)
(* The servers other than the HttpServer, as a Servient sees them: start() *)
(* and stop(), expose() and destroy(), each with a promise, and what they  *)
(* do with the events of a thing.  A behaviour has one server.             *)
(*                                                                         *)
(* Names are slugs or titles, alone or with the suffix "_2".  A channel is *)
(* what carries events of a thing away: a WebSocket connection, or a topic *)
(* that one expose() call has made a listener publish to.                  *)
(***************************************************************************)
EXTENDS Integers, Sequences

CONSTANTS
    Thing,        \* the things, by id
    title,        \* their titles, which two may share
    Modelled,     \* those with a field iotcs:deviceModel
    MaxChannels,  \* bound: connections or topics
    MaxExposures, \* bound, by kind of server: calls of expose()
    MaxEvents     \* bound, by kind of server: events that are emitted

Kind == {"coap", "mqtt", "brokerless", "websocket", "shared", "fujitsu", "oracle"}

None == "none"
ASSUME BoundsAssumption ==
    /\ MaxChannels \in Nat
    /\ MaxExposures \in [Kind -> Nat] /\ MaxEvents \in [Kind -> Nat]
    /\ Modelled \subseteq Thing /\ None \notin Thing
NoName == <<None, 0>>
Name == ({title[t] : t \in Thing} \cup Thing) \X {1, 2}
Channel == 1..MaxChannels

VARIABLES
    kind,      \* the server; "shared" is a WebSocketServer on an HttpServer
    phase,     \* of its start(), and "lost" when its connection has ended since
    stop,      \* what has become of its stop()
    table,     \* things by name; of a WebSocketServer, its socketServers
    names,     \* WebSocketServer.thingNames
    paths,     \* WebSocketServer.thingPaths
    devices,   \* OracleServer.devices, each polled for ever
    exposing,  \* what has become of the last expose() of a thing
    exposures,
    told,      \* what destroy() of a thing has resolved to
    completed, \* things whose subjects are completed
    channel,   \* the channels that have been opened
    events,    \* the events subjects were called with, in order: their things
    heard      \* by channel, the events it has carried

promiseVars == <<stop, exposing, exposures, told>>
tableVars   == <<table, names, paths, devices>>
eventVars   == <<completed, channel, events, heard>>
vars == <<kind, phase, promiseVars, tableVars, eventVars>>

Gone == {t \in Thing : told[t] # None}

Init ==
    /\ kind \in Kind /\ phase = "new" /\ stop = None
    /\ table = [n \in Name |-> None]
    /\ names = {} /\ paths = [t \in Thing |-> NoName] /\ devices = {}
    /\ exposing = [t \in Thing |-> None] /\ exposures = 0
    /\ told = [t \in Thing |-> None] /\ completed = {}
    /\ channel = <<>> /\ heard = [c \in Channel |-> <<>>]
    /\ events = <<>>

----------------------------------------------------------------------------
\* Names

\* A name that is taken gets its suffix counted up, without a second look.
FreeName(t, taken) == <<title[t], IF <<title[t], 1>> \in taken THEN 2 ELSE 1>>

Taken == {n \in Name : table[n] # None}

UnnameFirst(t) ==
    [n \in Name |-> IF table[n] = t /\ (n[2] = 1 \/ table[<<n[1], 1>>] # t) THEN None ELSE table[n]]

\* destroy() of the servers with a map: all names of a thing are deleted.
Unname(t) == [n \in Name |-> IF table[n] = t THEN None ELSE table[n]]

Exposed(t, how) == exposing' = [exposing EXCEPT ![t] = how]

\* A channel for the events of t; subjects that are completed take no listener.
Open(t, n) ==
    /\ Len(channel) < MaxChannels
    /\ channel' = Append(channel,
           [to |-> t, at |-> n, since |-> Len(events), state |-> "open",
            listens |-> t \notin completed, listed |-> TRUE])

----------------------------------------------------------------------------
\* expose()

\* getPort() is -1 before listen() and after close(), and throws while the
\* socket is not bound.
CoapExpose(t) ==
    /\ IF phase = "open"
       THEN table' = [table EXCEPT ![FreeName(t, Taken)] = t] ELSE UNCHANGED table
    /\ \/ Exposed(t, "done")
       \/ phase \in {"starting", "failed"} /\ Exposed(t, "failed")
    /\ UNCHANGED <<names, paths, devices, channel>>

\* The listener is never removed, and each expose() adds one of its own.  The
\* broker is there from start() on, connected or not.
MqttExpose(t) ==
    /\ Exposed(t, "done")
    /\ IF phase = "new" \/ kind = "brokerless"
       THEN UNCHANGED <<table, channel>>
       ELSE LET n == FreeName(t, Taken)
            IN  table' = [table EXCEPT ![n] = t] /\ Open(t, n)
    /\ UNCHANGED <<names, paths, devices>>

HasPort == kind = "shared" \/ phase = "open"

\* A WebSocket.Server that was at the path is replaced and keeps its clients.
WsExpose(t) ==
    /\ Exposed(t, "done")
    /\ IF ~HasPort
       THEN UNCHANGED <<table, names, paths, channel>>
       ELSE LET n == FreeName(t, names)
            IN  /\ names' = names \cup {n} /\ paths' = [paths EXCEPT ![t] = n]
                /\ table' = [table EXCEPT ![n] = t]
                /\ channel' = [c \in DOMAIN channel |->
                       IF channel[c].at = n THEN [channel[c] EXCEPT !.listed = FALSE]
                       ELSE channel[c]]
    /\ UNCHANGED devices

\* The map comes first; send() throws before the WebSocket is open, and calls
\* back with an error when it is closed.
FujitsuExpose(t) ==
    /\ table' = [table EXCEPT ![<<t, 1>>] = t]
    /\ Exposed(t, IF phase = "open" THEN "sending" ELSE "failed")
    /\ UNCHANGED <<names, paths, devices, channel>>

OracleExposeAny(t) ==
    /\ Exposed(t, IF phase = "open" THEN "modelling" ELSE "unsettled")
    /\ UNCHANGED <<tableVars, channel>>

\* Nothing settles the promise of a server that is not activated.
OracleExpose(t) ==
    /\ Exposed(t, CASE t \notin Modelled -> "failed"
                    [] t \in Modelled /\ phase = "open" -> "modelling"
                    [] OTHER -> "unsettled")
    /\ UNCHANGED <<tableVars, channel>>

Expose(t) ==
    /\ t \notin Gone /\ exposing[t] \in {None, "done", "failed", "unsettled"}
    /\ exposures < MaxExposures[kind] /\ exposures' = exposures + 1
    /\ CASE kind = "coap" -> CoapExpose(t)
         [] kind \in {"mqtt", "brokerless"} -> MqttExpose(t)
         [] kind \in {"websocket", "shared"} -> WsExpose(t)
         [] kind = "fujitsu" -> FujitsuExpose(t)
         [] kind = "oracle" -> OracleExpose(t)
    /\ UNCHANGED <<kind, phase, stop, told, completed, events, heard>>

FujitsuSentSilently(t) ==
    exposing[t] = "sending" /\ (Exposed(t, "done") \/ Exposed(t, "unsettled"))

FujitsuSent(t) ==
    exposing[t] = "sending" /\ (Exposed(t, "done") \/ Exposed(t, "failed"))

OracleModel(t) == exposing[t] = "modelling" /\
    (Exposed(t, "registering") \/ Exposed(t, "failed"))

\* Only an error of getModel() is passed on to the caller.
OracleRegistered(t) ==
    /\ exposing[t] = "registering"
    /\ \/ phase = "open" /\ devices' = devices \cup {t} /\ Exposed(t, "done")
       \/ Exposed(t, "unsettled") /\ UNCHANGED devices

ExposeGoesOn(t) ==
    /\ \/ (FujitsuSent(t) \/ OracleModel(t)) /\ UNCHANGED devices
       \/ OracleRegistered(t)
    /\ UNCHANGED <<kind, phase, stop, exposures, told, table, names, paths, eventVars>>

----------------------------------------------------------------------------
\* destroy()

\* All paths lose their name, and the socket servers stay.
WsDestroy ==
    /\ names' = names \ {paths[t] : t \in Thing}
    /\ UNCHANGED <<table, paths, devices>>

Destroy(t) ==
    /\ t \notin Gone
    /\ CASE kind \in {"websocket", "shared"} ->
              told' = [told EXCEPT ![t] = "true"] /\ WsDestroy
         [] kind = "oracle" ->
              told' = [told EXCEPT ![t] = "rejected"] /\ UNCHANGED tableVars
         [] OTHER ->
              /\ told' = [told EXCEPT ![t] = IF Unname(t) = table THEN "false" ELSE "true"]
              /\ table' = Unname(t) /\ UNCHANGED <<names, paths, devices>>
    /\ UNCHANGED <<kind, phase, stop, exposing, exposures, eventVars>>

CompleteProperties(t) ==
    /\ t \in Gone \ completed /\ told[t] # "rejected"
    /\ completed' = completed \cup {t}
    /\ UNCHANGED <<kind, phase, promiseVars, tableVars, channel, events, heard>>

\* The subjects are completed when the promises of destroy() are fulfilled.
Complete(t) ==
    /\ t \in Gone \ completed /\ told[t] # "rejected"
    /\ completed' = completed \cup {t}
    /\ channel' = [c \in DOMAIN channel |->
           IF channel[c].to = t THEN [channel[c] EXCEPT !.listens = FALSE] ELSE channel[c]]
    /\ UNCHANGED <<kind, phase, promiseVars, tableVars, events, heard>>

----------------------------------------------------------------------------
\* start() and stop()

\* A WebSocketServer on an HttpServer and a broker client without a broker have
\* nothing to wait for, and a gateway may have been activated before.
CoapStart    == phase' = "starting"
MqttStart    == phase' = IF kind = "brokerless" THEN "open" ELSE "starting"
WsStart      == phase' = IF kind = "shared" THEN "open" ELSE "starting"
FujitsuStart == phase' = "starting"
OracleStart  == phase' \in {"starting", "open"}

Start ==
    /\ phase = "new"
    /\ CASE kind = "coap" -> CoapStart
         [] kind \in {"mqtt", "brokerless"} -> MqttStart
         [] kind \in {"websocket", "shared"} -> WsStart
         [] kind = "fujitsu" -> FujitsuStart
         [] kind = "oracle" -> OracleStart
    /\ UNCHANGED <<kind, promiseVars, tableVars, eventVars>>

Started ==
    /\ phase = "starting" /\ phase' \in {"open", "failed"}
    /\ UNCHANGED <<kind, promiseVars, tableVars, eventVars>>

\* Socket servers that have been replaced are not closed.
CloseListed == [c \in DOMAIN channel |->
    IF channel[c].listed THEN [channel[c] EXCEPT !.state = "closed"] ELSE channel[c]]

CoapStop == stop' = "pending" /\ UNCHANGED channel

\* The broker client has no method stop().
MqttStop == stop' = (IF kind = "brokerless" THEN "done" ELSE "failed") /\ UNCHANGED channel

\* A server that shares the HttpServer has nothing to wait for, and does not
\* say so.
WsStop == stop' = "pending" /\ channel' = CloseListed

\* The loop over the things finds none in a Map.  A WebSocket that is closed by
\* now, because its connection was lost or never came about, has no event
\* 'close' left to emit.
FujitsuStop ==
    /\ stop' = IF phase = "open" THEN "pending" ELSE "unsettled"
    /\ UNCHANGED channel

OracleStop == stop' \in {"done", "failed"} /\ UNCHANGED channel

\* shutdown() stops each server, in whatever way its start() has ended.
Stop ==
    /\ phase \in {"open", "failed", "lost"} /\ phase' = "stopped"
    /\ CASE kind = "coap" -> CoapStop
         [] kind \in {"mqtt", "brokerless"} -> MqttStop
         [] kind \in {"websocket", "shared"} -> WsStop
         [] kind = "fujitsu" -> FujitsuStop
         [] kind = "oracle" -> OracleStop
    /\ UNCHANGED <<kind, exposing, exposures, told, tableVars, completed, events, heard>>

\* The cloud or the network closes the connection of a FujitsuServer, which
\* does not connect again.
Lose ==
    /\ kind = "fujitsu" /\ phase = "open" /\ phase' = "lost"
    /\ UNCHANGED <<kind, promiseVars, tableVars, eventVars>>

Closed(c) == channel[c].state = "closed"

\* An HTTP server is closed when the last connection has ended.
Stopped ==
    /\ stop = "pending" /\ kind # "shared"
    /\ \/ (kind = "websocket" => \A c \in DOMAIN channel : Closed(c)) /\ stop' = "done"
       \/ stop' = "failed"
    /\ UNCHANGED <<kind, phase, exposing, exposures, told, tableVars, eventVars>>

----------------------------------------------------------------------------
\* WebSocket connections and events

Accepts == (kind = "websocket" /\ phase = "open") \/ (kind = "shared" /\ phase # "new")

\* Whatever socket server is at the path takes the connection, and its thing
\* is subscribed to.
Connect(n) ==
    /\ Accepts /\ table[n] # None /\ Open(table[n], n)
    /\ UNCHANGED <<kind, phase, promiseVars, tableVars, completed, events, heard>>

\* unsubscribeEvent() removes no listener; send() does nothing by now.
Disconnect(c) ==
    /\ kind \in {"websocket", "shared"} /\ ~Closed(c)
    /\ channel' = [channel EXCEPT ![c].state = "closed"]
    /\ UNCHANGED <<kind, phase, promiseVars, tableVars, completed, events, heard>>

Listeners(t) == {c \in DOMAIN channel : channel[c].to = t /\ channel[c].listens}

\* The event is sent over the open channels, in the order of the listeners.
Emit(t) ==
    /\ Len(events) < MaxEvents[kind]
    /\ events' = IF t \in completed THEN events ELSE Append(events, t)
    /\ heard' = [c \in Channel |->
           IF c \in Listeners(t) /\ channel[c].state = "open"
           THEN Append(heard[c], Len(events) + 1) ELSE heard[c]]
    /\ UNCHANGED <<kind, phase, promiseVars, tableVars, completed, channel>>

\* An event that cannot be converted: close() with the code -1 throws in the
\* first listener whose connection is not closed, which leaves a connection that
\* sends nothing any more.
EmitBad(t) ==
    /\ kind \in {"websocket", "shared"}
    /\ \E first \in Listeners(t) :
         /\ ~Closed(first) /\ \A c \in Listeners(t) : Closed(c) \/ first <= c
         /\ channel' = [channel EXCEPT ![first].listens = FALSE, ![first].state = "mute"]
    /\ UNCHANGED <<kind, phase, promiseVars, tableVars, completed, events, heard>>

Next ==
    \/ Start \/ Started \/ Lose \/ Stop \/ Stopped
    \/ \E t \in Thing : Expose(t) \/ ExposeGoesOn(t) \/ Destroy(t) \/ Complete(t)
                          \/ Emit(t) \/ EmitBad(t)
    \/ \E n \in Name : Connect(n)
    \/ \E c \in DOMAIN channel : Disconnect(c)

Spec == Init /\ [][Next]_vars

\* Sockets are bound, brokers and clouds answer or refuse, and the promises of
\* destroy() are followed up.
FairSpec ==
    /\ Spec /\ WF_vars(Started) /\ WF_vars(Stopped)
    /\ \A t \in Thing : WF_vars(ExposeGoesOn(t)) /\ WF_vars(Complete(t))

----------------------------------------------------------------------------
\* Every variable has its type.
TypeOK ==
    /\ kind \in Kind /\ phase \in {"new", "starting", "open", "failed", "lost", "stopped"}
    /\ stop \in {None, "pending", "unsettled", "done", "failed"}
    /\ table \in [Name -> Thing \cup {None}]
    /\ names \subseteq Name /\ devices \subseteq Modelled
    /\ paths \in [Thing -> Name \cup {NoName}]
    /\ exposing \in [Thing -> {None, "sending", "modelling", "registering", "unsettled",
                               "done", "failed"}]
    /\ exposures \in 0..MaxExposures[kind]
    /\ told \in [Thing -> {None, "true", "false", "rejected"}]
    /\ completed \subseteq Thing /\ events \in Seq(Thing) /\ Len(events) \leq MaxEvents[kind]
    /\ channel \in Seq([to : Thing, at : Name, since : Nat,
                        state : {"open", "mute", "closed"},
                        listens : BOOLEAN, listed : BOOLEAN])
    /\ heard \in [Channel -> Seq(Nat)]

\* destroy() of CoapServer, MqttBrokerServer and FujitsuServer: no name leads to
\* a destroyed thing, however often and in whichever phase it was exposed.
DestroyedNotReached ==
    kind \notin {"websocket", "shared"} => \A n \in Name : table[n] \notin Gone

\* The listeners of WebSocketServer.expose() and MqttBrokerServer.expose(): a
\* channel carries each event its thing has emitted since, once and in order,
\* until the connection ends; none after the thing was destroyed.
EachHearsAll == \A c \in DOMAIN channel :
    LET due == {i \in DOMAIN events : i > channel[c].since /\ events[i] = channel[c].to}
        got == {heard[c][k] : k \in DOMAIN heard[c]}
    IN  /\ got \subseteq due /\ (channel[c].state = "open" => got = due)
        /\ \A j, k \in DOMAIN heard[c] : j < k => heard[c][j] < heard[c][k]

\* Every promise the Servient waits for is settled, but for three servers:
\* stop() of a WebSocketServer that shares the HttpServer, or that has replaced a
\* socket server whose clients stay, stop() of a FujitsuServer whose WebSocket is
\* closed, and expose() of an OracleServer that is not activated or fails after
\* it has got the model.
EveryPromiseSettles ==
    /\ phase = "starting" ~> phase \in {"open", "failed", "lost"}
    /\ stop # None ~> \/ stop \in {"done", "failed"} \/ kind = "shared"
                      \/ \E c \in DOMAIN channel : ~channel[c].listed /\ ~Closed(c)
                      \/ kind = "fujitsu" /\ stop = "unsettled"
    /\ \A t \in Thing : exposing[t] \notin {None, "unsettled"} ~>
           exposing[t] \in {"done", "failed"} \/ (kind = "oracle" /\ exposing[t] = "unsettled")
=============================================================================
