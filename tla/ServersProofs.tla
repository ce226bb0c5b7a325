---------------------------- MODULE ServersProofs ----------------------------
(***************************************************************************)
(* Theorems about Servers, for every set of things and every number of     *)
(* channels, calls of expose() and events: the types, that destroyed       *)
(* things are not reached, and that channels carry what they have to.      *)
(***************************************************************************)
EXTENDS Servers, SequenceTheorems, TLAPS

ChannelType == [to : Thing, at : Name, since : Nat,
                state : {"open", "mute", "closed"}, listens : BOOLEAN, listed : BOOLEAN]

Outcomes == {None, "sending", "modelling", "registering", "unsettled", "done", "failed"}

(* TypeOK, with the bound on the channels that Open keeps, and with what   *)
(* OracleServer.expose() has looked at before it asks for the model.       *)
Types ==
    /\ TypeOK
    /\ Len(channel) \leq MaxChannels
    /\ \A t \in Thing : exposing[t] \in {"modelling", "registering"} => t \in Modelled

LEMMA SeqOfFunction ==
    ASSUME NEW S, NEW n \in Nat, NEW f \in [1 .. n -> S]
    PROVE  f \in Seq(S) /\ Len(f) = n
<1>1. QED
  BY SeqDef

LEMMA ChannelsTyped ==
    ASSUME Types
    PROVE  channel \in Seq(ChannelType) /\ \A c \in DOMAIN channel : channel[c] \in ChannelType
<1>1. channel \in Seq(ChannelType)
  BY DEF Types, TypeOK, ChannelType
<1>2. QED
  BY <1>1

(* A channel that expose() or a connection opens.                          *)
LEMMA OpenType ==
    ASSUME Types, NEW t \in Thing, NEW n \in Name, Open(t, n)
    PROVE  channel' \in Seq(ChannelType) /\ Len(channel') \leq MaxChannels
<1> DEFINE new == [to |-> t, at |-> n, since |-> Len(events), state |-> "open",
                   listens |-> t \notin completed, listed |-> TRUE]
<1>1. new \in ChannelType
  BY DEF Types, TypeOK, ChannelType
<1>2. channel \in Seq(ChannelType) /\ channel' = Append(channel, new)
  BY DEF Types, TypeOK, ChannelType, Open
<1>3. QED
  BY <1>1, <1>2, BoundsAssumption DEF Open

(* Channels that change one by one keep their number and their types.      *)
LEMMA ChangedType ==
    ASSUME Types, NEW new \in [DOMAIN channel -> ChannelType], channel' = new
    PROVE  channel' \in Seq(ChannelType) /\ Len(channel') = Len(channel)
<1>1. channel \in Seq(ChannelType)
  BY DEF Types, TypeOK, ChannelType
<1>2. DOMAIN channel = 1 .. Len(channel) /\ Len(channel) \in Nat
  BY <1>1
<1>3. QED
  BY <1>2, SeqOfFunction

LEMMA NameType ==
    ASSUME NEW t \in Thing, NEW taken
    PROVE  FreeName(t, taken) \in Name /\ <<t, 1>> \in Name /\ <<t, 2>> \in Name
<1>1. QED
  BY DEF FreeName, Name

LEMMA ExposeTypes == ASSUME Types, NEW t \in Thing, Expose(t) PROVE Types'
<1> USE DEF Outcomes
<1>1. /\ UNCHANGED <<kind, phase, stop, told, completed, events, heard>>
      /\ exposures' \in 0 .. MaxExposures[kind]
  BY BoundsAssumption DEF Expose, Types, TypeOK
<1>2. channel \in Seq(ChannelType)
  BY DEF Types, TypeOK, ChannelType
<1>3. /\ table' \in [Name -> Thing \cup {None}] /\ exposing' \in [Thing -> Outcomes]
      /\ names' \subseteq Name /\ paths' \in [Thing -> Name \cup {NoName}]
      /\ devices' \subseteq Modelled
      /\ channel' \in Seq(ChannelType) /\ Len(channel') \leq MaxChannels
  <2>1. CASE CoapExpose(t)
    <3>1. table' \in [Name -> Thing \cup {None}]
      BY <2>1, NameType DEF CoapExpose, Types, TypeOK
    <3>2. exposing' \in [Thing -> Outcomes]
      BY <2>1 DEF CoapExpose, Exposed, Types, TypeOK
    <3>3. QED
      BY <2>1, <3>1, <3>2, <1>2 DEF CoapExpose, Types, TypeOK
  <2>2. CASE MqttExpose(t)
    <3>1. CASE UNCHANGED <<table, channel>>
      BY <2>2, <3>1, <1>2 DEF MqttExpose, Exposed, Types, TypeOK
    <3>2. CASE /\ table' = [table EXCEPT ![FreeName(t, Taken)] = t]
               /\ Open(t, FreeName(t, Taken))
      <4>1. channel' \in Seq(ChannelType) /\ Len(channel') \leq MaxChannels
        BY <3>2, NameType, OpenType
      <4>2. QED
        BY <2>2, <3>2, <4>1, NameType DEF MqttExpose, Exposed, Types, TypeOK
    <3>3. QED
      BY <2>2, <3>1, <3>2 DEF MqttExpose
  <2>3. CASE WsExpose(t)
    <3>1. CASE UNCHANGED <<table, names, paths, channel>>
      BY <2>3, <3>1, <1>2 DEF WsExpose, Exposed, Types, TypeOK
    <3>2. CASE HasPort
      <4> DEFINE n == FreeName(t, names)
                 new == [c \in DOMAIN channel |->
                           IF channel[c].at = n THEN [channel[c] EXCEPT !.listed = FALSE]
                           ELSE channel[c]]
      <4>1. \A c \in DOMAIN channel : channel[c] \in ChannelType
        BY <1>2
      <4>2. new \in [DOMAIN channel -> ChannelType]
        BY <4>1 DEF ChannelType
      <4>3. channel' = new
        BY <2>3, <3>2 DEF WsExpose
      <4>4. channel' \in Seq(ChannelType) /\ Len(channel') \leq MaxChannels
        <5> HIDE DEF new
        <5>1. QED
          BY <4>2, <4>3, ChangedType DEF Types
      <4>5. /\ names' = names \cup {n} /\ paths' = [paths EXCEPT ![t] = n]
            /\ table' = [table EXCEPT ![n] = t] /\ devices' = devices
            /\ exposing' = [exposing EXCEPT ![t] = "done"]
        BY <2>3, <3>2 DEF WsExpose, Exposed
      <4>6. n \in Name
        BY NameType
      <4> HIDE DEF n, new
      <4>7. QED
        BY <4>4, <4>5, <4>6 DEF Types, TypeOK
    <3>3. QED
      BY <2>3, <3>1, <3>2 DEF WsExpose
  <2>4. CASE FujitsuExpose(t)
    BY <2>4, <1>2, NameType DEF FujitsuExpose, Exposed, Types, TypeOK
  <2>5. CASE OracleExpose(t)
    BY <2>5, <1>2 DEF OracleExpose, tableVars, Exposed, Types, TypeOK
  <2>6. QED
    BY <2>1, <2>2, <2>3, <2>4, <2>5 DEF Expose, Types, TypeOK, Kind
<1>4. \A s \in Thing : exposing'[s] \in {"modelling", "registering"} => s \in Modelled
  BY DEF Expose, CoapExpose, MqttExpose, WsExpose, FujitsuExpose, OracleExpose, Exposed,
         Types, TypeOK, Kind
<1>5. QED
  BY <1>1, <1>3, <1>4 DEF Types, TypeOK, ChannelType

LEMMA DestroyTypes == ASSUME Types, NEW t \in Thing, Destroy(t) PROVE Types'
<1>1. UNCHANGED <<kind, phase, stop, exposing, exposures, eventVars>>
  BY DEF Destroy
<1>2. told' \in [Thing -> {None, "true", "false", "rejected"}]
  BY DEF Destroy, Types, TypeOK
<1>3. /\ table' \in [Name -> Thing \cup {None}] /\ names' \subseteq Name
      /\ paths' = paths /\ devices' = devices
  BY DEF Destroy, WsDestroy, Unname, tableVars, Types, TypeOK
<1>4. QED
  BY <1>1, <1>2, <1>3 DEF Types, TypeOK, eventVars

(* The actions that change channels one by one.                            *)
LEMMA CompleteTypes == ASSUME Types, NEW t \in Thing, Complete(t) PROVE Types'
<1> DEFINE new == [c \in DOMAIN channel |->
                     IF channel[c].to = t THEN [channel[c] EXCEPT !.listens = FALSE]
                     ELSE channel[c]]
<1>1. \A c \in DOMAIN channel : channel[c] \in ChannelType
  BY ChannelsTyped
<1>2. new \in [DOMAIN channel -> ChannelType]
  BY <1>1 DEF ChannelType
<1>3. channel' = new
  BY DEF Complete
<1> HIDE DEF new
<1>4. channel' \in Seq(ChannelType) /\ Len(channel') \leq MaxChannels
  BY <1>2, <1>3, ChangedType DEF Types
<1>5. QED
  BY <1>4 DEF Complete, Types, TypeOK, ChannelType, promiseVars, tableVars

LEMMA StopTypes == ASSUME Types, Stop PROVE Types'
<1>1. UNCHANGED <<kind, exposing, exposures, told, tableVars, completed, events, heard>>
  BY DEF Stop
<1>2. phase' = "stopped" /\ stop' \in {None, "pending", "unsettled", "done", "failed"}
  BY DEF Stop, CoapStop, MqttStop, WsStop, FujitsuStop, OracleStop, Types, TypeOK, Kind
<1>3. channel' = channel \/ channel' = CloseListed
  BY DEF Stop, CoapStop, MqttStop, WsStop, FujitsuStop, OracleStop, Types, TypeOK, Kind
<1>4. channel' \in Seq(ChannelType) /\ Len(channel') \leq MaxChannels
  <2>1. channel \in Seq(ChannelType) /\ Len(channel) \leq MaxChannels
    BY DEF Types, TypeOK, ChannelType
  <2>2. \A c \in DOMAIN channel : channel[c] \in ChannelType
    BY <2>1
  <2>3. CloseListed \in [DOMAIN channel -> ChannelType]
    BY <2>2 DEF CloseListed, ChannelType
  <2>4. QED
    BY <1>3, <2>1, <2>3, ChangedType
<1>5. QED
  BY <1>1, <1>2, <1>4 DEF Types, TypeOK, ChannelType, tableVars

LEMMA DisconnectTypes == ASSUME Types, NEW c \in DOMAIN channel, Disconnect(c) PROVE Types'
<1>1. \A d \in DOMAIN channel : channel[d] \in ChannelType
  BY ChannelsTyped
<1>2. [channel EXCEPT ![c].state = "closed"] \in [DOMAIN channel -> ChannelType]
  BY <1>1 DEF ChannelType
<1>3. channel' \in Seq(ChannelType) /\ Len(channel') \leq MaxChannels
  BY <1>2, ChangedType DEF Disconnect, Types
<1>4. QED
  BY <1>3 DEF Disconnect, Types, TypeOK, ChannelType, promiseVars, tableVars

LEMMA EmitTypes == ASSUME Types, NEW t \in Thing, Emit(t) PROVE Types'
<1>1. events \in Seq(Thing) /\ Len(events) \in Nat /\ heard \in [Channel -> Seq(Nat)]
  BY DEF Types, TypeOK
<1>2. MaxEvents[kind] \in Nat
  BY BoundsAssumption DEF Types, TypeOK
<1>3. events' \in Seq(Thing) /\ Len(events') \leq MaxEvents[kind]
  BY <1>1, <1>2 DEF Emit, Types, TypeOK
<1>4. \A c \in Channel : Append(heard[c], Len(events) + 1) \in Seq(Nat)
  BY <1>1
<1>5. heard' \in [Channel -> Seq(Nat)]
  BY <1>1, <1>4 DEF Emit
<1>6. QED
  BY <1>3, <1>5 DEF Emit, Types, TypeOK, promiseVars, tableVars

LEMMA EmitBadTypes == ASSUME Types, NEW t \in Thing, EmitBad(t) PROVE Types'
<1>1. PICK first \in Listeners(t) :
        channel' = [channel EXCEPT ![first].listens = FALSE,
                      ![first].state = IF Closed(first) THEN "closed" ELSE "mute"]
  BY DEF EmitBad
<1>2. first \in DOMAIN channel
  BY DEF Listeners
<1>3. \A d \in DOMAIN channel : channel[d] \in ChannelType
  BY ChannelsTyped
<1> DEFINE new == [channel EXCEPT ![first].listens = FALSE,
                     ![first].state = IF Closed(first) THEN "closed" ELSE "mute"]
<1>4. new \in [DOMAIN channel -> ChannelType]
  <2>1. /\ DOMAIN new = DOMAIN channel
        /\ \A d \in DOMAIN channel : d # first => new[d] = channel[d]
    OBVIOUS
  <2>2. new[first] \in ChannelType
    BY <1>2, <1>3 DEF ChannelType
  <2>3. new = [d \in DOMAIN channel |-> new[d]]
    OBVIOUS
  <2> HIDE DEF new
  <2>4. QED
    BY <1>3, <2>1, <2>2, <2>3
<1>5. channel' = new
  BY <1>1
<1> HIDE DEF new
<1>6. channel' \in Seq(ChannelType) /\ Len(channel') \leq MaxChannels
  BY <1>4, <1>5, ChangedType DEF Types
<1>7. QED
  BY <1>6 DEF EmitBad, Types, TypeOK, ChannelType, promiseVars, tableVars

LEMMA ExposeGoesOnTypes == ASSUME Types, NEW t \in Thing, ExposeGoesOn(t) PROVE Types'
<1>1. UNCHANGED <<kind, phase, stop, exposures, told, table, names, paths, eventVars>>
  BY DEF ExposeGoesOn
<1>2. exposing' \in [Thing -> Outcomes]
  BY DEF ExposeGoesOn, FujitsuSent, OracleModel, OracleRegistered, Exposed, Outcomes,
         Types, TypeOK
<1>3. devices' \subseteq Modelled
  BY DEF ExposeGoesOn, OracleRegistered, Types, TypeOK
<1>4. \A s \in Thing : exposing'[s] \in {"modelling", "registering"} => s \in Modelled
  BY DEF ExposeGoesOn, FujitsuSent, OracleModel, OracleRegistered, Exposed, Types, TypeOK
<1>5. QED
  BY <1>1, <1>2, <1>3, <1>4 DEF Types, TypeOK, Outcomes, eventVars

LEMMA InitTypes == Init => Types
<1> SUFFICES ASSUME Init PROVE Types
  OBVIOUS
<1>1. [c \in Channel |-> <<>>] \in [Channel -> Seq(Nat)]
  OBVIOUS
<1>2. exposures \in 0 .. MaxExposures[kind]
  <2>1. kind \in Kind /\ exposures = 0
    BY DEF Init
  <2>2. MaxExposures[kind] \in Nat
    BY <2>1, BoundsAssumption
  <2>3. QED
    BY <2>1, <2>2
<1>3. channel = <<>> /\ events = <<>> /\ Len(channel) \leq MaxChannels
  BY BoundsAssumption DEF Init
<1>4. events \in Seq(Thing) /\ Len(events) \leq MaxEvents[kind] /\ channel \in Seq(ChannelType)
  <2>1. kind \in Kind /\ Len(events) = 0
    BY <1>3 DEF Init
  <2>2. MaxEvents[kind] \in Nat
    BY <2>1, BoundsAssumption
  <2>3. QED
    BY <1>3, <2>1, <2>2
<1>5. /\ told \in [Thing -> {None, "true", "false", "rejected"}]
      /\ exposing \in [Thing -> Outcomes] /\ table \in [Name -> Thing \cup {None}]
      /\ paths \in [Thing -> Name \cup {NoName}]
  BY DEF Init, Outcomes
<1>6. QED
  BY <1>1, <1>2, <1>3, <1>4, <1>5 DEF Init, Types, TypeOK, ChannelType, Outcomes, None

LEMMA TypesStep == Types /\ [Next]_vars => Types'
<1> SUFFICES ASSUME Types, [Next]_vars PROVE Types'
  OBVIOUS
<1>1. CASE Start
  BY <1>1 DEF Start, CoapStart, MqttStart, WsStart, FujitsuStart, OracleStart, Types, TypeOK,
              Kind, promiseVars, tableVars, eventVars
<1>2. CASE Started \/ Lose \/ Stopped
  BY <1>2 DEF Started, Lose, Stopped, Types, TypeOK, promiseVars, tableVars, eventVars
<1>3. ASSUME NEW n \in Name, Connect(n) PROVE Types'
  <2>1. table[n] \in Thing
    BY <1>3 DEF Connect, Types, TypeOK
  <2>2. channel' \in Seq(ChannelType) /\ Len(channel') \leq MaxChannels
    BY <1>3, <2>1, OpenType DEF Connect
  <2>3. QED
    BY <1>3, <2>2 DEF Connect, Types, TypeOK, ChannelType, promiseVars, tableVars
<1>4. CASE UNCHANGED vars
  BY <1>4 DEF vars, Types, TypeOK, promiseVars, tableVars, eventVars
<1>5. QED
  BY <1>1, <1>2, <1>3, <1>4, StopTypes, ExposeTypes, ExposeGoesOnTypes, DestroyTypes,
     CompleteTypes, EmitTypes, EmitBadTypes, DisconnectTypes DEF Next

LEMMA TypesInvariant == Spec => []Types
<1>1. QED
  BY InitTypes, TypesStep, PTL DEF Spec

(* Servers keep their types, whatever the Servient and the things do.      *)
THEOREM TypeCorrect == Spec => []TypeOK
<1>1. Types => TypeOK
  BY DEF Types
<1>2. QED
  BY <1>1, TypesInvariant, PTL

-----------------------------------------------------------------------------
(* destroy()                                                               *)

(* An OracleServer keeps its things in the gateway and has no names.       *)
OracleNameless == kind = "oracle" => \A n \in Name : table[n] = None

LEMMA OracleNamelessStep == Types /\ OracleNameless /\ [Next]_vars => OracleNameless'
<1> SUFFICES ASSUME OracleNameless, [Next]_vars PROVE OracleNameless'
  OBVIOUS
<1>1. UNCHANGED kind
  BY DEF Next, vars, Start, Started, Lose, Stop, Stopped, Expose, ExposeGoesOn, Destroy, Complete,
         Emit, EmitBad, Connect, Disconnect
<1>2. kind = "oracle" => UNCHANGED table
  BY DEF Next, vars, Start, Started, Lose, Stop, Stopped, Expose, OracleExpose, ExposeGoesOn,
         Destroy, Complete, Emit, EmitBad, Connect, Disconnect, promiseVars, tableVars
<1>3. QED
  BY <1>1, <1>2 DEF OracleNameless

(* A name comes to lead to the thing that is exposed, which is not gone;   *)
(* of the thing that goes, destroy() finds every name.                     *)
LEMMA NotReachedStep ==
    Types /\ OracleNameless /\ DestroyedNotReached /\ [Next]_vars => DestroyedNotReached'
<1> SUFFICES ASSUME Types, OracleNameless, DestroyedNotReached, [Next]_vars,
                    kind \notin {"websocket", "shared"}
             PROVE  \A n \in Name : table'[n] \notin Gone'
  BY DEF DestroyedNotReached, Next, vars, Start, Started, Lose, Stop, Stopped, Expose,
         ExposeGoesOn, Destroy, Complete, Emit, EmitBad, Connect, Disconnect
<1>1. ASSUME UNCHANGED <<table, told>> PROVE \A n \in Name : table'[n] \notin Gone'
  BY <1>1 DEF DestroyedNotReached, Gone
<1>2. ASSUME NEW t \in Thing, Expose(t) PROVE \A n \in Name : table'[n] \notin Gone'
  <2>1. t \notin Gone /\ Gone' = Gone
    BY <1>2 DEF Expose, Gone
  <2>2. \A n \in Name : table'[n] \in {table[n], t}
    BY <1>2, NameType DEF Expose, CoapExpose, MqttExpose, FujitsuExpose, OracleExpose,
                          tableVars, Types, TypeOK, Kind
  <2>3. QED
    BY <2>1, <2>2 DEF DestroyedNotReached
<1>3. ASSUME NEW t \in Thing, Destroy(t) PROVE \A n \in Name : table'[n] \notin Gone'
  <2>1. Gone' \subseteq Gone \cup {t}
    BY <1>3 DEF Destroy, Gone, Types, TypeOK
  <2>2. CASE kind # "oracle"
    <3>1. \A n \in Name : table'[n] = IF table[n] = t THEN None ELSE table[n]
      BY <1>3, <2>2 DEF Destroy, Unname
    <3>2. None \notin Gone'
      BY BoundsAssumption DEF Gone
    <3>3. QED
      BY <2>1, <3>1, <3>2 DEF DestroyedNotReached, Types, TypeOK
  <2>3. CASE kind = "oracle"
    BY <1>3, <2>3, BoundsAssumption DEF Destroy, OracleNameless, tableVars, Gone
  <2>4. QED
    BY <2>2, <2>3
<1>4. QED
  BY <1>1, <1>2, <1>3
     DEF Next, vars, Start, Started, Lose, Stop, Stopped, ExposeGoesOn, Complete, Emit, EmitBad,
         Connect, Disconnect, promiseVars, tableVars

(* destroy() of CoapServer, MqttBrokerServer, FujitsuServer and            *)
(* OracleServer: no name leads to a thing that has been destroyed.         *)
THEOREM NotReached == Spec => []DestroyedNotReached
<1>1. Init => OracleNameless /\ DestroyedNotReached
  BY BoundsAssumption DEF Init, OracleNameless, DestroyedNotReached, Gone
<1>2. QED
  BY <1>1, TypesInvariant, OracleNamelessStep, NotReachedStep, PTL DEF Spec

-----------------------------------------------------------------------------
(* Events                                                                  *)

(* EachHearsAll, for one channel, with its events one by one.              *)
Hears(c) ==
    /\ \A k \in DOMAIN heard[c] :
         /\ heard[c][k] \in DOMAIN events /\ heard[c][k] > channel[c].since
         /\ events[heard[c][k]] = channel[c].to
    /\ channel[c].state = "open" =>
         \A i \in DOMAIN events : i > channel[c].since /\ events[i] = channel[c].to =>
             \E k \in DOMAIN heard[c] : heard[c][k] = i
    /\ \A j, k \in DOMAIN heard[c] : j < k => heard[c][j] < heard[c][k]

(* Who is still to hear events listens, and nobody hears of a thing that   *)
(* has completed its subjects; channels that are to come are empty.        *)
Listening ==
    /\ \A c \in DOMAIN channel :
         /\ channel[c].to \in completed => ~channel[c].listens
         /\ channel[c].state = "open" /\ channel[c].to \notin completed => channel[c].listens
         /\ channel[c].since \leq Len(events)
    /\ \A c \in Channel \ DOMAIN channel : heard[c] = <<>>

HearsInv == Listening /\ \A c \in DOMAIN channel : Hears(c)

LEMMA HearsAll == HearsInv => EachHearsAll
<1>1. QED
  BY DEF HearsInv, Hears, EachHearsAll

(* Nothing is heard, and what changes of the channels opens none again.    *)
LEMMA NothingHeard ==
    ASSUME Types, HearsInv, UNCHANGED <<events, heard>>, DOMAIN channel' = DOMAIN channel,
           \A c \in DOMAIN channel :
               /\ channel'[c].to = channel[c].to /\ channel'[c].since = channel[c].since
               /\ channel'[c].state = "open" => channel[c].state = "open"
               /\ channel'[c].to \in completed' => ~channel'[c].listens
               /\ channel'[c].state = "open" /\ channel'[c].to \notin completed' =>
                      channel'[c].listens
    PROVE  HearsInv'
<1>1. Listening'
  BY DEF HearsInv, Listening
<1>2. ASSUME NEW c \in DOMAIN channel PROVE Hears(c)'
  BY <1>2 DEF HearsInv, Hears
<1>3. QED
  BY <1>1, <1>2 DEF HearsInv

(* A channel that has just been opened has nothing to hear yet.            *)
LEMMA OpenHears ==
    ASSUME Types, HearsInv, NEW t \in Thing, NEW n \in Name, Open(t, n),
           UNCHANGED <<events, heard, completed>>
    PROVE  HearsInv'
<1>. PICK l : l = Len(channel) + 1
  OBVIOUS
<1>1. /\ channel \in Seq(ChannelType) /\ Len(channel) \in Nat /\ Len(events) \in Nat
      /\ DOMAIN events = 1 .. Len(events)
  BY ChannelsTyped DEF Types, TypeOK
<1>2. DOMAIN channel' = DOMAIN channel \cup {l} /\ l \notin DOMAIN channel
  BY <1>1 DEF Open
<1>3. /\ \A c \in DOMAIN channel : channel'[c] = channel[c]
      /\ channel'[l] = [to |-> t, at |-> n, since |-> Len(events), state |-> "open",
                        listens |-> t \notin completed, listed |-> TRUE]
  BY <1>1 DEF Open
<1>4. l \in Channel \ DOMAIN channel
  BY <1>1, BoundsAssumption DEF Open, Channel
<1>5. heard[l] = <<>>
  BY <1>4 DEF HearsInv, Listening
<1>6. Listening'
  <2>1. \A c \in DOMAIN channel' :
          /\ channel'[c].to \in completed' => ~channel'[c].listens
          /\ channel'[c].state = "open" /\ channel'[c].to \notin completed' =>
                channel'[c].listens
          /\ channel'[c].since \leq Len(events')
    <3>1. /\ channel'[l].to = t /\ channel'[l].listens = (t \notin completed)
          /\ channel'[l].since = Len(events)
      BY <1>3
    <3>2. Len(events) \leq Len(events)
      BY <1>1
    <3>3. QED
      BY <1>2, <1>3, <3>1, <3>2 DEF HearsInv, Listening
  <2>2. \A c \in Channel \ DOMAIN channel' : heard'[c] = <<>>
    BY <1>2 DEF HearsInv, Listening
  <2>3. QED
    BY <2>1, <2>2 DEF Listening
<1>7. Hears(l)'
  <2>1. heard'[l] = <<>> /\ channel'[l].since = Len(events) /\ events' = events
    BY <1>3, <1>5
  <2>2. \A i \in DOMAIN events : ~(i > Len(events))
    BY <1>1
  <2>3. QED
    BY <2>1, <2>2 DEF Hears
<1>8. ASSUME NEW c \in DOMAIN channel PROVE Hears(c)'
  BY <1>3, <1>8 DEF HearsInv, Hears
<1>9. QED
  BY <1>1, <1>2, <1>6, <1>7, <1>8 DEF HearsInv

(* A number that is greater than all of an increasing sequence is added.   *)
LEMMA Increasing ==
    ASSUME NEW s \in Seq(Nat), NEW m \in Nat, NEW t, t = Append(s, m),
           \A k \in DOMAIN s : s[k] < m,
           \A j, k \in DOMAIN s : j < k => s[j] < s[k]
    PROVE  /\ \A k \in DOMAIN t : t[k] = m \/ (k \in DOMAIN s /\ t[k] = s[k])
           /\ \A k \in DOMAIN s : k \in DOMAIN t /\ t[k] = s[k]
           /\ \E k \in DOMAIN t : t[k] = m
           /\ \A j, k \in DOMAIN t : j < k => t[j] < t[k]
<1>1. /\ Len(s) \in Nat /\ DOMAIN s = 1 .. Len(s)
      /\ DOMAIN t = 1 .. Len(s) + 1 /\ t[Len(s) + 1] = m
      /\ \A k \in DOMAIN s : t[k] = s[k] /\ s[k] \in Nat
  OBVIOUS
<1>2. \A k \in DOMAIN t : k \in DOMAIN s \/ k = Len(s) + 1
  BY <1>1
<1>3. ASSUME NEW j \in DOMAIN t, NEW k \in DOMAIN t, j < k PROVE t[j] < t[k]
  <2>1. j \in DOMAIN s
    BY <1>1, <1>3
  <2>2. CASE k \in DOMAIN s
    BY <1>1, <1>3, <2>1, <2>2
  <2>3. CASE k = Len(s) + 1
    BY <1>1, <2>1, <2>3
  <2>4. QED
    BY <1>2, <2>2, <2>3
<1>4. QED
  BY <1>1, <1>2, <1>3

(* An event is heard by every listener with an open channel, and by them   *)
(* only; of a completed thing there is neither an event nor a listener.    *)
LEMMA EmitHears ==
    ASSUME Types, HearsInv, NEW t \in Thing, Emit(t)
    PROVE  HearsInv'
<1> DEFINE m == Len(events) + 1
           reached(c) == c \in Listeners(t) /\ channel[c].state = "open"
<1>1. /\ events \in Seq(Thing) /\ Len(events) \in Nat /\ DOMAIN events = 1 .. Len(events)
      /\ heard \in [Channel -> Seq(Nat)]
      /\ DOMAIN channel = 1 .. Len(channel) /\ DOMAIN channel \subseteq Channel
  BY ChannelsTyped, BoundsAssumption DEF Types, TypeOK, Channel
<1>2. UNCHANGED <<channel, completed>>
  BY DEF Emit
<1>3. CASE t \in completed
  <2>1. \A c \in DOMAIN channel : ~reached(c)
    BY <1>3 DEF HearsInv, Listening, Listeners
  <2>2. \A c \in Channel : ~reached(c)
    BY <2>1 DEF Listeners
  <2>3. \A c \in Channel : heard'[c] = heard[c]
    BY <2>2 DEF Emit
  <2>4. events' = events /\ heard' = heard
    BY <1>1, <1>3, <2>3 DEF Emit
  <2>5. QED
    BY <1>2, <2>4, NothingHeard DEF HearsInv, Listening
<1>4. CASE t \notin completed
  <2>1. /\ events' = Append(events, t) /\ Len(events') = m /\ DOMAIN events' = 1 .. m
        /\ \A i \in DOMAIN events : events'[i] = events[i]
        /\ events'[m] = t
    BY <1>1, <1>4 DEF Emit
  <2>2. \A c \in Channel : heard'[c] = IF reached(c) THEN Append(heard[c], m) ELSE heard[c]
    BY DEF Emit
  <2>3. Listening'
    <3>1. \A c \in DOMAIN channel : channel[c].since \in Nat /\ channel[c].since \leq Len(events)
      BY ChannelsTyped DEF ChannelType, HearsInv, Listening
    <3>2. \A c \in DOMAIN channel' : channel'[c].since \leq Len(events')
      BY <1>1, <1>2, <2>1, <3>1
    <3>3. \A c \in Channel \ DOMAIN channel' : heard'[c] = <<>>
      BY <1>2, <2>2 DEF HearsInv, Listening, Listeners
    <3>4. QED
      BY <1>2, <3>2, <3>3 DEF HearsInv, Listening
  <2>4. ASSUME NEW c \in DOMAIN channel PROVE Hears(c)'
    <3>1. Hears(c) /\ channel'[c] = channel[c]
      BY <1>2, <2>4 DEF HearsInv
    <3>2. CASE reached(c)
      <4>1. heard'[c] = Append(heard[c], m) /\ channel[c].to = t
        BY <1>1, <2>2, <2>4, <3>2 DEF Listeners
      <4>2. /\ heard[c] \in Seq(Nat) /\ m \in Nat
            /\ channel[c].since \in Nat /\ channel[c].since < m
        <5>1. channel[c].since \in Nat /\ channel[c].since \leq Len(events)
          BY <2>4, ChannelsTyped DEF HearsInv, Listening, ChannelType
        <5>2. QED
          BY <1>1, <2>4, <5>1
      <4>3. /\ \A k \in DOMAIN heard[c] : heard[c][k] < m
            /\ \A j, k \in DOMAIN heard[c] : j < k => heard[c][j] < heard[c][k]
        BY <1>1, <3>1 DEF Hears
      <4>4. /\ \A k \in DOMAIN heard'[c] :
                 heard'[c][k] = m \/ (k \in DOMAIN heard[c] /\ heard'[c][k] = heard[c][k])
            /\ \A k \in DOMAIN heard[c] : k \in DOMAIN heard'[c] /\ heard'[c][k] = heard[c][k]
            /\ \E k \in DOMAIN heard'[c] : heard'[c][k] = m
            /\ \A j, k \in DOMAIN heard'[c] : j < k => heard'[c][j] < heard'[c][k]
        <5> HIDE DEF m, reached
        <5>1. QED
          BY <4>1, <4>2, <4>3, Increasing
      <4>5. \A k \in DOMAIN heard'[c] :
              /\ heard'[c][k] \in DOMAIN events' /\ heard'[c][k] > channel[c].since
              /\ events'[heard'[c][k]] = t
        <5>1. m \in DOMAIN events' /\ m > channel[c].since /\ events'[m] = t
          BY <2>1, <4>2
        <5>2. \A k \in DOMAIN heard[c] :
                /\ heard[c][k] \in DOMAIN events' /\ heard[c][k] > channel[c].since
                /\ events'[heard[c][k]] = t
          BY <1>1, <2>1, <3>1, <4>1 DEF Hears
        <5> HIDE DEF m
        <5>3. QED
          BY <4>4, <5>1, <5>2
      <4>6. \A i \in DOMAIN events' : i > channel[c].since /\ events'[i] = t =>
              \E k \in DOMAIN heard'[c] : heard'[c][k] = i
        <5>1. \A i \in DOMAIN events' : i = m \/ i \in DOMAIN events
          BY <1>1, <2>1
        <5>2. QED
          BY <2>1, <3>1, <3>2, <4>1, <4>4, <5>1 DEF Hears
      <4>7. QED
        BY <3>1, <4>1, <4>4, <4>5, <4>6 DEF Hears
    <3>3. CASE ~reached(c)
      <4>1. heard'[c] = heard[c]
        BY <1>1, <2>2, <2>4, <3>3
      <4>2. channel[c].state = "open" => channel[c].to # t
        BY <1>4, <2>4, <3>3 DEF HearsInv, Listening, Listeners
      <4>3. QED
        BY <1>1, <2>1, <3>1, <4>1, <4>2 DEF Hears
    <3>4. QED
      BY <3>2, <3>3
  <2>5. QED
    BY <1>2, <2>3, <2>4 DEF HearsInv
<1>5. QED
  BY <1>3, <1>4

LEMMA ExposeHears ==
    ASSUME Types, HearsInv, NEW t \in Thing, Expose(t)
    PROVE  HearsInv'
<1>1. UNCHANGED <<events, heard, completed>>
  BY DEF Expose
<1>2. CASE UNCHANGED channel
  BY <1>1, <1>2, NothingHeard DEF HearsInv, Listening
<1>3. CASE Open(t, FreeName(t, Taken))
  BY <1>1, <1>3, OpenHears, NameType
<1>4. CASE WsExpose(t) /\ HasPort
  <2>1. \A c \in DOMAIN channel : channel[c] \in ChannelType
    BY ChannelsTyped
  <2>2. /\ DOMAIN channel' = DOMAIN channel
        /\ \A c \in DOMAIN channel :
             /\ channel'[c].to = channel[c].to /\ channel'[c].since = channel[c].since
             /\ channel'[c].state = channel[c].state
             /\ channel'[c].listens = channel[c].listens
    BY <1>4, <2>1 DEF WsExpose, ChannelType
  <2>3. QED
    BY <1>1, <2>2, NothingHeard DEF HearsInv, Listening
<1>5. QED
  BY <1>2, <1>3, <1>4
     DEF Expose, CoapExpose, MqttExpose, WsExpose, FujitsuExpose, OracleExpose, tableVars,
         Types, TypeOK, Kind

(* The channels that a listener, a client, stop() or destroy() closes.     *)
LEMMA CloseHears ==
    ASSUME Types, HearsInv,
           \/ \E t \in Thing : Complete(t) \/ EmitBad(t)
           \/ \E c \in DOMAIN channel : Disconnect(c)
           \/ Stop
    PROVE  HearsInv'
<1>1. \A c \in DOMAIN channel : channel[c] \in ChannelType
  BY ChannelsTyped
<1>2. CASE \E t \in Thing : Complete(t)
  BY <1>1, <1>2, NothingHeard DEF Complete, ChannelType, HearsInv, Listening
<1>3. ASSUME NEW t \in Thing, EmitBad(t) PROVE HearsInv'
  <2>1. UNCHANGED <<events, heard, completed>>
    BY <1>3 DEF EmitBad
  <2>2. PICK first \in DOMAIN channel :
          channel' = [channel EXCEPT ![first].listens = FALSE,
                                     ![first].state = "mute"]
    BY <1>3 DEF EmitBad, Listeners
  <2>3. /\ DOMAIN channel' = DOMAIN channel
        /\ \A c \in DOMAIN channel \ {first} : channel'[c] = channel[c]
        /\ channel'[first].to = channel[first].to /\ ~channel'[first].listens
        /\ channel'[first].since = channel[first].since /\ channel'[first].state # "open"
    BY <1>1, <2>2 DEF ChannelType
  <2>4. QED
    BY <2>1, <2>3, NothingHeard DEF HearsInv, Listening
<1>4. ASSUME NEW d \in DOMAIN channel, Disconnect(d) PROVE HearsInv'
  <2>1. UNCHANGED <<events, heard, completed>>
    BY <1>4 DEF Disconnect
  <2>2. /\ DOMAIN channel' = DOMAIN channel
        /\ \A c \in DOMAIN channel \ {d} : channel'[c] = channel[c]
        /\ channel'[d].to = channel[d].to /\ channel'[d].listens = channel[d].listens
        /\ channel'[d].since = channel[d].since /\ channel'[d].state # "open"
    BY <1>1, <1>4 DEF Disconnect, ChannelType
  <2>3. QED
    BY <2>1, <2>2, NothingHeard DEF HearsInv, Listening
<1>5. CASE Stop
  <2>1. UNCHANGED <<events, heard, completed>>
    BY <1>5 DEF Stop
  <2>2. channel' = channel \/ channel' = CloseListed
    BY <1>5 DEF Stop, CoapStop, MqttStop, WsStop, FujitsuStop, OracleStop, Types, TypeOK, Kind
  <2>3. /\ DOMAIN channel' = DOMAIN channel
        /\ \A c \in DOMAIN channel :
             /\ channel'[c].to = channel[c].to /\ channel'[c].since = channel[c].since
             /\ channel'[c].state = "open" => channel[c].state = "open"
             /\ channel'[c].listens = channel[c].listens
    BY <1>1, <2>2 DEF CloseListed, ChannelType
  <2>4. QED
    BY <2>1, <2>3, NothingHeard DEF HearsInv, Listening
<1>6. QED
  BY <1>2, <1>3, <1>4, <1>5

LEMMA HearsStep == Types /\ HearsInv /\ [Next]_vars => HearsInv'
<1> SUFFICES ASSUME Types, HearsInv, [Next]_vars PROVE HearsInv'
  OBVIOUS
<1>1. CASE UNCHANGED eventVars
  BY <1>1, NothingHeard DEF HearsInv, Listening, eventVars
<1>2. ASSUME NEW n \in Name, Connect(n) PROVE HearsInv'
  BY <1>2, OpenHears DEF Connect, Types, TypeOK
<1>3. QED
  BY <1>1, <1>2, ExposeHears, EmitHears, CloseHears
     DEF Next, vars, Start, Started, Lose, Stopped, ExposeGoesOn, Destroy

(* The listeners of WebSocketServer and MqttBrokerServer: every channel    *)
(* carries what its thing emits from its opening to its end, once and in   *)
(* order, however often the thing is exposed and whatever else happens.    *)
THEOREM EachHears == Spec => []EachHearsAll
<1>1. Init => HearsInv
  BY DEF Init, HearsInv, Listening, Hears
<1>2. QED
  BY <1>1, TypesInvariant, HearsStep, HearsAll, PTL DEF Spec
=============================================================================
