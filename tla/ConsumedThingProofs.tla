------------------------ MODULE ConsumedThingProofs ------------------------
(***************************************************************************)
(* Theorems about ConsumedThing, for every set of Thing Descriptions and   *)
(* every number of calls: the types, the clients that requests go through, *)
(* the intervals of Modbus subscriptions, and that the subscriptions of    *)
(* all protocol clients are what Subscription promises.                    *)
(***************************************************************************)
EXTENDS ConsumedThing, WellFoundedInduction, TLAPS

LEMMA LeastNatural ==
    ASSUME NEW S, S \subseteq Nat, S # {}
    PROVE  \E m \in S : \A n \in S : m <= n
<1>1. IsWellFoundedOn(OpToRel(<, Nat), Nat)
  BY NatLessThanWellFounded
<1>2. PICK m \in S : \A n \in S : ~(<<n, m>> \in OpToRel(<, Nat))
  BY <1>1, WFMin
<1>3. \A n \in S : ~(n < m)
  BY <1>2 DEF OpToRel
<1>4. QED
  BY <1>3

LEMMA MinIn ==
    ASSUME NEW S, S \subseteq Nat, S # {}
    PROVE  Min(S) \in S
<1>1. \E m \in S : \A n \in S : m <= n
  BY LeastNatural
<1>2. QED
  BY <1>1 DEF Min

-----------------------------------------------------------------------------
(* The form and the client of a request                                    *)

LEMMA FormsTyped ==
    ASSUME thing \in Thing, NEW c \in Call, NEW a \in thing.asks[c]
    PROVE  /\ a.op \in Ops /\ a.index \in Nat /\ a.name = Affordance(a.op)
           /\ Forms(a) \in Seq(FormType)
           /\ DOMAIN Forms(a) \subseteq Nat \ {0}
           /\ \A i \in DOMAIN Forms(a) : Forms(a)[i] \in FormType
<1>1. a.op \in Ops /\ a.index \in Nat /\ a.name = Affordance(a.op)
  BY ThingAssumption
<1>2. Forms(a) \in Seq(FormType)
  BY ThingAssumption DEF Forms
<1>3. QED
  BY <1>1, <1>2

LEMMA ChosenForm ==
    ASSUME TypeOK, NEW c \in Call, NEW a \in thing.asks[c], Chosen(a) # 0
    PROVE  /\ Chosen(a) \in DOMAIN Forms(a)
           /\ Forms(a)[Chosen(a)].scheme \in factories
<1> DEFINE known  == {i \in DOMAIN Forms(a) : Forms(a)[i].scheme \in factories}
           cached == {i \in DOMAIN Forms(a) : Forms(a)[i].scheme \in DOMAIN cache}
<1>1. known \subseteq Nat /\ cached \subseteq Nat /\ cached \subseteq known
  BY FormsTyped DEF TypeOK
<1>2. known # {} => Min(known) \in known
  BY <1>1, MinIn
<1>3. cached # {} => Min(cached) \in cached
  BY <1>1, MinIn
<1>4. Chosen(a) \in known
  BY <1>1, <1>2, <1>3 DEF Chosen
<1>5. QED
  BY <1>4

LEMMA FoundForm ==
    ASSUME TypeOK, NEW c \in Call, NEW a \in thing.asks[c], NEW s,
           FindForm(Forms(a), a.op, s) # 0
    PROVE  LET i == FindForm(Forms(a), a.op, s)
           IN  i \in DOMAIN Forms(a) /\ Offers(Forms(a)[i], a.op) /\ Forms(a)[i].scheme = s
<1> DEFINE fit == {i \in DOMAIN Forms(a) : Offers(Forms(a)[i], a.op) /\ Forms(a)[i].scheme = s}
<1>1. fit \subseteq Nat
  BY FormsTyped DEF TypeOK
<1>2. FindForm(Forms(a), a.op, s) = IF fit = {} THEN 0 ELSE Min(fit)
  BY DEF FindForm
<1>3. FindForm(Forms(a), a.op, s) \in fit
  BY <1>1, <1>2, MinIn
<1>4. QED
  BY <1>3

(* Client k and form i of call c, as getClientFor() chooses them.          *)
Chooses(c, a, i, s, k) ==
    /\ i \in DOMAIN Forms(a) /\ Forms(a)[i] \in FormType
    /\ s = Forms(a)[i].scheme /\ s \in factories
    /\ k = ClientFor(c, a, s) /\ KeepClient(c, a, s)
    /\ a.index = 0 => Offers(Forms(a)[i], a.op)
    /\ IsKept(s) => ~Refuses(s)

(* A call is refused before a client is chosen, or with one, or its        *)
(* request is sent.                                                        *)
LEMMA StartCases ==
    ASSUME TypeOK, NEW c \in Call, Start(c)
    PROVE  /\ promise[c] = "idle"
           /\ UNCHANGED <<thing, factories, credentials, performed, bundle>>
           /\ \E a \in thing.asks[c] :
                /\ asked' = [asked EXCEPT ![c] = a]
                /\ \/ Rejects(c) /\ UNCHANGED <<clientVars, via>>
                   \/ /\ Rejects(c) /\ UNCHANGED via
                      /\ \E s \in factories : KeepClient(c, a, s) /\ (IsKept(s) => ~Refuses(s))
                   \/ \E i, s, k :
                        /\ Chooses(c, a, i, s, k) /\ Send(c, a, i, k)
                        /\ via' = [via EXCEPT ![c] = [client |-> k, form |-> i]]
<1>1. promise[c] = "idle" /\ UNCHANGED <<thing, factories, credentials, performed, bundle>>
  BY DEF Start
<1> DEFINE S(a) == Forms(a)[Chosen(a)].scheme
           I(a) == IF a.index # 0 THEN Chosen(a) ELSE FindForm(Forms(a), a.op, S(a))
<1>2. PICK a \in Invites(c) :
        /\ asked' = [asked EXCEPT ![c] = a]
        /\ IF Chosen(a) = 0 \/ (Chosen(a) # 0 /\ IsKept(S(a)) /\ Refuses(S(a)))
           THEN Rejects(c) /\ UNCHANGED <<clientVars, via>>
           ELSE /\ KeepClient(c, a, S(a))
                /\ IF I(a) = 0 THEN Rejects(c) /\ UNCHANGED via
                   ELSE /\ via' = [via EXCEPT ![c] = [client |-> ClientFor(c, a, S(a)),
                                                      form |-> I(a)]]
                        /\ Send(c, a, I(a), ClientFor(c, a, S(a)))
  BY DEF Start
<1>3. a \in thing.asks[c]
  BY DEF Invites
<1>4. CASE Chosen(a) = 0 \/ (IsKept(S(a)) /\ Refuses(S(a)))
  <2>1. Rejects(c) /\ UNCHANGED <<clientVars, via>>
    BY <1>2, <1>4
  <2>2. QED
    BY <1>1, <1>2, <1>3, <2>1
<1>5. CASE Chosen(a) # 0 /\ ~(IsKept(S(a)) /\ Refuses(S(a)))
  <2>1. Chosen(a) \in DOMAIN Forms(a) /\ S(a) \in factories
    BY <1>3, <1>5, ChosenForm
  <2>2. KeepClient(c, a, S(a))
    BY <1>2, <1>5
  <2>3. CASE I(a) = 0
    <3>1. Rejects(c) /\ UNCHANGED via
      BY <1>2, <1>5, <2>3
    <3>2. QED
      BY <1>1, <1>2, <1>3, <1>5, <2>1, <2>2, <3>1
  <2>4. CASE I(a) # 0
    <3>1. /\ I(a) \in DOMAIN Forms(a) /\ Forms(a)[I(a)].scheme = S(a)
          /\ a.index = 0 => Offers(Forms(a)[I(a)], a.op)
      BY <1>3, <2>1, <2>4, FoundForm
    <3>2. Forms(a)[I(a)] \in FormType
      BY <1>3, <3>1, FormsTyped DEF TypeOK
    <3>3. Chooses(c, a, I(a), S(a), ClientFor(c, a, S(a)))
      BY <1>5, <2>1, <2>2, <3>1, <3>2 DEF Chooses
    <3>4. /\ via' = [via EXCEPT ![c] = [client |-> ClientFor(c, a, S(a)), form |-> I(a)]]
          /\ Send(c, a, I(a), ClientFor(c, a, S(a)))
      BY <1>2, <1>5, <2>4
    <3> HIDE DEF S, I
    <3>5. QED
      BY <1>1, <1>2, <1>3, <3>3, <3>4
  <2>5. QED
    BY <2>3, <2>4
<1>6. QED
  BY <1>4, <1>5

(* What a request that is sent does to the subscriptions.                  *)
LEMMA SendCases ==
    ASSUME thing \in Thing, NEW c \in Call, NEW a \in thing.asks[c],
           NEW i \in DOMAIN Forms(a), NEW k, Send(c, a, i, k)
    PROVE  LET b == BindingOf(Forms(a)[i])
               h == HrefOf(a, i)
           IN  \/ a.op \notin Ends /\ (Rejects(c) \/ Waits(c))
               \/ a.op \in Begins /\ h \in Href /\ b \in Binding /\ Subscribe(c, b, k, h)
               \/ a.op \in Ends /\ h \in Href /\ Unlink(c, b, k, h)
<1> DEFINE f == Forms(a)[i]
           b == BindingOf(f)
           h == HrefOf(a, i)
<1>1. f \in FormType /\ a.op \in Ops /\ a.name = Affordance(a.op)
  BY FormsTyped
<1>2. f.scheme \notin {"file", "netconf", "ws"} => b \in Binding
  BY <1>1 DEF BindingOf, Binding, FormType
<1>3. a.op \in Begins \cup Ends => h \in Href
  <2>1. a.op \in Begins \cup Ends => a.name \in {"property", "event"}
    BY <1>1 DEF Affordance, Begins, Ends
  <2>2. a.name \in DOMAIN thing.forms /\ i \in DOMAIN thing.forms[a.name]
    BY DEF Forms
  <2>3. Forms(a)[i].template \in BOOLEAN
    BY <1>1 DEF FormType
  <2>4. (Forms(a)[i].template /\ a.op \notin Ends) \in BOOLEAN
    OBVIOUS
  <2>5. QED
    BY <2>1, <2>2, <2>4, ThingAssumption DEF HrefOf
<1>4. CASE a.op \in Begins
  <2>1. a.op \notin Ends
    BY <1>4 DEF Begins, Ends
  <2>2. QED
    BY <1>2, <1>3, <1>4, <2>1 DEF Send
<1>5. CASE a.op \in Ends
  <2>1. a.op \notin Begins
    BY <1>5 DEF Begins, Ends
  <2>2. Unlink(c, b, k, h)
    BY <1>5, <2>1 DEF Send
  <2>3. QED
    BY <1>3, <1>5, <2>2
<1>6. CASE a.op \notin Begins \cup Ends
  BY <1>6 DEF Send
<1>7. QED
  BY <1>4, <1>5, <1>6

LEMMA ClientTyped ==
    ASSUME TypeOK, NEW c \in Call, NEW a, NEW s
    PROVE  ClientFor(c, a, s) \in Call
<1>1. QED
  BY DEF TypeOK, ClientFor, IsNew

-----------------------------------------------------------------------------
(* Types of the subscriptions                                              *)

LEMMA OpenedTypes ==
    ASSUME SubTypeOK, NEW c \in Call, NEW b \in Binding, NEW k \in Call, NEW h \in Href,
           NEW l \in {"polling", "listening", "quiet"}, NEW n \in {0, 1},
           Opened(c, b, k, h, l, n)
    PROVE  /\ sub' \in [Call -> Sub \cup {NoSub}]
           /\ link' \in [Call -> {"none", "polling", "listening", "quiet", "ended"}]
           /\ reads' \in [Call -> 0 .. MaxReads]
           /\ promise' \in [Call -> {"idle", "pending", "resolved", "rejected"}]
           /\ closed' = closed /\ value' = value /\ received' = received
<1>1. [binding |-> b, client |-> k, href |-> h] \in Sub
  BY DEF Sub
<1>2. n \in 0 .. MaxReads
  BY CallAssumption
<1>3. QED
  BY <1>1, <1>2 DEF Opened, Answered, SubTypeOK

LEMMA RegisterTypes ==
    ASSUME SubTypeOK, NEW c \in Call, NEW k \in Call, NEW h \in Href, Register(c, k, h)
    PROVE  /\ DOMAIN registry' = DOMAIN registry \cup {<<k, h>>}
           /\ \A kh \in DOMAIN registry' :
                 registry'[kh] = IF kh = <<k, h>> THEN c ELSE registry[kh]
           /\ DOMAIN registry' \subseteq Call \X Href
           /\ \A kh \in DOMAIN registry' : registry'[kh] \in Call
<1>1. /\ DOMAIN registry' = DOMAIN registry \cup {<<k, h>>}
      /\ \A kh \in DOMAIN registry' :
            registry'[kh] = IF kh = <<k, h>> THEN c ELSE registry[kh]
  BY DEF Register
<1>2. QED
  BY <1>1 DEF SubTypeOK

LEMMA SubscribeTypes ==
    ASSUME SubTypeOK, NEW c \in Call, NEW b \in Binding, NEW k \in Call, NEW h \in Href,
           Subscribe(c, b, k, h)
    PROVE  SubTypeOK'
<1>1. CASE b \in {"longpoll", "sse"}
  <2>1. /\ Opened(c, b, k, h, "polling", 1) \/ Opened(c, b, k, h, "listening", 0)
        /\ Register(c, k, h) /\ UNCHANGED broker
    BY <1>1 DEF Subscribe, SubscribeHttp
  <2>2. QED
    BY <2>1, OpenedTypes, RegisterTypes DEF SubTypeOK
<1>2. CASE b = "modbus"
  <2>1. \/ Answered(c, "rejected") /\ UNCHANGED <<linkVars, remoteVars, received>>
        \/ /\ Opened(c, b, k, h, "polling", 0)
           /\ Register(c, k, h) /\ UNCHANGED broker
    BY <1>2 DEF Subscribe, SubscribeModbus
  <2>2. CASE Answered(c, "rejected") /\ UNCHANGED <<linkVars, remoteVars, received>>
    BY <2>2 DEF SubTypeOK, Answered, linkVars, remoteVars
  <2>3. CASE Opened(c, b, k, h, "polling", 0) /\ Register(c, k, h) /\ UNCHANGED broker
    <3>1. DOMAIN registry' \subseteq Call \X Href
            /\ \A kh \in DOMAIN registry' : registry'[kh] \in Call
      BY <2>3, RegisterTypes
    <3>2. /\ sub' \in [Call -> Sub \cup {NoSub}]
          /\ link' \in [Call -> {"none", "polling", "listening", "quiet", "ended"}]
          /\ reads' \in [Call -> 0 .. MaxReads]
          /\ promise' \in [Call -> {"idle", "pending", "resolved", "rejected"}]
          /\ closed' = closed /\ value' = value /\ received' = received
      BY <2>3, OpenedTypes
    <3>3. QED
      BY <2>3, <3>1, <3>2 DEF SubTypeOK
  <2>4. QED
    BY <2>1, <2>2, <2>3
<1>3. CASE b = "mqtt"
  <2>1. /\ Opened(c, b, k, h, "quiet", 0)
        /\ broker' = [broker EXCEPT ![k] = IF @ = "none" THEN "connecting" ELSE @]
        /\ UNCHANGED registry
    BY <1>3 DEF Subscribe, SubscribeMqtt
  <2>2. broker' \in [Call -> {"none", "connecting", "connected", "ended"}]
    BY <2>1 DEF SubTypeOK
  <2>3. /\ sub' \in [Call -> Sub \cup {NoSub}]
        /\ link' \in [Call -> {"none", "polling", "listening", "quiet", "ended"}]
        /\ reads' \in [Call -> 0 .. MaxReads]
        /\ promise' \in [Call -> {"idle", "pending", "resolved", "rejected"}]
        /\ closed' = closed /\ value' = value /\ received' = received
    BY <2>1, OpenedTypes
  <2>4. QED
    BY <2>1, <2>2, <2>3 DEF SubTypeOK
<1>4. CASE b \in {"coap", "coaps", "opcua"}
  <2>1. Opened(c, b, k, h, "listening", 0) /\ UNCHANGED <<registry, broker>>
    BY <1>4 DEF Subscribe, SubscribePushed
  <2>2. /\ sub' \in [Call -> Sub \cup {NoSub}]
        /\ link' \in [Call -> {"none", "polling", "listening", "quiet", "ended"}]
        /\ reads' \in [Call -> 0 .. MaxReads]
        /\ promise' \in [Call -> {"idle", "pending", "resolved", "rejected"}]
        /\ closed' = closed /\ value' = value /\ received' = received
    BY <2>1, OpenedTypes
  <2>3. QED
    BY <2>1, <2>2 DEF SubTypeOK
<1>5. QED
  BY <1>1, <1>2, <1>3, <1>4 DEF Binding

LEMMA UnlinkTypes ==
    ASSUME SubTypeOK, NEW u \in Call, NEW b, NEW k \in Call, NEW h \in Href, Unlink(u, b, k, h)
    PROVE  SubTypeOK'
<1>1. CASE UnlinkHttp(u, k, h)
  <2>1. UNCHANGED <<sub, reads, registry, broker, value, received>>
    BY <1>1 DEF UnlinkHttp, remoteVars
  <2>2. promise' \in [Call -> {"idle", "pending", "resolved", "rejected"}]
    BY <1>1 DEF UnlinkHttp, Answered, SubTypeOK
  <2>3. Registered(k, h) => registry[<<k, h>>] \in Call
    BY DEF Registered, SubTypeOK
  <2>4. closed' \subseteq Call
    BY <1>1, <2>3 DEF UnlinkHttp, SubTypeOK
  <2>5. link' \in [Call -> {"none", "polling", "listening", "quiet", "ended"}]
    <3> DEFINE s == registry[<<k, h>>]
    <3>1. \/ link' = link
          \/ link' = [link EXCEPT ![s] = IF @ = "listening" THEN "ended" ELSE @]
      BY <1>1 DEF UnlinkHttp
    <3> HIDE DEF s
    <3>2. QED
      BY <3>1 DEF SubTypeOK
  <2>6. QED
    BY <2>1, <2>2, <2>4, <2>5 DEF SubTypeOK
<1>2. CASE UnlinkModbus(u, k, h)
  <2>1. CASE ~Registered(k, h)
    BY <1>2, <2>1 DEF UnlinkModbus, Answered, linkVars, remoteVars, SubTypeOK
  <2>2. CASE Registered(k, h)
    <3>1. registry[<<k, h>>] \in Call
      BY <2>2 DEF Registered, SubTypeOK
    <3>2. /\ DOMAIN registry' = DOMAIN registry \ {<<k, h>>}
          /\ \A kh \in DOMAIN registry' : registry'[kh] = registry[kh]
      BY <1>2, <2>2 DEF UnlinkModbus, Forget
    <3>3. promise' \in [Call -> {"idle", "pending", "resolved", "rejected"}]
      <4> DEFINE s == registry[<<k, h>>]
      <4>1. promise' = [promise EXCEPT ![u] = "resolved",
                                       ![s] = IF @ = "pending" THEN "resolved" ELSE @]
        BY <1>2, <2>2 DEF UnlinkModbus
      <4> HIDE DEF s
      <4>2. QED
        BY <4>1 DEF SubTypeOK
    <3>4. closed' \subseteq Call
      BY <1>2, <2>2, <3>1 DEF UnlinkModbus, SubTypeOK
    <3>7. link' \in [Call -> {"none", "polling", "listening", "quiet", "ended"}]
      <4> DEFINE s == registry[<<k, h>>]
      <4>1. link' = [link EXCEPT ![s] = "ended"]
        BY <1>2, <2>2 DEF UnlinkModbus
      <4> HIDE DEF s
      <4>2. QED
        BY <4>1 DEF SubTypeOK
    <3>5. UNCHANGED <<sub, reads, broker, value, received>>
      BY <1>2, <2>2 DEF UnlinkModbus, remoteVars
    <3>6. QED
      BY <3>2, <3>3, <3>4, <3>5, <3>7 DEF SubTypeOK
  <2>3. QED
    BY <2>1, <2>2
<1>3. CASE UnlinkMqtt(u, k, h)
  BY <1>3 DEF UnlinkMqtt, Answered, remoteVars, SubTypeOK
<1>4. CASE UnlinkNothing(u)
  BY <1>4 DEF UnlinkNothing, Answered, linkVars, remoteVars, SubTypeOK
<1>5. QED
  BY <1>1, <1>2, <1>3, <1>4 DEF Unlink

LEMMA HearTypes ==
    ASSUME SubTypeOK, NEW c \in Call, NEW good \in BOOLEAN, Hear(c, good)
    PROVE  /\ received' \in [Call -> Seq(0 .. MaxValue)]
           /\ promise' \in [Call -> {"idle", "pending", "resolved", "rejected"}]
<1>1. Append(received[c], value) \in Seq(0 .. MaxValue)
  BY DEF SubTypeOK
<1>2. QED
  BY <1>1 DEF Hear, Settle, SubTypeOK

LEMMA HappensTypes ==
    ASSUME SubTypeOK, Happens
    PROVE  SubTypeOK'
<1>1. CASE Produce
  BY <1>1, CallAssumption DEF Produce, linkVars, SubTypeOK
<1>2. ASSUME NEW c \in Call, PollAnswered(c) PROVE SubTypeOK'
  <2>1. UNCHANGED <<sub, closed, registry, broker, value>>
    BY <1>2 DEF PollAnswered, remoteVars
  <2>2. \/ /\ link' = [link EXCEPT ![c] = "ended"] /\ reads' = [reads EXCEPT ![c] = 0]
           /\ Settle(c, "resolved") /\ UNCHANGED received
        \/ (\E good \in BOOLEAN : Hear(c, good)) /\ UNCHANGED <<link, reads>>
    BY <1>2 DEF PollAnswered
  <2>3. CASE /\ link' = [link EXCEPT ![c] = "ended"] /\ reads' = [reads EXCEPT ![c] = 0]
             /\ Settle(c, "resolved") /\ UNCHANGED received
    BY <2>1, <2>3, CallAssumption DEF Settle, SubTypeOK
  <2>4. CASE (\E good \in BOOLEAN : Hear(c, good)) /\ UNCHANGED <<link, reads>>
    BY <2>1, <2>4, HearTypes DEF SubTypeOK
  <2>5. QED
    BY <2>2, <2>3, <2>4
<1>3. ASSUME NEW c \in Call, PollFails(c) PROVE SubTypeOK'
  BY <1>3, CallAssumption DEF PollFails, Settle, remoteVars, SubTypeOK
<1>4. ASSUME NEW c \in Call, ModbusTick(c) PROVE SubTypeOK'
  <2>1. reads' \in [Call -> 0 .. MaxReads]
    BY <1>4, CallAssumption DEF ModbusTick, SubTypeOK
  <2>2. UNCHANGED <<sub, link, closed, registry, broker, value, received, promise>>
    BY <1>4 DEF ModbusTick, remoteVars
  <2>3. QED
    BY <2>1, <2>2 DEF SubTypeOK
<1>5. ASSUME NEW c \in Call, ReadAnswered(c) PROVE SubTypeOK'
  <2>1. reads' \in [Call -> 0 .. MaxReads]
    BY <1>5, CallAssumption DEF ReadAnswered, SubTypeOK
  <2>2. PICK good \in BOOLEAN : Hear(c, good)
    BY <1>5 DEF ReadAnswered
  <2>3. QED
    BY <1>5, <2>1, <2>2, HearTypes DEF ReadAnswered, remoteVars, SubTypeOK
<1>6. ASSUME NEW c \in Call, ReadFails(c) PROVE SubTypeOK'
  <2>1. reads' \in [Call -> 0 .. MaxReads]
    BY <1>6, CallAssumption DEF ReadFails, SubTypeOK
  <2>2. promise' \in [Call -> {"idle", "pending", "resolved", "rejected"}]
    BY <1>6 DEF ReadFails, Settle, SubTypeOK
  <2>3. QED
    BY <1>6, <2>1, <2>2 DEF ReadFails, remoteVars, SubTypeOK
<1>7. ASSUME NEW c \in Call, Pushed(c) PROVE SubTypeOK'
  <2>1. PICK good \in BOOLEAN : Hear(c, good)
    BY <1>7 DEF Pushed
  <2>2. QED
    BY <1>7, <2>1, HearTypes DEF Pushed, linkVars, remoteVars, SubTypeOK
<1>8. ASSUME NEW c \in Call, PushFails(c) PROVE SubTypeOK'
  BY <1>8 DEF PushFails, Settle, remoteVars, SubTypeOK
<1>9. ASSUME NEW k \in Call, BrokerConnects(k) \/ BrokerLost(k) \/ BrokerFails(k) PROVE SubTypeOK'
  BY <1>9 DEF BrokerConnects, BrokerLost, BrokerFails, BrokerTurns, SubTypeOK
<1>10. QED
  BY <1>1, <1>2, <1>3, <1>4, <1>5, <1>6, <1>7, <1>8, <1>9 DEF Happens

LEMMA SendTypes ==
    ASSUME SubTypeOK, thing \in Thing, NEW c \in Call, NEW a \in thing.asks[c],
           NEW i \in DOMAIN Forms(a), NEW k \in Call, Send(c, a, i, k)
    PROVE  SubTypeOK'
<1> DEFINE b == BindingOf(Forms(a)[i])
           h == HrefOf(a, i)
<1>1. \/ Rejects(c) \/ Waits(c)
      \/ h \in Href /\ b \in Binding /\ Subscribe(c, b, k, h)
      \/ h \in Href /\ Unlink(c, b, k, h)
  BY SendCases
<1>2. CASE Rejects(c) \/ Waits(c)
  BY <1>2 DEF Rejects, Waits, Answered, linkVars, remoteVars, SubTypeOK
<1> HIDE DEF b, h
<1>3. CASE h \in Href /\ b \in Binding /\ Subscribe(c, b, k, h)
  BY <1>3, SubscribeTypes
<1>4. CASE h \in Href /\ Unlink(c, b, k, h)
  BY <1>4, UnlinkTypes
<1>5. QED
  BY <1>1, <1>2, <1>3, <1>4

LEMMA KeepClientTypes ==
    ASSUME TypeOK, NEW c \in Call, NEW a, NEW s \in factories, KeepClient(c, a, s),
           factories' = factories
    PROVE  /\ DOMAIN cache' = DOMAIN cache \cup {s}
           /\ \A t \in DOMAIN cache' : cache'[t] = IF t \in DOMAIN cache THEN cache[t] ELSE c
           /\ security' = IF s \in DOMAIN cache THEN security ELSE [security EXCEPT ![c] = Given]
           /\ Given \in {"none", "metadata", "credentials"}
           /\ DOMAIN cache' \subseteq factories' /\ \A t \in DOMAIN cache' : cache'[t] \in Call
           /\ security' \in [Call -> {"none", "metadata", "credentials"}]
<1>1. Given \in {"none", "metadata", "credentials"}
  BY DEF Given
<1>2. CASE s \in DOMAIN cache
  BY <1>1, <1>2 DEF KeepClient, IsKept, TypeOK
<1>3. CASE s \notin DOMAIN cache
  <2>1. cache' = [t \in DOMAIN cache \cup {s} |-> IF t = s THEN c ELSE cache[t]]
    BY <1>3 DEF KeepClient, IsKept
  <2>2. security' = [security EXCEPT ![c] = Given]
    BY <1>3 DEF KeepClient, IsKept
  <2>3. security' \in [Call -> {"none", "metadata", "credentials"}]
    BY <1>1, <2>2 DEF TypeOK
  <2>4. QED
    BY <1>1, <1>3, <2>1, <2>2, <2>3 DEF TypeOK
<1>4. QED
  BY <1>2, <1>3

-----------------------------------------------------------------------------
(* Types                                                                   *)

LEMMA InitTypes == Init => TypeOK
<1> SUFFICES ASSUME Init PROVE TypeOK
  OBVIOUS
<1>1. SubTypeOK
  <2>1. received \in [Call -> Seq(0 .. MaxValue)]
    BY DEF Init, SubInit
  <2>2. DOMAIN registry = {}
    BY DEF Init, SubInit
  <2>3. QED
    BY <2>1, <2>2, CallAssumption DEF Init, SubInit, SubTypeOK
<1>2. /\ DOMAIN cache = {} /\ DOMAIN asked = Call /\ performed = {}
      /\ security \in [Call -> {"none", "metadata", "credentials"}]
      /\ thing \in Thing /\ credentials \in BOOLEAN
  BY DEF Init
<1>5. order \in Seq(Call) /\ queue \in Seq(Call)
  BY DEF Init
<1>6. via \in [Call -> [client : Call, form : Nat] \cup {NoVia}]
  BY DEF Init
<1>3. \A c \in Call : asked[c] \in thing.asks[c] \cup {NoAsk}
  BY DEF Init
<1>4. QED
  BY <1>1, <1>2, <1>3 DEF Init, TypeOK

ClientTypes ==
    /\ DOMAIN cache \subseteq factories /\ \A s \in DOMAIN cache : cache[s] \in Call
    /\ security \in [Call -> {"none", "metadata", "credentials"}]
    /\ via \in [Call -> [client : Call, form : Nat] \cup {NoVia}]

LEMMA StartTypes ==
    ASSUME TypeOK, NEW c \in Call, Start(c)
    PROVE  TypeOK'
<1>1. /\ UNCHANGED <<thing, factories, credentials, performed, bundle>>
      /\ order' \in Seq(Call) /\ queue' \in Seq(Call)
  <2>1. queue # <<>> => Tail(queue) \in Seq(Call)
    BY DEF TypeOK
  <2>2. QED
    BY <2>1 DEF Start, TypeOK
<1>2. PICK a \in thing.asks[c] :
        /\ asked' = [asked EXCEPT ![c] = a]
        /\ \/ Rejects(c) /\ UNCHANGED <<clientVars, via>>
           \/ /\ Rejects(c) /\ UNCHANGED via
              /\ \E s \in factories : KeepClient(c, a, s) /\ (IsKept(s) => ~Refuses(s))
           \/ \E i, s, k :
                /\ Chooses(c, a, i, s, k) /\ Send(c, a, i, k)
                /\ via' = [via EXCEPT ![c] = [client |-> k, form |-> i]]
  BY StartCases
<1>3. DOMAIN asked' = Call /\ \A d \in Call : asked'[d] \in thing'.asks[d] \cup {NoAsk}
  BY <1>1, <1>2 DEF TypeOK
<1>4. SubTypeOK' /\ ClientTypes'
  <2>1. Rejects(c) => SubTypeOK'
    BY DEF TypeOK, Rejects, Answered, linkVars, remoteVars, SubTypeOK
  <2>2. CASE Rejects(c) /\ UNCHANGED <<clientVars, via>>
    BY <1>1, <2>1, <2>2 DEF TypeOK, ClientTypes, clientVars
  <2>3. CASE /\ Rejects(c) /\ UNCHANGED via
             /\ \E s \in factories : KeepClient(c, a, s)
    BY <1>1, <2>1, <2>3, KeepClientTypes DEF TypeOK, ClientTypes
  <2>4. ASSUME NEW i, NEW s, NEW k, Chooses(c, a, i, s, k), Send(c, a, i, k),
               via' = [via EXCEPT ![c] = [client |-> k, form |-> i]]
        PROVE  SubTypeOK' /\ ClientTypes'
    <3>1. k \in Call
      BY <2>4, ClientTyped DEF Chooses
    <3>2. s \in factories /\ i \in DOMAIN Forms(a) /\ i \in Nat
      BY <2>4, FormsTyped DEF Chooses, TypeOK
    <3>3. SubTypeOK'
      BY <2>4, <3>1, <3>2, SendTypes DEF TypeOK
    <3>4. via' \in [Call -> [client : Call, form : Nat] \cup {NoVia}]
      BY <2>4, <3>1, <3>2 DEF TypeOK
    <3>5. QED
      BY <1>1, <2>4, <3>2, <3>3, <3>4, KeepClientTypes DEF Chooses, ClientTypes
  <2>5. QED
    BY <1>2, <2>2, <2>3, <2>4
<1>5. QED
  BY <1>1, <1>3, <1>4 DEF TypeOK, ClientTypes

LEMMA TypesStep == TypeOK /\ [Next]_vars => TypeOK'
<1> SUFFICES ASSUME TypeOK, [Next]_vars PROVE TypeOK'
  OBVIOUS
<1>1. ASSUME NEW c \in Call, Start(c) PROVE TypeOK'
  BY <1>1, StartTypes
<1>2. CASE AddClientFactory
  BY <1>2 DEF AddClientFactory, TypeOK, SubTypeOK, subVars, linkVars, remoteVars, clientVars,
              callVars, bundleVars
<1>3. CASE AddCredentials
  BY <1>3 DEF AddCredentials, TypeOK, SubTypeOK, subVars, linkVars, remoteVars, clientVars,
              callVars, bundleVars
<1>4. ASSUME NEW c \in Call, Answer(c) PROVE TypeOK'
  <2>1. promise' \in [Call -> {"idle", "pending", "resolved", "rejected"}]
    BY <1>4 DEF Answer, Answered, TypeOK, SubTypeOK
  <2>2. performed' \subseteq Call
    BY <1>4 DEF Answer, TypeOK
  <2>3. QED
    BY <1>4, <2>1, <2>2 DEF Answer, TypeOK, SubTypeOK, linkVars, remoteVars, clientVars, bundleVars
<1>5. CASE StartMultiple
  <2>1. queue' \in Seq(Call)
    BY <1>5 DEF StartMultiple
  <2>2. QED
    BY <1>5, <2>1 DEF StartMultiple, TypeOK, SubTypeOK, subVars, linkVars, remoteVars, clientVars,
                      callVars
<1>6. CASE SettleMultiple
  BY <1>6 DEF SettleMultiple, TypeOK, SubTypeOK, subVars, linkVars, remoteVars, clientVars, callVars
<1>7. CASE Happens /\ Rest
  <2>1. SubTypeOK'
    BY <1>7, HappensTypes DEF TypeOK
  <2>2. QED
    BY <1>7, <2>1 DEF Rest, TypeOK, clientVars, callVars, bundleVars
<1>8. CASE UNCHANGED vars
  BY <1>8 DEF vars, TypeOK, SubTypeOK, subVars, linkVars, remoteVars, clientVars, callVars,
              bundleVars
<1>9. QED
  BY <1>1, <1>2, <1>3, <1>4, <1>5, <1>6, <1>7, <1>8 DEF Next

(* Every variable has its type, whatever things, calls and hrefs there are. *)
THEOREM TypeCorrect == Spec => []TypeOK
<1>1. Init => TypeOK
  BY InitTypes
<1>2. TypeOK /\ [Next]_vars => TypeOK'
  BY TypesStep
<1>3. QED
  BY <1>1, <1>2, PTL DEF Spec

-----------------------------------------------------------------------------
(* Subscriptions                                                           *)

(* A href names a form of the thing, and so the binding of whoever         *)
(* subscribes or unsubscribes through it.                                  *)
HrefBinding(h) == BindingOf(thing.forms[h[1]][h[2]])
Accounted == {"longpoll", "sse", "modbus"}

(* The inductive invariant.  What is closed had an account in its client,  *)
(* a pushed message finds its subscription open, a subscription of MQTT    *)
(* ends with its client only, and a polled id is that of the last          *)
(* subscription registered.                                                *)
LinkedAt(c) ==
    /\ link[c] = "none" <=> sub[c] = NoSub
    /\ promise[c] = "idle" => sub[c] = NoSub
    /\ sub[c] # NoSub => sub[c].binding = HrefBinding(sub[c].href)
    /\ c \in closed => sub[c].binding \in Accounted /\ link[c] # "listening"
    /\ sub[c].binding = "mqtt" /\ link[c] = "ended" => broker[sub[c].client] = "ended"
    /\ sub[c].binding = "modbus" /\ link[c] = "polling" =>
         /\ <<sub[c].client, sub[c].href>> \in DOMAIN registry
         /\ registry[<<sub[c].client, sub[c].href>>] = c
    /\ \A i \in DOMAIN received[c] : received[c][i] <= value

Linked ==
    /\ \A c \in Call : LinkedAt(c)
    /\ \A kh \in DOMAIN registry : sub[registry[kh]].binding \in Accounted

(* What Subscription allows one call to do in a step.                      *)
MovesPhase(c) ==
    \/ Phase(c)' = Phase(c)
    \/ Phase(c) = "off"
    \/ Phase(c) = "on" /\ Phase(c)' = "over"
MovesPromise(c) ==
    \/ promise'[c] = promise[c]
    \/ promise[c] = "idle"
    \/ promise[c] = "pending" /\ promise'[c] \in {"resolved", "rejected"}
TellsValue(c) ==
    /\ Phase(c) = "on" /\ promise'[c] \in {"resolved", "rejected"}
    /\ received'[c] = Append(received[c], value)
    /\ \A i \in DOMAIN received[c] : received[c][i] < value
Moves(c) == MovesPhase(c) /\ MovesPromise(c) /\ (received'[c] = received[c] \/ TellsValue(c))

(* A step that changes nothing of a call but its promise.                  *)
LEMMA OnlyPromise ==
    ASSUME SubTypeOK, Linked, thing' = thing, UNCHANGED <<linkVars, remoteVars, received>>,
           \A d \in Call : MovesPromise(d) /\ (promise'[d] = "idle" => promise[d] = "idle")
    PROVE  Linked' /\ \A d \in Call : Moves(d)
<1>1. UNCHANGED <<sub, link, reads, closed, registry, broker, value, received>>
  BY DEF linkVars, remoteVars
<1>2. \A d \in Call : LinkedAt(d)'
  BY <1>1 DEF Linked, LinkedAt, HrefBinding
<1>3. Linked'
  BY <1>1, <1>2 DEF Linked
<1>4. \A d \in Call : Phase(d)' = Phase(d)
  BY <1>1 DEF Phase
<1>5. QED
  BY <1>1, <1>3, <1>4 DEF Moves, MovesPhase

LEMMA OpenedAt ==
    ASSUME SubTypeOK, NEW c \in Call, NEW b, NEW k, NEW h, NEW l, NEW n,
           Opened(c, b, k, h, l, n)
    PROVE  /\ sub'[c] = [binding |-> b, client |-> k, href |-> h]
           /\ link'[c] = l /\ reads'[c] = n /\ promise'[c] = "pending"
           /\ UNCHANGED <<closed, value, received>>
           /\ \A d \in Call \ {c} : /\ sub'[d] = sub[d] /\ link'[d] = link[d]
                                    /\ reads'[d] = reads[d] /\ promise'[d] = promise[d]
<1>1. QED
  BY DEF Opened, Answered, SubTypeOK

(* A subscription that is opened replaces one of its own binding at most.  *)
LEMMA OpenedLinks ==
    ASSUME SubTypeOK, Linked, thing' = thing, NEW c \in Call, promise[c] = "idle",
           NEW b \in Binding, NEW k \in Call, NEW h \in Href, b = HrefBinding(h),
           NEW l \in {"polling", "listening", "quiet"}, NEW n, Opened(c, b, k, h, l, n),
           \/ b \in Accounted /\ Register(c, k, h)
           \/ b \notin Accounted /\ registry' = registry,
           b = "modbus" => ~Registered(k, h),
           \A d \in Call : broker[d] = "ended" => broker'[d] = "ended"
    PROVE  Linked' /\ \A d \in Call : Moves(d)
<1>1. /\ sub'[c] = [binding |-> b, client |-> k, href |-> h]
      /\ link'[c] = l /\ reads'[c] = n /\ promise'[c] = "pending"
      /\ UNCHANGED <<closed, value, received>>
      /\ \A d \in Call \ {c} : /\ sub'[d] = sub[d] /\ link'[d] = link[d]
                               /\ reads'[d] = reads[d] /\ promise'[d] = promise[d]
  BY OpenedAt
<1>2. sub[c] = NoSub /\ link[c] = "none" /\ c \notin closed
  <2>1. LinkedAt(c)
    BY DEF Linked
  <2>2. sub[c] = NoSub /\ link[c] = "none"
    BY <2>1 DEF LinkedAt
  <2>3. NoSub.binding \notin Accounted
    BY DEF NoSub, Accounted
  <2>4. QED
    BY <2>1, <2>2, <2>3 DEF LinkedAt
<1>3. sub'[c] # NoSub
  BY <1>1 DEF NoSub, Binding
<1>4. /\ DOMAIN registry \subseteq DOMAIN registry'
      /\ \A kh \in DOMAIN registry :
            registry'[kh] = registry[kh] \/ (kh = <<k, h>> /\ registry'[kh] = c /\ b # "modbus")
      /\ \A kh \in DOMAIN registry' : kh \in DOMAIN registry \/ registry'[kh] = c
      /\ b \in Accounted \/ registry' = registry
      /\ b \in Accounted => <<k, h>> \in DOMAIN registry' /\ registry'[<<k, h>>] = c
  <2>1. CASE b \in Accounted /\ Register(c, k, h)
    <3>1. /\ DOMAIN registry' = DOMAIN registry \cup {<<k, h>>}
          /\ \A kh \in DOMAIN registry' :
                registry'[kh] = IF kh = <<k, h>> THEN c ELSE registry[kh]
      BY <2>1 DEF Register
    <3>2. b = "modbus" => <<k, h>> \notin DOMAIN registry
      BY DEF Registered
    <3>3. DOMAIN registry \subseteq DOMAIN registry'
      BY <3>1
    <3>4. \A kh \in DOMAIN registry :
             registry'[kh] = registry[kh] \/ (kh = <<k, h>> /\ registry'[kh] = c /\ b # "modbus")
      BY <3>1, <3>2
    <3>5. \A kh \in DOMAIN registry' : kh \in DOMAIN registry \/ registry'[kh] = c
      BY <3>1
    <3>6. <<k, h>> \in DOMAIN registry' /\ registry'[<<k, h>>] = c
      BY <3>1
    <3>7. QED
      BY <2>1, <3>3, <3>4, <3>5, <3>6
  <2>2. CASE b \notin Accounted /\ registry' = registry
    BY <2>2
  <2>3. QED
    BY <2>1, <2>2
<1>5. ASSUME NEW d \in Call, d # c PROVE LinkedAt(d)'
  <2>1. LinkedAt(d)
    BY DEF Linked
  <2>2. /\ sub'[d] = sub[d] /\ link'[d] = link[d] /\ promise'[d] = promise[d]
        /\ (d \in closed' <=> d \in closed) /\ received'[d] = received[d] /\ value' = value
        /\ HrefBinding(sub[d].href)' = HrefBinding(sub'[d].href)
    BY <1>1, <1>5 DEF HrefBinding
  <2>3. ASSUME sub[d].binding = "mqtt", link[d] = "ended" PROVE broker'[sub[d].client] = "ended"
    <3>1. sub[d].client \in Call
      BY <2>3 DEF SubTypeOK, Sub, NoSub
    <3>2. QED
      BY <2>1, <2>3, <3>1 DEF LinkedAt
  <2>4. ASSUME sub[d].binding = "modbus", link[d] = "polling"
        PROVE  /\ <<sub[d].client, sub[d].href>> \in DOMAIN registry'
               /\ registry'[<<sub[d].client, sub[d].href>>] = d
    <3>1. /\ <<sub[d].client, sub[d].href>> \in DOMAIN registry
          /\ registry[<<sub[d].client, sub[d].href>>] = d
          /\ HrefBinding(sub[d].href) = "modbus"
      BY <2>1, <2>4 DEF LinkedAt, NoSub
    <3>2. <<sub[d].client, sub[d].href>> = <<k, h>> => b = "modbus"
      BY <3>1
    <3>3. QED
      BY <1>4, <3>1, <3>2
  <2>5. QED
    BY <2>1, <2>2, <2>3, <2>4 DEF LinkedAt, HrefBinding
<1>6. LinkedAt(c)'
  <2>1. \A i \in DOMAIN received[c] : received[c][i] <= value
    BY DEF Linked, LinkedAt
  <2>2. HrefBinding(h)' = HrefBinding(h)
    BY DEF HrefBinding
  <2>3. (sub[c].binding = HrefBinding(sub[c].href))'
    BY <1>1, <2>2 DEF HrefBinding
  <2>4. sub'[c].binding = "modbus" =>
          /\ <<sub'[c].client, sub'[c].href>> \in DOMAIN registry'
          /\ registry'[<<sub'[c].client, sub'[c].href>>] = c
    BY <1>1, <1>4 DEF Accounted
  <2>5. sub'[c].binding = "mqtt" => link'[c] # "ended"
    BY <1>1
  <2>6. c \notin closed' /\ promise'[c] # "idle" /\ link'[c] # "none"
    BY <1>1, <1>2
  <2>7. \A i \in DOMAIN received'[c] : received'[c][i] <= value'
    BY <1>1, <2>1
  <2>8. QED
    BY <1>3, <2>3, <2>4, <2>5, <2>6, <2>7 DEF LinkedAt
<1>7. \A kh \in DOMAIN registry' : sub'[registry'[kh]].binding \in Accounted
  <2>1. \A kh \in DOMAIN registry : /\ registry[kh] \in Call /\ registry[kh] # c
                                  /\ sub[registry[kh]].binding \in Accounted
    BY <1>2 DEF Linked, SubTypeOK, NoSub, Accounted
  <2>2. QED
    BY <1>1, <1>4, <2>1
<1>8. ASSUME NEW d \in Call PROVE Moves(d)
  <2>1. CASE d = c
    BY <1>1, <1>2, <2>1 DEF Moves, MovesPhase, MovesPromise, Phase
  <2>2. CASE d # c
    BY <1>1, <2>2 DEF Moves, MovesPhase, MovesPromise, Phase
  <2>3. QED
    BY <2>1, <2>2
<1>9. QED
  BY <1>5, <1>6, <1>7, <1>8 DEF Linked

LEMMA SubscribeLinks ==
    ASSUME SubTypeOK, Linked, thing' = thing, NEW c \in Call, promise[c] = "idle",
           NEW b \in Binding, NEW k \in Call, NEW h \in Href, b = HrefBinding(h),
           Subscribe(c, b, k, h)
    PROVE  Linked' /\ \A d \in Call : Moves(d)
<1>1. CASE b \in {"longpoll", "sse"}
  <2>1. /\ Opened(c, b, k, h, "polling", 1) \/ Opened(c, b, k, h, "listening", 0)
        /\ Register(c, k, h) /\ broker' = broker
    BY <1>1 DEF Subscribe, SubscribeHttp
  <2>2. QED
    BY <1>1, <2>1, OpenedLinks DEF Accounted
<1>2. CASE b = "modbus" /\ Registered(k, h)
  <2>1. Answered(c, "rejected") /\ UNCHANGED <<linkVars, remoteVars, received>>
    BY <1>2 DEF Subscribe, SubscribeModbus
  <2>2. QED
    BY <2>1, OnlyPromise DEF Answered, MovesPromise, SubTypeOK
<1>3. CASE b = "modbus" /\ ~Registered(k, h)
  <2>1. Opened(c, b, k, h, "polling", 0) /\ Register(c, k, h) /\ broker' = broker
    BY <1>3 DEF Subscribe, SubscribeModbus
  <2>2. QED
    BY <1>3, <2>1, OpenedLinks DEF Accounted
<1>4. CASE b = "mqtt"
  <2>1. /\ Opened(c, b, k, h, "quiet", 0)
        /\ broker' = [broker EXCEPT ![k] = IF @ = "none" THEN "connecting" ELSE @]
        /\ registry' = registry
    BY <1>4 DEF Subscribe, SubscribeMqtt
  <2>2. \A d \in Call : broker[d] = "ended" => broker'[d] = "ended"
    BY <2>1 DEF SubTypeOK
  <2>3. QED
    BY <1>4, <2>1, <2>2, OpenedLinks DEF Accounted
<1>5. CASE b \in {"coap", "coaps", "opcua"}
  <2>1. Opened(c, b, k, h, "listening", 0) /\ registry' = registry /\ broker' = broker
    BY <1>5 DEF Subscribe, SubscribePushed
  <2>2. QED
    BY <1>5, <2>1, OpenedLinks DEF Accounted
<1>6. QED
  BY <1>1, <1>2, <1>3, <1>4, <1>5 DEF Binding

(* A step that opens no subscription: what becomes of each.                *)
Steps(d) ==
    /\ link[d] = "none" <=> link'[d] = "none"
    /\ promise'[d] = "idle" => promise[d] = "idle"
    /\ d \in closed => d \in closed'
    /\ d \in closed' => sub[d].binding \in Accounted /\ link'[d] # "listening"
    /\ sub[d].binding = "mqtt" /\ link'[d] = "ended" => broker'[sub[d].client] = "ended"
    /\ sub[d].binding = "modbus" /\ link'[d] = "polling" => link[d] = "polling"
    /\ link[d] = "ended" => link'[d] = "ended" /\ reads'[d] <= reads[d]
    /\ MovesPromise(d)
    /\ received'[d] = received[d] \/ TellsValue(d)

LEMMA StepsLink ==
    ASSUME SubTypeOK, Linked, thing' = thing, sub' = sub, value \in Nat, value' \in Nat,
           value <= value', \A d \in Call : reads'[d] \in Nat,
           \A d \in Call : Steps(d),
           DOMAIN registry' \subseteq DOMAIN registry,
           \A kh \in DOMAIN registry' : registry'[kh] = registry[kh],
           \A kh \in DOMAIN registry \ DOMAIN registry' : link'[registry[kh]] = "ended"
    PROVE  Linked' /\ \A d \in Call : Moves(d)
<1>1. ASSUME NEW d \in Call PROVE LinkedAt(d)'
  <2>1. LinkedAt(d) /\ Steps(d)
    BY DEF Linked
  <2>2. (link[d] = "none" <=> sub[d] = NoSub)' /\ (promise[d] = "idle" => sub[d] = NoSub)'
    BY <2>1 DEF LinkedAt, Steps
  <2>3. (sub[d] # NoSub => sub[d].binding = HrefBinding(sub[d].href))'
    BY <2>1 DEF LinkedAt, HrefBinding
  <2>4. (sub[d].binding = "modbus" /\ link[d] = "polling" =>
         /\ <<sub[d].client, sub[d].href>> \in DOMAIN registry
         /\ registry[<<sub[d].client, sub[d].href>>] = d)'
    BY <2>1 DEF LinkedAt, Steps
  <2>5. (\A i \in DOMAIN received[d] : received[d][i] <= value)'
    <3>1. received[d] \in Seq(Nat) /\ \A i \in DOMAIN received[d] : received[d][i] <= value
      BY <2>1, CallAssumption DEF SubTypeOK, LinkedAt
    <3>2. CASE received'[d] = received[d]
      BY <3>1, <3>2
    <3>3. CASE received'[d] = Append(received[d], value)
      BY <3>1, <3>3
    <3>4. QED
      BY <2>1, <3>2, <3>3 DEF Steps, TellsValue
  <2>6. QED
    BY <2>1, <2>2, <2>3, <2>4, <2>5 DEF LinkedAt, Steps
<1>2. (\A kh \in DOMAIN registry : sub[registry[kh]].binding \in Accounted)'
  BY DEF Linked
<1>3. ASSUME NEW d \in Call PROVE Moves(d)
  <2>1. reads[d] \in Nat /\ reads'[d] \in Nat
    BY CallAssumption DEF SubTypeOK
  <2>2. Steps(d)
    OBVIOUS
  <2>3. MovesPhase(d)
    BY <2>1, <2>2 DEF Steps, MovesPhase, Phase
  <2>4. QED
    BY <2>2, <2>3 DEF Moves, Steps
<1>4. QED
  BY <1>1, <1>2, <1>3 DEF Linked

LEMMA UnlinkSteps ==
    ASSUME NEW d \in Call, LinkedAt(d), sub' = sub, reads' = reads, reads[d] \in Nat,
           received' = received, broker' = broker, promise[d] # "idle" => promise'[d] # "idle",
           MovesPromise(d),
           \/ link'[d] = link[d]
           \/ link[d] = "listening" /\ link'[d] = "quiet"
           \/ link[d] # "none" /\ sub[d].binding \in Accounted /\ link'[d] = "ended",
           d \in closed => d \in closed',
           d \in closed' => \/ d \in closed
                            \/ sub[d].binding \in Accounted /\ link'[d] # "listening"
    PROVE  Steps(d)
<1>1. sub[d].binding \in Accounted => sub[d].binding # "mqtt"
  BY DEF Accounted
<1>2. /\ link[d] = "none" <=> link'[d] = "none"
      /\ d \in closed' => sub[d].binding \in Accounted /\ link'[d] # "listening"
      /\ sub[d].binding = "mqtt" /\ link'[d] = "ended" => broker'[sub[d].client] = "ended"
  BY <1>1 DEF LinkedAt
<1>3. QED
  BY <1>2 DEF Steps

LEMMA UnlinkLinks ==
    ASSUME SubTypeOK, SubTypeOK', Linked, thing' = thing, NEW u \in Call, promise[u] = "idle",
           NEW b, NEW k \in Call, NEW h \in Href, Unlink(u, b, k, h)
    PROVE  Linked' /\ \A d \in Call : Moves(d)
<1>1. /\ sub' = sub /\ value' = value /\ broker' = broker /\ reads' = reads
      /\ received' = received
  <2>1. UnlinkHttp(u, k, h) \/ UnlinkModbus(u, k, h) \/ UnlinkMqtt(u, k, h) \/ UnlinkNothing(u)
    BY DEF Unlink
  <2>2. QED
    BY <2>1 DEF UnlinkHttp, UnlinkModbus, UnlinkMqtt, UnlinkNothing, linkVars, remoteVars
<1>8. value \in Nat /\ \A d \in Call : reads[d] \in Nat
  BY CallAssumption DEF SubTypeOK
<1>2. \A d \in Call : LinkedAt(d)
  BY DEF Linked
<1>3. CASE UnlinkHttp(u, k, h)
  <2>1. registry' = registry /\ promise' = [promise EXCEPT ![u] = "resolved"]
    BY <1>3 DEF UnlinkHttp, Answered
  <2>2. CASE ~Registered(k, h)
    <3>1. closed' = closed /\ link' = link
      BY <1>3, <2>2 DEF UnlinkHttp
    <3>2. ASSUME NEW d \in Call PROVE Steps(d)
      <4>1. MovesPromise(d) /\ (promise[d] # "idle" => promise'[d] # "idle")
        BY <2>1 DEF MovesPromise, SubTypeOK
      <4>2. QED
        BY <1>1, <1>2, <1>8, <3>1, <4>1, UnlinkSteps
    <3>3. QED
      BY <1>1, <1>8, <2>1, <3>2, StepsLink
  <2>3. CASE Registered(k, h)
    <3>1. PICK s \in Call : /\ sub[s].binding \in Accounted
                           /\ closed' = closed \cup {s}
                           /\ link' = [link EXCEPT ![s] = IF @ = "listening" THEN "ended" ELSE @]
      BY <1>3, <2>3 DEF UnlinkHttp, Registered, Linked, SubTypeOK
    <3>2. sub[s].binding # "mqtt"
      BY <3>1 DEF Accounted
    <3>3. \A d \in Call : link'[d] = IF d = s /\ link[d] = "listening" THEN "ended" ELSE link[d]
      BY <3>1 DEF SubTypeOK
    <3>4. ASSUME NEW d \in Call PROVE Steps(d)
      <4>1. MovesPromise(d) /\ (promise[d] # "idle" => promise'[d] # "idle")
        BY <2>1 DEF MovesPromise, SubTypeOK
      <4>2. \/ link'[d] = link[d]
            \/ link[d] # "none" /\ sub[d].binding \in Accounted /\ link'[d] = "ended"
        BY <3>1, <3>3
      <4>3. d \in closed' => \/ d \in closed
                             \/ sub[d].binding \in Accounted /\ link'[d] # "listening"
        BY <3>1, <3>3
      <4>4. d \in closed => d \in closed'
        BY <3>1
      <4>5. QED
        BY <1>1, <1>2, <1>8, <4>1, <4>2, <4>3, <4>4, UnlinkSteps
    <3>5. QED
      BY <1>1, <1>8, <2>1, <3>4, StepsLink
  <2>4. QED
    BY <2>2, <2>3
<1>4. CASE UnlinkModbus(u, k, h)
  <2>1. CASE ~Registered(k, h)
    <3>1. Answered(u, "rejected") /\ UNCHANGED <<linkVars, remoteVars, received>>
      BY <1>4, <2>1 DEF UnlinkModbus
    <3>2. QED
      BY <3>1, OnlyPromise DEF Answered, MovesPromise, SubTypeOK
  <2>2. CASE Registered(k, h)
    <3>1. PICK s \in Call :
            /\ s = registry[<<k, h>>] /\ sub[s].binding \in Accounted
            /\ closed' = closed \cup {s}
            /\ link' = [link EXCEPT ![s] = "ended"]
            /\ promise' = [promise EXCEPT ![u] = "resolved",
                                          ![s] = IF @ = "pending" THEN "resolved" ELSE @]
      BY <1>4, <2>2 DEF UnlinkModbus, Registered, Linked, SubTypeOK
    <3>2. /\ DOMAIN registry' = DOMAIN registry \ {<<k, h>>}
          /\ \A kh \in DOMAIN registry' : registry'[kh] = registry[kh]
      BY <1>4, <2>2 DEF UnlinkModbus, Forget
    <3>3. sub[s].binding # "mqtt" /\ sub[s] # NoSub
      BY <3>1 DEF Accounted, NoSub
    <3>4. link[s] # "none" /\ promise[s] # "idle" /\ s # u
      BY <1>2, <3>3 DEF LinkedAt
    <3>5. \A d \in Call :
             /\ link'[d] = IF d = s THEN "ended" ELSE link[d]
             /\ promise'[d] = IF d = u \/ (d = s /\ promise[d] = "pending") THEN "resolved"
                                                                           ELSE promise[d]
      <4>1. \A d \in Call : link'[d] = IF d = s THEN "ended" ELSE link[d]
        BY <3>1 DEF SubTypeOK
      <4>2. \A d \in Call : promise'[d] = IF d = u \/ (d = s /\ promise[d] = "pending")
                                          THEN "resolved" ELSE promise[d]
        BY <3>1, <3>4 DEF SubTypeOK
      <4>3. QED
        BY <4>1, <4>2
    <3>6. ASSUME NEW d \in Call PROVE Steps(d)
      <4>1. MovesPromise(d) /\ (promise[d] # "idle" => promise'[d] # "idle")
        BY <3>5 DEF MovesPromise
      <4>2. \/ link'[d] = link[d]
            \/ link[d] # "none" /\ sub[d].binding \in Accounted /\ link'[d] = "ended"
        BY <3>1, <3>4, <3>5
      <4>3. d \in closed' => \/ d \in closed
                             \/ sub[d].binding \in Accounted /\ link'[d] # "listening"
        BY <3>1, <3>5
      <4>4. d \in closed => d \in closed'
        BY <3>1
      <4>5. QED
        BY <1>1, <1>2, <1>8, <4>1, <4>2, <4>3, <4>4, UnlinkSteps
    <3>7. \A kh \in DOMAIN registry \ DOMAIN registry' : link'[registry[kh]] = "ended"
      BY <3>1, <3>2, <3>5
    <3>8. QED
      BY <1>1, <1>8, <3>2, <3>6, <3>7, StepsLink
  <2>3. QED
    BY <2>1, <2>2
<1>5. CASE UnlinkMqtt(u, k, h)
  <2>1. /\ registry' = registry /\ closed' = closed
        /\ promise' = [promise EXCEPT ![u] = "resolved"]
        /\ \A d \in Call : link'[d] = link[d] \/ (link[d] = "listening" /\ link'[d] = "quiet")
    BY <1>5 DEF UnlinkMqtt, Answered
  <2>2. ASSUME NEW d \in Call PROVE Steps(d)
    <3>1. MovesPromise(d) /\ (promise[d] # "idle" => promise'[d] # "idle")
      BY <2>1 DEF MovesPromise, SubTypeOK
    <3>2. QED
      BY <1>1, <1>2, <1>8, <2>1, <3>1, UnlinkSteps
  <2>3. QED
    BY <1>1, <1>8, <2>1, <2>2, StepsLink
<1>6. CASE UnlinkNothing(u)
  BY <1>6, OnlyPromise DEF UnlinkNothing, Answered, MovesPromise, SubTypeOK
<1>7. QED
  BY <1>3, <1>4, <1>5, <1>6 DEF Unlink

LEMMA SettleAt ==
    ASSUME SubTypeOK, NEW c \in Call, NEW how \in {"resolved", "rejected"}, Settle(c, how)
    PROVE  \A d \in Call : MovesPromise(d) /\ (promise[d] # "idle" => promise'[d] # "idle")
<1>1. QED
  BY DEF Settle, MovesPromise, SubTypeOK

LEMMA HearAt ==
    ASSUME SubTypeOK, Linked, NEW c \in Call, NEW good \in BOOLEAN, Hear(c, good), Phase(c) = "on"
    PROVE  \A d \in Call : /\ MovesPromise(d) /\ (promise[d] # "idle" => promise'[d] # "idle")
                           /\ received'[d] = received[d] \/ TellsValue(d)
<1>1. \A d \in Call : MovesPromise(d) /\ (promise[d] # "idle" => promise'[d] # "idle")
  BY SettleAt DEF Hear
<1>2. \A d \in Call \ {c} : received'[d] = received[d]
  BY DEF Hear, SubTypeOK
<1>3. received'[c] = received[c] \/ (IsNews(c) /\ received'[c] = Append(received[c], value))
  BY DEF Hear, SubTypeOK
<1>4. ASSUME IsNews(c), received'[c] = Append(received[c], value) PROVE TellsValue(c)
  <2>1. LinkedAt(c)
    BY DEF Linked
  <2>2. \A i \in DOMAIN received[c] : received[c][i] < value
    <3>1. received[c] \in Seq(Nat) /\ value \in Nat
      BY CallAssumption DEF SubTypeOK
    <3>2. QED
      BY <1>4, <2>1, <3>1 DEF LinkedAt, IsNews
  <2>3. link[c] # "none"
    BY DEF Phase
  <2>4. promise[c] \in {"pending", "resolved", "rejected"}
    BY <2>1, <2>3 DEF LinkedAt, SubTypeOK
  <2>5. promise'[c] \in {"resolved", "rejected"}
    BY <2>4 DEF Hear, Settle, SubTypeOK
  <2>6. QED
    BY <1>4, <2>2, <2>5 DEF TellsValue
<1>5. QED
  BY <1>1, <1>2, <1>3, <1>4

(* What happens to one call in a step of the network, of an interval or of *)
(* the remote thing.                                                       *)
LEMMA HappensSteps ==
    ASSUME NEW d \in Call, LinkedAt(d), closed' = closed, reads[d] \in Nat, reads'[d] \in Nat,
           MovesPromise(d), promise[d] # "idle" => promise'[d] # "idle",
           received'[d] = received[d] \/ TellsValue(d),
           \/ link'[d] = link[d] /\ (link[d] = "ended" => reads'[d] <= reads[d])
           \/ /\ link[d] # "none" /\ sub[d].binding # "mqtt" /\ reads'[d] <= reads[d]
              /\ link'[d] = "ended",
           broker' = broker
    PROVE  Steps(d)
<1>1. /\ link[d] = "none" <=> link'[d] = "none"
      /\ d \in closed' => sub[d].binding \in Accounted /\ link'[d] # "listening"
      /\ sub[d].binding = "mqtt" /\ link'[d] = "ended" => broker'[sub[d].client] = "ended"
  BY DEF LinkedAt
<1>2. QED
  BY <1>1 DEF Steps

LEMMA HappensLinks ==
    ASSUME SubTypeOK, SubTypeOK', Linked, thing' = thing, Happens
    PROVE  Linked' /\ \A d \in Call : Moves(d)
<1>1. \A d \in Call : /\ reads[d] \in Nat /\ reads'[d] \in Nat /\ LinkedAt(d)
                      /\ sub[d].binding # "none" => link[d] # "none"
  BY CallAssumption DEF SubTypeOK, Linked, LinkedAt, NoSub
<1>2. value \in Nat /\ value' \in Nat
  BY CallAssumption DEF SubTypeOK
<1>3. CASE Produce
  <2>1. /\ UNCHANGED <<sub, link, reads, closed, registry, broker, received, promise>>
        /\ value' = value + 1
    BY <1>3 DEF Produce, linkVars
  <2>2. \A d \in Call : Steps(d)
    BY <1>1, <2>1, HappensSteps DEF MovesPromise
  <2>3. QED
    BY <1>1, <1>2, <2>1, <2>2, StepsLink
<1>4. ASSUME NEW c \in Call, PollAnswered(c) PROVE Linked' /\ \A d \in Call : Moves(d)
  <2>1. UNCHANGED <<sub, closed, registry, broker, value>> /\ sub[c].binding = "longpoll" /\ reads[c] > 0
    BY <1>4 DEF PollAnswered, remoteVars
  <2>2. CASE c \in closed
    <3>1. /\ link' = [link EXCEPT ![c] = "ended"] /\ reads' = [reads EXCEPT ![c] = 0]
          /\ Settle(c, "resolved") /\ received' = received
      BY <1>4, <2>2 DEF PollAnswered
    <3>2. \A d \in Call : /\ MovesPromise(d) /\ (promise[d] # "idle" => promise'[d] # "idle")
                          /\ d # c => link'[d] = link[d] /\ reads'[d] = reads[d]
                          /\ link'[c] = "ended" /\ reads'[c] = 0
      BY <3>1, SettleAt DEF SubTypeOK
    <3>3. \A d \in Call : Steps(d)
      BY <1>1, <2>1, <3>1, <3>2, HappensSteps
    <3>4. QED
      BY <1>1, <1>2, <2>1, <3>3, StepsLink
  <2>3. CASE c \notin closed
    <3>1. PICK good \in BOOLEAN : Hear(c, good) /\ UNCHANGED <<link, reads>>
      BY <1>4, <2>3 DEF PollAnswered
    <3>2. Phase(c) = "on"
      BY <1>1, <2>1, <2>3 DEF Phase
    <3>3. \A d \in Call : Steps(d)
      BY <1>1, <2>1, <3>1, <3>2, HearAt, HappensSteps
    <3>4. QED
      BY <1>1, <1>2, <2>1, <3>3, StepsLink
  <2>4. QED
    BY <2>2, <2>3
<1>5. ASSUME NEW c \in Call, PollFails(c) PROVE Linked' /\ \A d \in Call : Moves(d)
  <2>1. /\ UNCHANGED <<sub, closed, registry, broker, value, received>>
        /\ sub[c].binding = "longpoll" /\ reads[c] > 0 /\ Settle(c, "rejected")
        /\ link' = [link EXCEPT ![c] = "ended"] /\ reads' = [reads EXCEPT ![c] = 0]
    BY <1>5 DEF PollFails, remoteVars
  <2>2. \A d \in Call : /\ MovesPromise(d) /\ (promise[d] # "idle" => promise'[d] # "idle")
                        /\ d # c => link'[d] = link[d] /\ reads'[d] = reads[d]
                        /\ link'[c] = "ended" /\ reads'[c] = 0
    BY <2>1, SettleAt DEF SubTypeOK
  <2>3. \A d \in Call : Steps(d)
    BY <1>1, <2>1, <2>2, HappensSteps
  <2>4. QED
    BY <1>1, <1>2, <2>1, <2>3, StepsLink
<1>6. ASSUME NEW c \in Call, ModbusTick(c) PROVE Linked' /\ \A d \in Call : Moves(d)
  <2>1. /\ UNCHANGED <<sub, link, closed, registry, broker, value, received, promise>>
        /\ link[c] = "polling" /\ \A d \in Call \ {c} : reads'[d] = reads[d]
    BY <1>6 DEF ModbusTick, remoteVars, SubTypeOK
  <2>2. \A d \in Call : Steps(d)
    BY <1>1, <2>1, HappensSteps DEF MovesPromise
  <2>3. QED
    BY <1>1, <1>2, <2>1, <2>2, StepsLink
<1>7. ASSUME NEW c \in Call, ReadAnswered(c) PROVE Linked' /\ \A d \in Call : Moves(d)
  <2>1. /\ UNCHANGED <<sub, link, closed, registry, broker, value>>
        /\ sub[c].binding = "modbus" /\ reads[c] > 0
        /\ reads' = [reads EXCEPT ![c] = @ - 1]
    BY <1>7 DEF ReadAnswered, remoteVars
  <2>2. PICK good \in BOOLEAN : Hear(c, good)
    BY <1>7 DEF ReadAnswered
  <2>3. Phase(c) = "on"
    BY <1>1, <2>1 DEF Phase
  <2>4. \A d \in Call : reads'[d] <= reads[d]
    BY <1>1, <2>1 DEF SubTypeOK
  <2>5. \A d \in Call : Steps(d)
    BY <1>1, <2>1, <2>2, <2>3, <2>4, HearAt, HappensSteps
  <2>6. QED
    BY <1>1, <1>2, <2>1, <2>5, StepsLink
<1>8. ASSUME NEW c \in Call, ReadFails(c) PROVE Linked' /\ \A d \in Call : Moves(d)
  <2>1. /\ UNCHANGED <<sub, closed, registry, broker, value, received>>
        /\ sub[c].binding = "modbus" /\ Settle(c, "rejected")
        /\ reads' = [reads EXCEPT ![c] = @ - 1] /\ link' = [link EXCEPT ![c] = "ended"]
    BY <1>8 DEF ReadFails, remoteVars
  <2>2. \A d \in Call : /\ MovesPromise(d) /\ (promise[d] # "idle" => promise'[d] # "idle")
                        /\ reads'[d] <= reads[d] /\ link'[c] = "ended"
                        /\ d # c => link'[d] = link[d]
    BY <1>1, <2>1, SettleAt DEF SubTypeOK
  <2>3. \A d \in Call : Steps(d)
    BY <1>1, <2>1, <2>2, HappensSteps
  <2>4. QED
    BY <1>1, <1>2, <2>1, <2>3, StepsLink
<1>9. ASSUME NEW c \in Call, Pushed(c) PROVE Linked' /\ \A d \in Call : Moves(d)
  <2>1. /\ UNCHANGED <<sub, link, reads, closed, registry, broker, value>> /\ link[c] = "listening"
    BY <1>9 DEF Pushed, linkVars, remoteVars
  <2>2. PICK good \in BOOLEAN : Hear(c, good)
    BY <1>9 DEF Pushed
  <2>3. Phase(c) = "on"
    BY <1>1, <2>1 DEF Phase, LinkedAt
  <2>4. \A d \in Call : Steps(d)
    BY <1>1, <2>1, <2>2, <2>3, HearAt, HappensSteps
  <2>5. QED
    BY <1>1, <1>2, <2>1, <2>4, StepsLink
<1>10. ASSUME NEW c \in Call, PushFails(c) PROVE Linked' /\ \A d \in Call : Moves(d)
  <2>1. /\ UNCHANGED <<sub, reads, closed, registry, broker, value, received>>
        /\ sub[c].binding # "mqtt" /\ link[c] = "listening" /\ Settle(c, "rejected")
        /\ link' = [link EXCEPT ![c] = IF sub[c].binding = "sse" THEN @ ELSE "ended"]
    BY <1>10 DEF PushFails, remoteVars
  <2>2. \A d \in Call : /\ MovesPromise(d) /\ (promise[d] # "idle" => promise'[d] # "idle")
                        /\ d # c => link'[d] = link[d]
                        /\ link'[c] = link[c] \/ link'[c] = "ended"
    BY <2>1, SettleAt DEF SubTypeOK
  <2>3. \A d \in Call : Steps(d)
    BY <1>1, <2>1, <2>2, HappensSteps
  <2>4. QED
    BY <1>1, <1>2, <2>1, <2>3, StepsLink
<1>11. ASSUME NEW k \in Call, BrokerConnects(k) \/ BrokerLost(k) \/ BrokerFails(k)
       PROVE  Linked' /\ \A d \in Call : Moves(d)
  <2>1. PICK from \in {"connecting", "connected"}, to \in {"connecting", "connected", "ended"},
             l \in {"listening", "quiet", "ended"} :
            BrokerTurns(k, from, to, l) /\ (l = "ended" => to = "ended")
    <3>1. \/ BrokerTurns(k, "connecting", "connected", "listening")
          \/ BrokerTurns(k, "connected", "connecting", "quiet")
          \/ BrokerTurns(k, "connecting", "ended", "ended")
      BY <1>11 DEF BrokerConnects, BrokerLost, BrokerFails
    <3>2. QED
      BY <3>1
  <2>2. /\ UNCHANGED <<sub, reads, closed, registry, value, received, promise>>
        /\ broker[k] # "ended" /\ broker'[k] = to
        /\ \A d \in Call \ {k} : broker'[d] = broker[d]
        /\ \A d \in Call : link'[d] = IF sub[d] # NoSub /\ sub[d].binding = "mqtt" /\ sub[d].client = k
                                     THEN l ELSE link[d]
    BY <2>1 DEF BrokerTurns, OfClient, SubTypeOK
  <2>3. ASSUME NEW d \in Call PROVE Steps(d)
    <3>1. sub[d].binding = "mqtt" => sub[d].client \in Call
      BY DEF SubTypeOK, Sub, NoSub
    <3>2. CASE sub[d] # NoSub /\ sub[d].binding = "mqtt" /\ sub[d].client = k
      <4>1. link'[d] = l /\ link[d] # "none" /\ link[d] # "ended" /\ d \notin closed
        BY <1>1, <2>2, <3>2 DEF LinkedAt, Accounted
      <4>2. QED
        BY <2>1, <2>2, <3>2, <4>1 DEF Steps, MovesPromise
    <3>3. CASE ~(sub[d] # NoSub /\ sub[d].binding = "mqtt" /\ sub[d].client = k)
      <4>1. link'[d] = link[d] /\ (sub[d].binding = "mqtt" => sub[d].client # k)
        BY <2>2, <3>3 DEF NoSub
      <4>2. sub[d].binding = "mqtt" /\ link'[d] = "ended" => broker'[sub[d].client] = "ended"
        <5>1. LinkedAt(d)
          BY <1>1
        <5>2. QED
          BY <2>2, <3>1, <4>1, <5>1 DEF LinkedAt
      <4>3. d \in closed' => sub[d].binding \in Accounted /\ link'[d] # "listening"
        <5>1. LinkedAt(d)
          BY <1>1
        <5>2. QED
          BY <2>2, <4>1, <5>1 DEF LinkedAt
      <4>4. reads'[d] <= reads[d]
        BY <1>1, <2>2
      <4>5. QED
        BY <2>2, <4>1, <4>2, <4>3, <4>4 DEF Steps, MovesPromise
    <3>4. QED
      BY <3>2, <3>3
  <2>4. QED
    BY <1>1, <1>2, <2>2, <2>3, StepsLink
<1>12. QED
  BY <1>3, <1>4, <1>5, <1>6, <1>7, <1>8, <1>9, <1>10, <1>11 DEF Happens

LEMMA SendLinks ==
    ASSUME TypeOK, Linked, thing' = thing, NEW c \in Call, promise[c] = "idle",
           NEW a \in thing.asks[c], NEW i \in DOMAIN Forms(a), NEW k \in Call, Send(c, a, i, k)
    PROVE  Linked' /\ \A d \in Call : Moves(d)
<1> DEFINE b == BindingOf(Forms(a)[i])
           h == HrefOf(a, i)
<1>1. SubTypeOK /\ SubTypeOK' /\ thing \in Thing
  BY SendTypes DEF TypeOK
<1>2. \/ Rejects(c) \/ Waits(c)
      \/ h \in Href /\ b \in Binding /\ Subscribe(c, b, k, h)
      \/ h \in Href /\ Unlink(c, b, k, h)
  BY <1>1, SendCases
<1>3. b = HrefBinding(h)
  <2>1. Forms(a) = thing.forms[a.name]
    BY DEF Forms
  <2>2. h[1] = a.name /\ h[2] = i
    BY DEF HrefOf
  <2>3. QED
    BY <2>1, <2>2 DEF HrefBinding
<1> HIDE DEF b, h
<1>4. CASE Rejects(c) \/ Waits(c)
  <2>1. /\ UNCHANGED <<sub, link, reads, closed, registry, broker, value, received>>
        /\ promise' = [promise EXCEPT ![c] = "rejected"]
             \/ promise' = [promise EXCEPT ![c] = "pending"]
    BY <1>4 DEF Rejects, Waits, Answered, linkVars, remoteVars
  <2>2. \A d \in Call : MovesPromise(d) /\ (promise'[d] = "idle" => promise[d] = "idle")
    BY <1>1, <2>1 DEF MovesPromise, SubTypeOK
  <2>3. UNCHANGED <<linkVars, remoteVars, received>>
    BY <2>1 DEF linkVars, remoteVars
  <2>4. QED
    BY <1>1, <2>2, <2>3, OnlyPromise
<1>5. CASE h \in Href /\ b \in Binding /\ Subscribe(c, b, k, h)
  BY <1>1, <1>3, <1>5, SubscribeLinks
<1>6. CASE h \in Href /\ Unlink(c, b, k, h)
  BY <1>1, <1>6, UnlinkLinks
<1>7. QED
  BY <1>2, <1>4, <1>5, <1>6

LEMMA SendPromise ==
    ASSUME SubTypeOK, thing \in Thing, NEW c \in Call, NEW a \in thing.asks[c],
           NEW i \in DOMAIN Forms(a), NEW k \in Call, Send(c, a, i, k)
    PROVE  promise'[c] # "idle"
<1> DEFINE b == BindingOf(Forms(a)[i])
           h == HrefOf(a, i)
<1>1. \/ Rejects(c) \/ Waits(c)
      \/ h \in Href /\ b \in Binding /\ Subscribe(c, b, k, h)
      \/ h \in Href /\ Unlink(c, b, k, h)
  BY SendCases
<1> HIDE DEF b, h
<1>2. (\E how \in {"pending", "resolved", "rejected"} : Answered(c, how)) => promise'[c] # "idle"
  BY DEF Answered, SubTypeOK
<1>3. CASE Rejects(c) \/ Waits(c)
  BY <1>2, <1>3 DEF Rejects, Waits
<1>4. CASE b \in Binding /\ Subscribe(c, b, k, h)
  <2>1. (\E l, n : Opened(c, b, k, h, l, n)) \/ Answered(c, "rejected")
    BY <1>4 DEF Subscribe, SubscribeHttp, SubscribeModbus, SubscribeMqtt, SubscribePushed, Binding
  <2>2. QED
    BY <1>2, <2>1 DEF Opened
<1>5. CASE Unlink(c, b, k, h)
  <2>1. CASE UnlinkModbus(c, k, h)
    <3>1. CASE Registered(k, h)
      <4> DEFINE s == registry[<<k, h>>]
      <4>1. promise' = [promise EXCEPT ![c] = "resolved",
                                       ![s] = IF @ = "pending" THEN "resolved" ELSE @]
        BY <2>1, <3>1 DEF UnlinkModbus
      <4> HIDE DEF s
      <4>2. QED
        BY <4>1 DEF SubTypeOK
    <3>2. CASE ~Registered(k, h)
      BY <1>2, <2>1, <3>2 DEF UnlinkModbus
    <3>3. QED
      BY <3>1, <3>2
  <2>2. CASE UnlinkHttp(c, k, h) \/ UnlinkMqtt(c, k, h) \/ UnlinkNothing(c)
    BY <1>2, <2>2 DEF UnlinkHttp, UnlinkMqtt, UnlinkNothing
  <2>3. QED
    BY <1>5, <2>1, <2>2 DEF Unlink
<1>6. QED
  BY <1>1, <1>3, <1>4, <1>5

-----------------------------------------------------------------------------
(* The clients of the calls                                                *)

Kept == \A s \in DOMAIN cache : thing.security => security[cache[s]] # "none"

(* What getClientFor() chose is what the call keeps, because a call is     *)
(* made once and a client that is kept is never replaced.                  *)
SentAt(c) == via[c] # NoVia =>
    /\ promise[c] # "idle" /\ asked[c] \in thing.asks[c]
    /\ FormOf(c).scheme \in DOMAIN cache
    /\ IF asked[c].index = 0
       THEN via[c].client = cache[FormOf(c).scheme] /\ Offers(FormOf(c), asked[c].op)
       ELSE via[c].client = c

Inv == TypeOK /\ Linked /\ Kept /\ \A c \in Call : SentAt(c)

LEMMA SentStays ==
    ASSUME NEW d \in Call, SentAt(d), MovesPromise(d), thing' = thing,
           asked'[d] = asked[d] \/ promise[d] = "idle", via'[d] = via[d],
           DOMAIN cache \subseteq DOMAIN cache', \A s \in DOMAIN cache : cache'[s] = cache[s]
    PROVE  SentAt(d)'
<1> SUFFICES ASSUME via'[d] # NoVia' PROVE SentAt(d)'
  BY DEF SentAt
<1>1. /\ via[d] # NoVia /\ promise[d] # "idle" /\ promise'[d] # "idle" /\ asked'[d] = asked[d]
  BY DEF SentAt, MovesPromise, NoVia
<1>2. FormOf(d)' = FormOf(d)
  BY <1>1 DEF FormOf, Forms
<1>3. QED
  BY <1>1, <1>2 DEF SentAt, Offers, Opposite, DefaultOps, Affordance

LEMMA StartInv ==
    ASSUME Inv, NEW c \in Call, Start(c)
    PROVE  Inv' /\ \A d \in Call : Moves(d)
<1>1. TypeOK /\ Linked /\ Kept /\ (\A d \in Call : SentAt(d)) /\ SubTypeOK /\ thing \in Thing
  BY DEF Inv, TypeOK
<1>2. TypeOK'
  BY <1>1, StartTypes
<1>3. promise[c] = "idle" /\ thing' = thing /\ factories' = factories /\ credentials' = credentials
  BY <1>1, StartCases
<1>4. PICK a \in thing.asks[c] :
        /\ asked' = [asked EXCEPT ![c] = a]
        /\ \/ Rejects(c) /\ UNCHANGED <<clientVars, via>>
           \/ /\ Rejects(c) /\ UNCHANGED via
              /\ \E s \in factories : KeepClient(c, a, s) /\ (IsKept(s) => ~Refuses(s))
           \/ \E i, s, k :
                /\ Chooses(c, a, i, s, k) /\ Send(c, a, i, k)
                /\ via' = [via EXCEPT ![c] = [client |-> k, form |-> i]]
  BY <1>1, StartCases
<1>5. \A d \in Call : asked'[d] = (IF d = c THEN a ELSE asked[d])
  BY <1>1, <1>4 DEF TypeOK
<1>6. ASSUME NEW s \in factories, KeepClient(c, a, s)
      PROVE  /\ Kept' /\ DOMAIN cache' = DOMAIN cache \cup {s}
             /\ \A t \in DOMAIN cache' : cache'[t] = IF t \in DOMAIN cache THEN cache[t] ELSE c
  <2>1. /\ DOMAIN cache' = DOMAIN cache \cup {s}
        /\ \A t \in DOMAIN cache' : cache'[t] = IF t \in DOMAIN cache THEN cache[t] ELSE c
        /\ security' = IF s \in DOMAIN cache THEN security ELSE [security EXCEPT ![c] = Given]
    BY <1>1, <1>3, <1>6, KeepClientTypes
  <2>2. thing.security => Given # "none"
    BY DEF Given
  <2>3. Kept'
    BY <1>1, <1>3, <2>1, <2>2 DEF Kept, TypeOK
  <2>4. QED
    BY <2>1, <2>3
<1>7. Rejects(c) => Linked' /\ \A d \in Call : Moves(d)
  BY <1>1, <1>3, OnlyPromise DEF Rejects, Answered, MovesPromise, SubTypeOK
<1>8. CASE Rejects(c) /\ UNCHANGED <<clientVars, via>>
  <2>1. Kept' /\ cache' = cache /\ via' = via
    BY <1>1, <1>3, <1>8 DEF Kept, clientVars
  <2>2. \A d \in Call : SentAt(d)'
    BY <1>1, <1>3, <1>5, <1>7, <1>8, <2>1, SentStays DEF Moves
  <2>3. QED
    BY <1>2, <1>7, <1>8, <2>1, <2>2 DEF Inv
<1>9. ASSUME Rejects(c), UNCHANGED via, NEW s \in factories, KeepClient(c, a, s)
      PROVE  Inv' /\ \A d \in Call : Moves(d)
  <2>1. \A d \in Call : SentAt(d)'
    BY <1>1, <1>3, <1>5, <1>6, <1>7, <1>9, SentStays DEF Moves
  <2>2. QED
    BY <1>2, <1>6, <1>7, <1>9, <2>1 DEF Inv
<1>10. ASSUME NEW i, NEW s, NEW k, Chooses(c, a, i, s, k), Send(c, a, i, k),
              via' = [via EXCEPT ![c] = [client |-> k, form |-> i]]
       PROVE  Inv' /\ \A d \in Call : Moves(d)
  <2>1. /\ i \in DOMAIN Forms(a) /\ s = Forms(a)[i].scheme /\ s \in factories
        /\ k = ClientFor(c, a, s) /\ k \in Call /\ KeepClient(c, a, s)
        /\ a.index = 0 => Offers(Forms(a)[i], a.op)
    BY <1>1, <1>10, ClientTyped DEF Chooses
  <2>2. Linked' /\ \A d \in Call : Moves(d)
    BY <1>1, <1>3, <1>10, <2>1, SendLinks
  <2>3. promise'[c] # "idle"
    BY <1>1, <1>10, <2>1, SendPromise
  <2>4. ASSUME NEW d \in Call, d # c PROVE SentAt(d)'
    <3>1. via'[d] = via[d]
      BY <1>1, <1>10, <2>4 DEF TypeOK
    <3>2. QED
      BY <1>1, <1>3, <1>5, <1>6, <2>1, <2>2, <2>4, <3>1, SentStays DEF Moves
  <2>5. SentAt(c)'
    <3>1. via'[c] = [client |-> k, form |-> i] /\ asked'[c] = a
      BY <1>1, <1>5, <1>10 DEF TypeOK
    <3>2. FormOf(c)' = Forms(a)[i]
      BY <1>3, <3>1 DEF FormOf, Forms
    <3>3. /\ s \in DOMAIN cache'
          /\ k = IF a.index = 0 THEN cache'[s] ELSE c
      BY <1>6, <2>1 DEF ClientFor, IsNew
    <3>4. Offers(FormOf(c), asked[c].op)' <=> Offers(Forms(a)[i], a.op)
      BY <3>1, <3>2
    <3>5. via'[c].client = k /\ asked'[c].index = a.index /\ FormOf(c)'.scheme = s
      BY <2>1, <3>1, <3>2
    <3>6. IF a.index = 0 THEN k = cache'[s] /\ Offers(FormOf(c), asked[c].op)' ELSE k = c
      BY <2>1, <3>3, <3>4
    <3>7. asked'[c] \in thing'.asks[c]
      BY <1>3, <3>1
    <3>8. QED
      BY <2>3, <3>3, <3>5, <3>6, <3>7 DEF SentAt
  <2>6. QED
    BY <1>2, <1>6, <2>1, <2>2, <2>4, <2>5 DEF Inv
<1>11. QED
  BY <1>4, <1>8, <1>9, <1>10

LEMMA InvStep ==
    ASSUME Inv, [Next]_vars
    PROVE  Inv' /\ \A d \in Call : Moves(d)
<1>1. TypeOK /\ TypeOK' /\ SubTypeOK /\ SubTypeOK' /\ Linked
  BY TypesStep DEF Inv, TypeOK
<1>2. ASSUME NEW c \in Call, Start(c) PROVE Inv' /\ \A d \in Call : Moves(d)
  BY <1>2, StartInv
<1>3. ASSUME Linked' /\ (\A d \in Call : Moves(d)),
             UNCHANGED <<thing, cache, security, asked, via>>
      PROVE  Inv' /\ \A d \in Call : Moves(d)
  <2>1. \A d \in Call : SentAt(d)'
    BY <1>3, SentStays DEF Inv, Moves
  <2>2. Kept'
    BY <1>3 DEF Inv, Kept
  <2>3. QED
    BY <1>1, <1>3, <2>1, <2>2 DEF Inv
<1>4. ASSUME UNCHANGED <<subVars, thing, cache, security, asked, via>>
      PROVE  Inv' /\ \A d \in Call : Moves(d)
  <2>1. Linked' /\ \A d \in Call : Moves(d)
    BY <1>1, <1>4, OnlyPromise DEF subVars, MovesPromise
  <2>2. QED
    BY <1>3, <1>4, <2>1
<1>5. CASE AddClientFactory \/ AddCredentials \/ StartMultiple \/ SettleMultiple \/ UNCHANGED vars
  BY <1>4, <1>5 DEF AddClientFactory, AddCredentials, StartMultiple, SettleMultiple, vars,
                    clientVars, callVars
<1>6. ASSUME NEW c \in Call, Answer(c) PROVE Inv' /\ \A d \in Call : Moves(d)
  <2>1. /\ UNCHANGED <<linkVars, remoteVars, received, thing, cache, security, asked, via>>
        /\ promise[c] = "pending"
        /\ promise' = [promise EXCEPT ![c] = "resolved"] \/ promise' = [promise EXCEPT ![c] = "rejected"]
    BY <1>6 DEF Answer, Answered, clientVars
  <2>2. \A d \in Call : MovesPromise(d) /\ (promise'[d] = "idle" => promise[d] = "idle")
    BY <1>1, <2>1 DEF MovesPromise, SubTypeOK
  <2>3. Linked' /\ \A d \in Call : Moves(d)
    BY <1>1, <2>1, <2>2, OnlyPromise
  <2>4. QED
    BY <1>3, <2>1, <2>3
<1>7. CASE Happens /\ Rest
  <2>1. UNCHANGED <<thing, cache, security, asked, via>>
    BY <1>7 DEF Rest, clientVars, callVars
  <2>2. Linked' /\ \A d \in Call : Moves(d)
    BY <1>1, <1>7, <2>1, HappensLinks
  <2>3. QED
    BY <1>3, <2>1, <2>2
<1>8. QED
  BY <1>2, <1>5, <1>6, <1>7 DEF Next

LEMMA InitInv == Init => Inv
<1> SUFFICES ASSUME Init PROVE Inv
  OBVIOUS
<1>1. ASSUME NEW c \in Call PROVE LinkedAt(c)
  <2>1. /\ sub[c] = NoSub /\ link[c] = "none" /\ promise[c] = "idle" /\ closed = {}
        /\ DOMAIN received[c] = {}
    BY DEF Init, SubInit
  <2>2. sub[c].binding = "none"
    BY <2>1 DEF NoSub
  <2>3. QED
    BY <2>1, <2>2 DEF LinkedAt
<1>2. Linked
  BY <1>1 DEF Init, SubInit, Linked
<1>3. Kept /\ \A c \in Call : SentAt(c)
  BY DEF Init, Kept, SentAt
<1>4. QED
  BY <1>2, <1>3, InitTypes DEF Inv

LEMMA Invariant == Spec => []Inv
<1>1. Inv /\ [Next]_vars => Inv'
  BY InvStep
<1>2. QED
  BY <1>1, InitInv, PTL DEF Spec

(* getClientFor(): whatever forms, factories and calls there are, a        *)
(* request without a formIndex goes out through the client that is kept    *)
(* for its scheme, with the security of the thing and a form that offers   *)
(* the operation.                                                          *)
THEOREM Secured == Spec => []UnindexedSecured
<1>1. Inv => UnindexedSecured
  <2> SUFFICES ASSUME Inv PROVE UnindexedSecured
    OBVIOUS
  <2>1. ASSUME NEW c \in Call, via[c] # NoVia
        PROVE  LET s == FormOf(c).scheme
               IN /\ s \in DOMAIN cache /\ (thing.security => security[cache[s]] # "none")
                  /\ IF asked[c].index = 0
                     THEN via[c].client = cache[s] /\ Offers(FormOf(c), asked[c].op)
                     ELSE via[c].client = c
    BY <2>1 DEF Inv, SentAt, Kept
  <2>2. QED
    BY <2>1 DEF UnindexedSecured
<1>2. QED
  BY <1>1, Invariant, PTL

(* ModbusClient: at any time at most one subscription of a client polls an *)
(* id, the one that is registered, however many failed or ended before.    *)
THEOREM OneInterval == Spec => []OneIntervalPerId
<1>1. Inv => OneIntervalPerId
  BY DEF Inv, Linked, LinkedAt, OneIntervalPerId, Registered
<1>2. QED
  BY <1>1, Invariant, PTL

(* The subscriptions of every protocol client are what Subscription        *)
(* promises.                                                               *)
THEOREM Refinement == Spec => ImplementsSubscription
<1>1. Init => Promised!Init
  BY DEF Init, SubInit, Promised!Init, Phase
<1>2. Inv /\ [Next]_vars => [Promised!Next]_(Promised!vars)
  <2> SUFFICES ASSUME Inv, [Next]_vars, NEW c \in Call
               PROVE  /\ Promised!PhaseMoves(c) /\ Promised!PromiseMoves(c)
                      /\ received'[c] = received[c] \/ Promised!Tells(c)
    BY DEF Promised!Next
  <2>1. Moves(c)
    BY InvStep
  <2>2. Phase(c) \in {"off", "on", "over"} /\ Phase(c)' \in {"off", "on", "over"}
    BY DEF Phase
  <2>3. /\ [d \in Call |-> Phase(d)][c] = Phase(c)
        /\ ([d \in Call |-> Phase(d)])'[c] = Phase(c)'
    OBVIOUS
  <2>4. Promised!PhaseMoves(c)
    BY <2>1, <2>2, <2>3 DEF Moves, MovesPhase, Promised!PhaseMoves
  <2>5. Promised!PromiseMoves(c)
    BY <2>1 DEF Moves, MovesPromise, Promised!PromiseMoves, Promised!Settled
  <2>6. TellsValue(c) => Promised!Tells(c)
    <3>1. received[c] \in Seq(Nat) /\ value \in Nat
      BY CallAssumption DEF Inv, TypeOK, SubTypeOK
    <3>2. ASSUME TellsValue(c)
          PROVE  LET now == received'[c]
                 IN  now = Append(received[c], now[Len(now)]) /\ now[Len(now)] = value
      BY <3>1, <3>2 DEF TellsValue
    <3>3. ASSUME TellsValue(c)
          PROVE  Promised!Newer(received[c], value)
      BY <3>3 DEF TellsValue, Promised!Newer
    <3>4. QED
      BY <2>3, <3>2, <3>3 DEF TellsValue, Promised!Tells, Promised!Settled
  <2>7. QED
    BY <2>1, <2>4, <2>5, <2>6 DEF Moves
<1>3. QED
  BY <1>1, <1>2, Invariant, PTL DEF Spec, ImplementsSubscription, Promised!Spec

-----------------------------------------------------------------------------
(* What a call is told: the ends of subscriptions and of writes            *)

Called(c) == \E i \in DOMAIN order : order[i] = c

(* The calls in the order they were made, each once.                       *)
Ordered ==
    /\ \A i, j \in DOMAIN order : order[i] = order[j] => i = j
    /\ \A c \in Call : promise[c] # "idle" <=> Called(c)

(* A call that waits has sent a request, and none waits for the end of a   *)
(* subscription.                                                           *)
AskedAt(c) ==
    /\ promise[c] = "idle" => asked[c] = NoAsk
    /\ promise[c] # "idle" => asked[c] \in thing.asks[c]
    /\ promise[c] = "pending" => via[c].form \in DOMAIN Forms(asked[c]) /\ asked[c].op \notin Ends
    /\ sub[c] # NoSub => asked[c].op \in Begins

(* The last subscription of a client and href that keep account of it is   *)
(* the one registered, or it was closed.                                   *)
LastAt(c) == sub[c] # NoSub /\ sub[c].binding \in Accounted =>
    \/ c \in closed
    \/ /\ Registered(sub[c].client, sub[c].href)
       /\ registry[<<sub[c].client, sub[c].href>>] = c
    \/ \E d \in Call : /\ sub[d] # NoSub /\ sub[d].client = sub[c].client
                       /\ sub[d].href = sub[c].href /\ Before(c, d)

(* UnsubscribedEnds for one call: it closed what it was to end.            *)
EndsAt(u) == asked[u].op \in Ends /\ promise[u] = "resolved" =>
    \A c \in Call :
        /\ Same(c, u) /\ sub[c].binding \in Accounted /\ Before(c, u)
        /\ \A d \in Call : Same(d, u) /\ Before(d, u) => ~Before(c, d)
        => c \in closed

DoneAt(c) == asked[c].op = "writeproperty" /\ promise[c] = "resolved" =>
    c \in performed \/ FormOf(c).scheme \in {"coap", "coaps"}

Told == Ordered /\ \A c \in Call : AskedAt(c) /\ LastAt(c) /\ EndsAt(c) /\ DoneAt(c)

LEMMA PositionIs ==
    ASSUME Ordered, NEW i \in DOMAIN order
    PROVE  Position(order[i]) = i
BY DEF Ordered, Position

(* A call that is made comes after all others, whose order stays.          *)
LEMMA AppendOrder ==
    ASSUME order \in Seq(Call), Ordered, NEW c \in Call, promise[c] = "idle",
           order' = Append(order, c)
    PROVE  /\ \A i, j \in DOMAIN order' : order'[i] = order'[j] => i = j
           /\ \A d \in Call : (\E i \in DOMAIN order' : order'[i] = d) <=> d = c \/ Called(d)
           /\ \A d, e \in Call : Called(d) /\ Called(e) => (Before(d, e)' <=> Before(d, e))
           /\ \A d \in Call : Called(d) => Before(d, c)' /\ ~Before(c, d)'
<1> DEFINE n == Len(order)
<1>1. /\ n \in Nat /\ DOMAIN order = 1..n /\ DOMAIN order' = 1..(n + 1)
      /\ \A i \in 1..n : order'[i] = order[i]
      /\ order'[n + 1] = c
  OBVIOUS
<1>2. ~Called(c)
  BY DEF Ordered
<1>3. \A i \in 1..n : order[i] # c
  BY <1>1, <1>2 DEF Called
<1> HIDE DEF n
<1>4. ASSUME NEW i \in 1..(n + 1), NEW j \in 1..(n + 1), order'[i] = order'[j]
      PROVE  i = j
  <2>1. CASE i \in 1..n /\ j \in 1..n
    BY <1>1, <1>4, <2>1 DEF Ordered
  <2>2. CASE i = n + 1 \/ j = n + 1
    BY <1>1, <1>3, <1>4, <2>2
  <2>3. QED
    BY <1>1, <2>1, <2>2
<1>5. ASSUME NEW d \in Call, Called(d)
      PROVE  Position(d) \in 1..n /\ Position(d)' = Position(d)
  <2>1. PICK i \in 1..n : order[i] = d
    BY <1>1, <1>5 DEF Called
  <2>2. Position(d) = i
    BY <1>1, <2>1, PositionIs
  <2>3. i \in 1..(n + 1) /\ order'[i] = d
    BY <1>1, <2>1
  <2>4. Position(d)' = i
    BY <1>1, <1>4, <2>3 DEF Position
  <2>5. QED
    BY <2>2, <2>4
<1>6. Position(c)' = n + 1
  <2>1. n + 1 \in 1..(n + 1)
    BY <1>1
  <2>2. QED
    BY <1>1, <1>4, <2>1 DEF Position
<1>7. \A i, j \in DOMAIN order' : order'[i] = order'[j] => i = j
  BY <1>1, <1>4
<1>8. ASSUME NEW d \in Call
      PROVE  (\E i \in DOMAIN order' : order'[i] = d) <=> d = c \/ Called(d)
  <2>1. \A i \in 1..(n + 1) : i \in 1..n \/ i = n + 1
    BY <1>1
  <2>2. n + 1 \in 1..(n + 1) /\ 1..n \subseteq 1..(n + 1)
    BY <1>1
  <2>3. QED
    BY <1>1, <2>1, <2>2 DEF Called
<1>9. \A d, e \in Call : Called(d) /\ Called(e) => (Before(d, e)' <=> Before(d, e))
  BY <1>5 DEF Before
<1>10. ASSUME NEW d \in Call, Called(d) PROVE Before(d, c)' /\ ~Before(c, d)'
  BY <1>1, <1>5, <1>6, <1>10 DEF Before
<1>11. QED
  BY <1>7, <1>8, <1>9, <1>10

(* A step that makes no call: promises settle, each with what it is for.   *)
SettlesAt(d) ==
    \/ promise'[d] = promise[d]
    \/ /\ promise[d] = "pending" /\ promise'[d] \in {"resolved", "rejected"}
       /\ asked[d].op = "writeproperty" /\ promise'[d] = "resolved" =>
             d \in performed' \/ FormOf(d).scheme \in {"coap", "coaps"}

LEMMA QuietTold ==
    ASSUME Told, UNCHANGED <<thing, sub, closed, registry, asked, via, order>>,
           performed \subseteq performed', \A d \in Call : SettlesAt(d)
    PROVE  Told'
<1>1. \A d \in Call : /\ AskedAt(d) /\ LastAt(d) /\ EndsAt(d) /\ DoneAt(d)
                      /\ promise[d] = "idle" <=> promise'[d] = "idle"
  BY DEF Told, SettlesAt
<1>2. Ordered'
  BY <1>1 DEF Told, Ordered, Called
<1>3. ASSUME NEW d \in Call PROVE (AskedAt(d) /\ LastAt(d) /\ EndsAt(d) /\ DoneAt(d))'
  <2>1. \A a : Forms(a)' = Forms(a)
    BY DEF Forms
  <2>2. FormOf(d)' = FormOf(d)
    BY <2>1 DEF FormOf
  <2>3. AskedAt(d)'
    BY <1>1, <2>1 DEF AskedAt, SettlesAt
  <2>4. LastAt(d)'
    BY <1>1 DEF LastAt, Registered, Before, Position
  <2>5. \A c \in Call : /\ Same(c, d)' <=> Same(c, d)
                        /\ \A e \in Call : Before(c, e)' <=> Before(c, e)
    BY <2>1 DEF Same, Before, Position, HrefOf
  <2>6. EndsAt(d)'
    <3>1. asked'[d].op \in Ends /\ promise'[d] = "resolved" => promise[d] = "resolved"
      BY <1>1 DEF AskedAt, SettlesAt
    <3>2. QED
      BY <1>1, <2>5, <3>1 DEF EndsAt
  <2>7. DoneAt(d)'
    BY <1>1, <2>2 DEF DoneAt, SettlesAt
  <2>8. QED
    BY <2>3, <2>4, <2>6, <2>7
<1>4. QED
  BY <1>2, <1>3 DEF Told

(* A step that makes call c, with ask a: what it may do to the others and  *)
(* what it has to tell of itself.                                          *)
LEMMA CallTold ==
    ASSUME TypeOK, Linked, Told, thing' = thing, performed' = performed, NEW c \in Call,
           promise[c] = "idle", NEW a \in thing.asks[c],
           asked' = [asked EXCEPT ![c] = a], order' = Append(order, c),
           \A d \in Call \ {c} : /\ via'[d] = via[d] /\ sub'[d] = sub[d]
                                 /\ \/ promise'[d] = promise[d]
                                    \/ /\ promise[d] = "pending" /\ promise'[d] = "resolved"
                                       /\ sub[d] # NoSub,
           closed \subseteq closed',
           promise'[c] # "idle",
           sub'[c] # NoSub => a.op \in Begins,
           promise'[c] = "pending" => via'[c].form \in DOMAIN Forms(a) /\ a.op \notin Ends,
           promise'[c] = "resolved" => a.op \in Ends,
           \A d \in Call : LastAt(d)', EndsAt(c)'
    PROVE  Told'
<1>1. \A d \in Call : /\ AskedAt(d) /\ LastAt(d) /\ EndsAt(d) /\ DoneAt(d) /\ LinkedAt(d)
                      /\ promise[d] # "idle" <=> Called(d)
  BY DEF Told, Ordered, Linked
<1>2. asked'[c] = a /\ \A d \in Call \ {c} : asked'[d] = asked[d]
  BY DEF TypeOK
<1>3. /\ \A i, j \in DOMAIN order' : order'[i] = order'[j] => i = j
      /\ \A d \in Call : (\E i \in DOMAIN order' : order'[i] = d) <=> d = c \/ Called(d)
      /\ \A d, e \in Call : Called(d) /\ Called(e) => (Before(d, e)' <=> Before(d, e))
      /\ \A d \in Call : Called(d) => Before(d, c)' /\ ~Before(c, d)'
  BY AppendOrder DEF Told, TypeOK
<1>4. \A d \in Call \ {c} : promise'[d] = "idle" <=> promise[d] = "idle"
  OBVIOUS
<1>5. Ordered'
  BY <1>1, <1>3, <1>4 DEF Ordered, Called
<1>6. \A e : Forms(e)' = Forms(e)
  BY DEF Forms
<1>7. ASSUME NEW d \in Call PROVE (AskedAt(d) /\ DoneAt(d))'
  <2>1. CASE d = c
    <3>1. AskedAt(c)'
      BY <1>2, <1>6 DEF AskedAt
    <3>2. a.op \in Ends => a.op # "writeproperty"
      BY DEF Ends
    <3>3. DoneAt(c)'
      BY <1>2, <3>2 DEF DoneAt
    <3>4. QED
      BY <2>1, <3>1, <3>3
  <2>2. CASE d # c
    <3>1. AskedAt(d)'
      BY <1>1, <1>2, <1>4, <1>6, <2>2 DEF AskedAt
    <3>2. FormOf(d)' = FormOf(d)
      BY <1>2, <1>6, <2>2 DEF FormOf
    <3>3. sub[d] # NoSub => asked[d].op # "writeproperty"
      BY <1>1 DEF AskedAt, Begins
    <3>4. DoneAt(d)'
      BY <1>1, <1>2, <2>2, <3>2, <3>3 DEF DoneAt
    <3>5. QED
      BY <3>1, <3>4
  <2>3. QED
    BY <2>1, <2>2
<1>8. ASSUME NEW u \in Call, u # c PROVE EndsAt(u)'
  <2> SUFFICES ASSUME asked'[u].op \in Ends, promise'[u] = "resolved",
                      NEW d \in Call, Same(d, u)', sub'[d].binding \in Accounted, Before(d, u)',
                      \A e \in Call : Same(e, u)' /\ Before(e, u)' => ~Before(d, e)'
               PROVE  d \in closed'
    BY DEF EndsAt
  <2>1. asked'[u] = asked[u] /\ via'[u] = via[u]
    BY <1>2, <1>8
  <2>2. promise[u] = "resolved" /\ Called(u)
    <3>1. promise[u] # "pending"
      BY <1>1, <2>1 DEF AskedAt
    <3>2. QED
      BY <1>1, <1>8, <3>1
  <2>3. d # c
    BY <1>3, <2>2
  <2>4. \A e \in Call \ {c} : Same(e, u)' <=> Same(e, u)
    BY <1>6, <2>1 DEF Same, HrefOf
  <2>5. \A e \in Call : Same(e, u) => Called(e)
    BY <1>1 DEF Same, LinkedAt
  <2>6. Same(d, u) /\ Called(d) /\ Before(d, u) /\ sub[d].binding \in Accounted
    BY <1>3, <2>2, <2>3, <2>4, <2>5
  <2>7. ASSUME NEW e \in Call, Same(e, u), Before(e, u) PROVE ~Before(d, e)
    <3>1. e # c
      BY <1>1, <2>5, <2>7
    <3>2. QED
      BY <1>3, <2>2, <2>4, <2>5, <2>6, <2>7, <3>1
  <2>8. EndsAt(u)
    BY <1>1
  <2>9. d \in closed
    BY <2>1, <2>2, <2>6, <2>7, <2>8 DEF EndsAt
  <2>10. QED
    BY <2>9
<1>9. QED
  BY <1>5, <1>7, <1>8 DEF Told

(* Subscriptions that stay registered, or that a later one replaces.       *)
LEMMA LastStays ==
    ASSUME TypeOK, Linked, Told, NEW c \in Call, promise[c] = "idle", order' = Append(order, c),
           NEW d \in Call, d # c, \A e \in Call \ {c} : sub'[e] = sub[e],
           closed \subseteq closed',
           \/ /\ Registered(sub[d].client, sub[d].href)
              /\ registry[<<sub[d].client, sub[d].href>>] = d
              => \/ d \in closed'
                 \/ /\ Registered(sub[d].client, sub[d].href)'
                    /\ registry'[<<sub[d].client, sub[d].href>>] = d
           \/ /\ sub'[c] # NoSub /\ sub'[c].client = sub[d].client /\ sub'[c].href = sub[d].href
    PROVE  LastAt(d)'
<1>1. /\ \A e \in Call : LastAt(e) /\ (promise[e] # "idle" <=> Called(e)) /\ LinkedAt(e)
  BY DEF Told, Ordered, Linked
<1>2. /\ \A e, g \in Call : Called(e) /\ Called(g) => (Before(e, g)' <=> Before(e, g))
      /\ \A e \in Call : Called(e) => Before(e, c)'
  BY AppendOrder DEF Told, TypeOK
<1> SUFFICES ASSUME sub'[d] # NoSub, sub'[d].binding \in Accounted, d \notin closed'
             PROVE  \/ /\ Registered(sub[d].client, sub[d].href)'
                       /\ registry'[<<sub[d].client, sub[d].href>>] = d
                    \/ \E e \in Call : /\ sub'[e] # NoSub /\ sub'[e].client = sub[d].client
                                       /\ sub'[e].href = sub[d].href /\ Before(d, e)'
  BY DEF LastAt
<1>3. sub'[d] = sub[d] /\ sub[d] # NoSub /\ Called(d) /\ d \notin closed
  BY <1>1 DEF LinkedAt
<1>4. CASE sub'[c] # NoSub /\ sub'[c].client = sub[d].client /\ sub'[c].href = sub[d].href
  BY <1>2, <1>3, <1>4
<1>5. CASE /\ Registered(sub[d].client, sub[d].href)
           /\ registry[<<sub[d].client, sub[d].href>>] = d
  BY <1>4, <1>5
<1>6. CASE \E e \in Call : /\ sub[e] # NoSub /\ sub[e].client = sub[d].client
                           /\ sub[e].href = sub[d].href /\ Before(d, e)
  <2>1. PICK e \in Call : /\ sub[e] # NoSub /\ sub[e].client = sub[d].client
                          /\ sub[e].href = sub[d].href /\ Before(d, e)
    BY <1>6
  <2>2. promise[e] # "idle"
    BY <1>1, <2>1 DEF LinkedAt
  <2>3. e # c /\ Called(e)
    BY <1>1, <2>2
  <2>4. QED
    BY <1>2, <1>3, <2>1, <2>3
<1>7. LastAt(d)
  BY <1>1
<1>8. QED
  BY <1>3, <1>5, <1>6, <1>7 DEF LastAt

LEMMA HrefOfBinding ==
    ASSUME NEW a, NEW i \in DOMAIN Forms(a)
    PROVE  BindingOf(Forms(a)[i]) = HrefBinding(HrefOf(a, i))
<1>1. Forms(a) = thing.forms[a.name]
  BY DEF Forms
<1>2. HrefOf(a, i)[1] = a.name /\ HrefOf(a, i)[2] = i
  BY DEF HrefOf
<1>3. QED
  BY <1>1, <1>2 DEF HrefBinding

(* Subscribing: the new subscription is the last of its client and href.   *)
LEMMA SubscribeLast ==
    ASSUME TypeOK, Linked, Told, NEW c \in Call, promise[c] = "idle", order' = Append(order, c),
           NEW b \in Binding, NEW k \in Call, NEW h \in Href, Subscribe(c, b, k, h)
    PROVE  /\ \A d \in Call \ {c} : sub'[d] = sub[d] /\ promise'[d] = promise[d]
           /\ promise'[c] \in {"pending", "rejected"} /\ closed' = closed
           /\ \A d \in Call : LastAt(d)'
<1>0. SubTypeOK
  BY DEF TypeOK
<1>1. sub[c] = NoSub
  BY DEF Linked, LinkedAt
<1>2. CASE Answered(c, "rejected") /\ UNCHANGED <<linkVars, remoteVars, received>>
  <2>1. /\ sub' = sub /\ closed' = closed /\ registry' = registry
        /\ promise'[c] = "rejected" /\ \A d \in Call \ {c} : promise'[d] = promise[d]
    BY <1>0, <1>2 DEF Answered, linkVars, SubTypeOK
  <2>2. \A d \in Call \ {c} : LastAt(d)'
    BY <2>1, LastStays DEF Registered
  <2>3. LastAt(c)'
    BY <1>1, <2>1 DEF LastAt
  <2>4. QED
    BY <2>1, <2>2, <2>3
<1>3. ASSUME NEW l, NEW n, Opened(c, b, k, h, l, n), Register(c, k, h)
      PROVE  /\ \A d \in Call \ {c} : sub'[d] = sub[d] /\ promise'[d] = promise[d]
             /\ promise'[c] \in {"pending", "rejected"} /\ closed' = closed
             /\ \A d \in Call : LastAt(d)'
  <2>1. /\ sub'[c] = [binding |-> b, client |-> k, href |-> h]
        /\ promise'[c] = "pending" /\ closed' = closed
        /\ \A d \in Call \ {c} : sub'[d] = sub[d] /\ promise'[d] = promise[d]
    BY <1>0, <1>3, OpenedAt
  <2>2. /\ DOMAIN registry' = DOMAIN registry \cup {<<k, h>>}
        /\ \A kh \in DOMAIN registry' :
              registry'[kh] = IF kh = <<k, h>> THEN c ELSE registry[kh]
    BY <1>0, <1>3, RegisterTypes
  <2>3. LastAt(c)'
    <3>1. sub'[c].client = k /\ sub'[c].href = h
      BY <2>1
    <3>2. <<k, h>> \in DOMAIN registry' /\ registry'[<<k, h>>] = c
      BY <2>2
    <3>3. QED
      BY <3>1, <3>2 DEF LastAt, Registered
  <2>4. ASSUME NEW d \in Call \ {c} PROVE LastAt(d)'
    <3>1. CASE <<sub[d].client, sub[d].href>> = <<k, h>>
      <4>1. sub'[c] # NoSub
        BY <2>1 DEF NoSub
      <4>2. sub'[c].client = sub[d].client /\ sub'[c].href = sub[d].href
        BY <2>1, <3>1
      <4>3. QED
        BY <2>1, <4>1, <4>2, LastStays
    <3>2. CASE <<sub[d].client, sub[d].href>> # <<k, h>>
      <4>1. /\ Registered(sub[d].client, sub[d].href)
            /\ registry[<<sub[d].client, sub[d].href>>] = d
            => /\ Registered(sub[d].client, sub[d].href)'
               /\ registry'[<<sub[d].client, sub[d].href>>] = d
        BY <2>1, <2>2, <3>2 DEF Registered
      <4>2. QED
        BY <2>1, <4>1, LastStays
    <3>3. QED
      BY <3>1, <3>2
  <2>5. QED
    BY <2>1, <2>3, <2>4
<1>4. ASSUME NEW l, NEW n, Opened(c, b, k, h, l, n), registry' = registry, b \notin Accounted
      PROVE  /\ \A d \in Call \ {c} : sub'[d] = sub[d] /\ promise'[d] = promise[d]
             /\ promise'[c] \in {"pending", "rejected"} /\ closed' = closed
             /\ \A d \in Call : LastAt(d)'
  <2>1. /\ sub'[c] = [binding |-> b, client |-> k, href |-> h]
        /\ promise'[c] = "pending" /\ closed' = closed
        /\ \A d \in Call \ {c} : sub'[d] = sub[d] /\ promise'[d] = promise[d]
    BY <1>0, <1>4, OpenedAt
  <2>2. LastAt(c)'
    BY <1>4, <2>1 DEF LastAt
  <2>3. \A d \in Call \ {c} : LastAt(d)'
    BY <1>4, <2>1, LastStays DEF Registered
  <2>4. QED
    BY <2>1, <2>2, <2>3
<1>5. CASE b \in {"longpoll", "sse"}
  <2>1. (\E l, n : Opened(c, b, k, h, l, n)) /\ Register(c, k, h)
    BY <1>5 DEF Subscribe, SubscribeHttp
  <2>2. QED
    BY <1>3, <2>1
<1>6. CASE b = "modbus"
  BY <1>2, <1>3, <1>6 DEF Subscribe, SubscribeModbus
<1>7. CASE b \in {"mqtt", "coap", "coaps", "opcua"}
  <2>1. (\E l, n : Opened(c, b, k, h, l, n)) /\ registry' = registry
    BY <1>7 DEF Subscribe, SubscribeMqtt, SubscribePushed
  <2>2. b \notin Accounted
    BY <1>7 DEF Accounted
  <2>3. QED
    BY <1>4, <2>1, <2>2
<1>8. QED
  BY <1>5, <1>6, <1>7 DEF Binding

(* Unsubscribing: what is registered under the id is closed, and nothing   *)
(* else is taken from the registry.                                        *)
LEMMA UnlinkCloses ==
    ASSUME TypeOK, Linked, NEW u \in Call, promise[u] = "idle",
           NEW b, NEW k \in Call, NEW h \in Href, Unlink(u, b, k, h)
    PROVE  /\ sub' = sub /\ closed \subseteq closed' /\ promise'[u] \in {"resolved", "rejected"}
           /\ \A d \in Call \ {u} :
                 \/ promise'[d] = promise[d]
                 \/ promise[d] = "pending" /\ promise'[d] = "resolved" /\ sub[d] # NoSub
           /\ b \in Accounted /\ promise'[u] = "resolved" /\ Registered(k, h) =>
                 registry[<<k, h>>] \in closed'
           /\ \A kh \in DOMAIN registry :
                 \/ kh \in DOMAIN registry' /\ registry'[kh] = registry[kh]
                 \/ registry[kh] \in closed'
<1>0. SubTypeOK
  BY DEF TypeOK
<1>1. CASE UnlinkHttp(u, k, h)
  <2>1. /\ sub' = sub /\ registry' = registry /\ promise' = [promise EXCEPT ![u] = "resolved"]
        /\ closed' = closed \/ closed' = closed \cup {registry[<<k, h>>]}
        /\ Registered(k, h) => closed' = closed \cup {registry[<<k, h>>]}
    BY <1>1 DEF UnlinkHttp, Answered
  <2>2. promise'[u] = "resolved" /\ \A d \in Call \ {u} : promise'[d] = promise[d]
    BY <1>0, <2>1 DEF SubTypeOK
  <2>3. QED
    BY <2>1, <2>2
<1>2. CASE UnlinkModbus(u, k, h) /\ ~Registered(k, h)
  BY <1>0, <1>2 DEF UnlinkModbus, Answered, linkVars, SubTypeOK
<1>3. CASE UnlinkModbus(u, k, h) /\ Registered(k, h)
  <2> DEFINE s == registry[<<k, h>>]
  <2>1. /\ sub' = sub /\ closed' = closed \cup {s}
        /\ promise' = [promise EXCEPT ![u] = "resolved",
                                      ![s] = IF @ = "pending" THEN "resolved" ELSE @]
        /\ registry' = [kh \in DOMAIN registry \ {<<k, h>>} |-> registry[kh]]
    BY <1>3 DEF UnlinkModbus, Forget
  <2>2. s \in Call /\ sub[s].binding \in Accounted
    BY <1>0, <1>3 DEF Registered, Linked, SubTypeOK
  <2> HIDE DEF s
  <2>a. NoSub.binding \notin Accounted /\ sub[u] = NoSub
    BY DEF Accounted, NoSub, Linked, LinkedAt
  <2>3. sub[s] # NoSub /\ s # u
    BY <2>2, <2>a
  <2>4. /\ promise'[u] = "resolved"
        /\ \A d \in Call \ {u, s} : promise'[d] = promise[d]
        /\ promise'[s] = IF promise[s] = "pending" THEN "resolved" ELSE promise[s]
    BY <1>0, <2>1, <2>2, <2>3 DEF SubTypeOK
  <2>5. \A kh \in DOMAIN registry : \/ kh \in DOMAIN registry' /\ registry'[kh] = registry[kh]
                                    \/ registry[kh] \in closed'
    BY <2>1 DEF s
  <2>6. registry[<<k, h>>] \in closed'
    BY <2>1 DEF s
  <2>7. QED
    BY <2>1, <2>3, <2>4, <2>5, <2>6
<1>4. CASE b \notin Accounted /\ (UnlinkMqtt(u, k, h) \/ UnlinkNothing(u))
  BY <1>0, <1>4 DEF UnlinkMqtt, UnlinkNothing, Answered, linkVars, SubTypeOK
<1>5. QED
  BY <1>1, <1>2, <1>3, <1>4 DEF Unlink, Accounted

LEMMA UnlinkLast ==
    ASSUME TypeOK, Linked, Told, thing' = thing, NEW u \in Call, promise[u] = "idle",
           NEW a \in thing.asks[u], NEW i \in DOMAIN Forms(a), NEW k \in Call,
           asked'[u] = a, via'[u] = [client |-> k, form |-> i],
           order' = Append(order, u), HrefOf(a, i) \in Href,
           Unlink(u, BindingOf(Forms(a)[i]), k, HrefOf(a, i))
    PROVE  EndsAt(u)' /\ \A d \in Call : LastAt(d)'
<1> DEFINE b == BindingOf(Forms(a)[i])
           h == HrefOf(a, i)
<1>0. b = HrefBinding(h)
  BY HrefOfBinding
<1> HIDE DEF b
<1>1. /\ sub' = sub /\ closed \subseteq closed'
      /\ b \in Accounted /\ promise'[u] = "resolved" /\ Registered(k, h) =>
            registry[<<k, h>>] \in closed'
      /\ \A kh \in DOMAIN registry :
            \/ kh \in DOMAIN registry' /\ registry'[kh] = registry[kh]
            \/ registry[kh] \in closed'
  BY UnlinkCloses DEF b
<1>2. /\ \A e \in Call : LastAt(e) /\ LinkedAt(e) /\ (promise[e] # "idle" <=> Called(e))
  BY DEF Told, Ordered, Linked
<1>3. sub[u] = NoSub
  BY <1>2 DEF LinkedAt
<1>4. LastAt(u)'
  BY <1>1, <1>3 DEF LastAt
<1>5. \A d \in Call \ {u} : LastAt(d)'
  BY <1>1, LastStays DEF Registered
<1>6. EndsAt(u)'
  <2>1. HrefOf(a, i)' = h
    BY DEF HrefOf, Forms
  <2>2. \A d \in Call : Same(d, u)' <=> sub[d] # NoSub /\ sub[d].client = k /\ sub[d].href = h
    <3>1. (HrefOf(asked[u], via[u].form))' = h
      BY DEF HrefOf, Forms
    <3>2. QED
      BY <1>1, <3>1 DEF Same, HrefOf, Forms
  <2>3. /\ \A d, e \in Call : Called(d) /\ Called(e) => (Before(d, e)' <=> Before(d, e))
        /\ \A d \in Call : Called(d) => Before(d, u)'
    BY AppendOrder DEF Told, TypeOK
  <2> HIDE DEF h
  <2> SUFFICES ASSUME promise'[u] = "resolved", NEW d \in Call,
                      Same(d, u)', sub'[d].binding \in Accounted,
                      \A e \in Call : Same(e, u)' /\ Before(e, u)' => ~Before(d, e)'
               PROVE  d \in closed'
    BY DEF EndsAt
  <2>4. /\ sub[d] # NoSub /\ sub[d].client = k /\ sub[d].href = h
        /\ sub[d].binding \in Accounted
    BY <1>1, <2>2
  <2>5. b \in Accounted
    <3>1. sub[d].binding = HrefBinding(sub[d].href)
      BY <1>2, <2>4 DEF LinkedAt
    <3>2. QED
      BY <1>0, <2>4, <3>1
  <2>6. \A e \in Call : sub[e] # NoSub => Called(e)
    BY <1>2 DEF LinkedAt
  <2>7. ~\E e \in Call : /\ sub[e] # NoSub /\ sub[e].client = sub[d].client
                         /\ sub[e].href = sub[d].href /\ Before(d, e)
    BY <2>2, <2>3, <2>4, <2>6
  <2>8. d \in closed \/ (Registered(k, h) /\ registry[<<k, h>>] = d)
    BY <1>2, <2>4, <2>7 DEF LastAt
  <2>9. QED
    BY <1>1, <2>5, <2>8
<1>7. QED
  BY <1>4, <1>5, <1>6

(* A call that throws or waits touches no subscription.                    *)
LEMMA AnsweredTold ==
    ASSUME TypeOK, Linked, Told, thing' = thing, performed' = performed, NEW c \in Call,
           promise[c] = "idle", NEW a \in thing.asks[c],
           asked' = [asked EXCEPT ![c] = a], order' = Append(order, c),
           \A d \in Call \ {c} : via'[d] = via[d],
           \/ Rejects(c)
           \/ Waits(c) /\ via'[c].form \in DOMAIN Forms(a) /\ a.op \notin Ends
    PROVE  Told'
<1>1. /\ sub' = sub /\ closed' = closed /\ registry' = registry
      /\ promise'[c] = "rejected" \/ (promise'[c] = "pending" /\ Waits(c))
      /\ \A d \in Call \ {c} : promise'[d] = promise[d]
  BY DEF Rejects, Waits, Answered, linkVars, TypeOK, SubTypeOK
<1>2. sub[c] = NoSub
  BY DEF Linked, LinkedAt
<1>3. \A d \in Call \ {c} : LastAt(d)'
  BY <1>1, LastStays DEF Registered
<1>4. LastAt(c)' /\ EndsAt(c)'
  BY <1>1, <1>2 DEF LastAt, EndsAt
<1>5. promise'[c] = "pending" => via'[c].form \in DOMAIN Forms(a) /\ a.op \notin Ends
  BY <1>1 DEF Rejects, Answered, TypeOK, SubTypeOK
<1>6. QED
  BY <1>1, <1>2, <1>3, <1>4, <1>5, CallTold

LEMMA StartTold ==
    ASSUME Inv, Told, NEW c \in Call, Start(c)
    PROVE  Told'
<1>1. TypeOK /\ Linked /\ SubTypeOK /\ thing \in Thing
  BY DEF Inv, TypeOK
<1>2. /\ promise[c] = "idle" /\ thing' = thing /\ performed' = performed
      /\ order' = Append(order, c)
  BY <1>1, StartCases DEF Start
<1>3. PICK a \in thing.asks[c] :
        /\ asked' = [asked EXCEPT ![c] = a]
        /\ \/ Rejects(c) /\ UNCHANGED <<clientVars, via>>
           \/ /\ Rejects(c) /\ UNCHANGED via
              /\ \E s \in factories : KeepClient(c, a, s) /\ (IsKept(s) => ~Refuses(s))
           \/ \E i, s, k :
                /\ Chooses(c, a, i, s, k) /\ Send(c, a, i, k)
                /\ via' = [via EXCEPT ![c] = [client |-> k, form |-> i]]
  BY <1>1, StartCases
<1>4. CASE Rejects(c) /\ UNCHANGED via
  BY <1>1, <1>2, <1>3, <1>4, AnsweredTold
<1>5. ASSUME NEW i, NEW s, NEW k, Chooses(c, a, i, s, k), Send(c, a, i, k),
             via' = [via EXCEPT ![c] = [client |-> k, form |-> i]]
      PROVE  Told'
  <2> DEFINE b == BindingOf(Forms(a)[i])
             h == HrefOf(a, i)
  <2>1. k \in Call /\ i \in DOMAIN Forms(a)
    BY <1>1, <1>5, ClientTyped DEF Chooses
  <2>2. /\ via'[c] = [client |-> k, form |-> i]
        /\ via'[c].form = i
        /\ \A d \in Call \ {c} : via'[d] = via[d]
        /\ asked'[c] = a
    BY <1>1, <1>3, <1>5 DEF TypeOK
  <2>3. \/ a.op \notin Ends /\ (Rejects(c) \/ Waits(c))
        \/ a.op \in Begins /\ h \in Href /\ b \in Binding /\ Subscribe(c, b, k, h)
        \/ a.op \in Ends /\ h \in Href /\ Unlink(c, b, k, h)
    BY <1>1, <1>5, <2>1, SendCases
  <2>4. sub[c] = NoSub
    BY <1>1, <1>2 DEF Linked, LinkedAt
  <2>5. CASE a.op \notin Ends /\ (Rejects(c) \/ Waits(c))
    BY <1>1, <1>2, <1>3, <2>1, <2>2, <2>5, AnsweredTold
  <2>6. CASE a.op \in Begins /\ h \in Href /\ b \in Binding /\ Subscribe(c, b, k, h)
    <3>1. /\ \A d \in Call \ {c} : sub'[d] = sub[d] /\ promise'[d] = promise[d]
          /\ promise'[c] \in {"pending", "rejected"} /\ closed' = closed
          /\ \A d \in Call : LastAt(d)'
      BY <1>1, <1>2, <2>1, <2>6, SubscribeLast
    <3>2. a.op \notin Ends
      BY <2>6 DEF Begins, Ends
    <3>3. EndsAt(c)'
      BY <2>2, <3>2 DEF EndsAt
    <3>4. QED
      BY <1>1, <1>2, <1>3, <2>1, <2>2, <2>6, <3>1, <3>2, <3>3, CallTold
  <2>7. CASE a.op \in Ends /\ h \in Href /\ Unlink(c, b, k, h)
    <3>1. /\ sub' = sub /\ closed \subseteq closed' /\ promise'[c] \in {"resolved", "rejected"}
          /\ \A d \in Call \ {c} :
                \/ promise'[d] = promise[d]
                \/ promise[d] = "pending" /\ promise'[d] = "resolved" /\ sub[d] # NoSub
      BY <1>1, <1>2, <2>1, <2>7, UnlinkCloses
    <3>2. EndsAt(c)' /\ \A d \in Call : LastAt(d)'
      BY <1>1, <1>2, <2>1, <2>2, <2>7, UnlinkLast
    <3>3. QED
      BY <1>1, <1>2, <1>3, <2>2, <2>4, <2>7, <3>1, <3>2, CallTold
  <2>8. QED
    BY <2>3, <2>5, <2>6, <2>7
<1>6. QED
  BY <1>3, <1>4, <1>5

(* What the network, an interval and the remote thing do settles promises  *)
(* of subscriptions only.                                                  *)
LEMMA HappensSettles ==
    ASSUME SubTypeOK, Linked, Happens
    PROVE  /\ UNCHANGED <<sub, closed, registry>>
           /\ \A d \in Call : \/ promise'[d] = promise[d]
                              \/ /\ promise[d] = "pending" /\ sub[d] # NoSub
                                 /\ promise'[d] \in {"resolved", "rejected"}
<1>1. \A c \in Call : /\ sub[c].binding \in {"longpoll", "modbus"} => sub[c] # NoSub
                      /\ link[c] = "listening" => sub[c] # NoSub
  <2>1. NoSub.binding = "none"
    BY DEF NoSub
  <2>2. \A c \in Call : link[c] = "none" <=> sub[c] = NoSub
    BY DEF Linked, LinkedAt
  <2>3. QED
    BY <2>1, <2>2
<1>2. ASSUME NEW c \in Call, sub[c] # NoSub, NEW how \in {"resolved", "rejected"}, Settle(c, how)
      PROVE  \A d \in Call : \/ promise'[d] = promise[d]
                             \/ /\ promise[d] = "pending" /\ sub[d] # NoSub
                                /\ promise'[d] \in {"resolved", "rejected"}
  BY <1>2 DEF Settle, SubTypeOK
<1>3. \A c, good : Hear(c, good) => \E how \in {"resolved", "rejected"} : Settle(c, how)
  BY DEF Hear
<1>4. CASE Produce
  BY <1>4 DEF Produce, linkVars
<1>5. ASSUME NEW c \in Call, PollAnswered(c) \/ PollFails(c) \/ ReadAnswered(c) \/ ReadFails(c)
                             \/ Pushed(c) \/ PushFails(c)
      PROVE  /\ UNCHANGED <<sub, closed, registry>> /\ sub[c] # NoSub
             /\ \E how \in {"resolved", "rejected"} : Settle(c, how)
  <2>1. UNCHANGED <<sub, closed, registry>>
    BY <1>5 DEF PollAnswered, PollFails, ReadAnswered, ReadFails, Pushed, PushFails, linkVars
  <2>2. sub[c] # NoSub
    BY <1>1, <1>5 DEF PollAnswered, PollFails, ReadAnswered, ReadFails, Pushed, PushFails
  <2>3. \/ \E how \in {"resolved", "rejected"} : Settle(c, how)
        \/ \E good \in BOOLEAN : Hear(c, good)
    BY <1>5 DEF PollAnswered, PollFails, ReadAnswered, ReadFails, Pushed, PushFails
  <2>4. QED
    BY <1>3, <2>1, <2>2, <2>3
<1>6. ASSUME NEW c \in Call, ModbusTick(c) \/ BrokerConnects(c) \/ BrokerLost(c) \/ BrokerFails(c)
      PROVE  UNCHANGED <<sub, closed, registry, promise>>
  BY <1>6 DEF ModbusTick, BrokerConnects, BrokerLost, BrokerFails, BrokerTurns
<1>7. QED
  BY <1>2, <1>4, <1>5, <1>6 DEF Happens

(* writeResource(): what resolves the promise of a write.                  *)
LEMMA AnswerSettles ==
    ASSUME Inv, Told, NEW c \in Call, Answer(c)
    PROVE  /\ performed \subseteq performed'
           /\ UNCHANGED <<thing, sub, closed, registry, asked, via, order>>
           /\ \A d \in Call : SettlesAt(d)
<1>0. TypeOK /\ SubTypeOK /\ thing \in Thing
  BY DEF Inv, TypeOK
<1>1. /\ promise[c] = "pending" /\ IsPlain(c)
      /\ UNCHANGED <<thing, sub, closed, registry, asked, via, order>>
  BY DEF Answer, linkVars
<1>2. PICK e \in Answers(FormOf(c).scheme, asked[c].op) :
        /\ performed' = IF e.performed THEN performed \cup {c} ELSE performed
        /\ \E how \in IF e.reply = "error" THEN {"rejected"}
                      ELSE IF asked[c].op = "writeproperty" THEN {"resolved"}
                      ELSE {"resolved", "rejected"} : Answered(c, how)
  BY DEF Answer
<1>3. performed \subseteq performed'
  BY <1>2
<1>4. \A d \in Call \ {c} : promise'[d] = promise[d]
  BY <1>0, <1>2 DEF Answered, SubTypeOK
<1>5. promise'[c] \in {"resolved", "rejected"} /\ (promise'[c] = "resolved" => e.reply # "error")
  BY <1>0, <1>2 DEF Answered, SubTypeOK
<1>6. FormOf(c) \in FormType
  <2>1. asked[c] \in thing.asks[c] /\ via[c].form \in DOMAIN Forms(asked[c])
    BY <1>1 DEF Told, AskedAt
  <2>2. QED
    BY <1>0, <2>1, FormsTyped DEF FormOf
<1>7. ASSUME asked[c].op = "writeproperty", e.reply # "error"
      PROVE  e.performed \/ FormOf(c).scheme \in {"coap", "coaps"}
  <2> DEFINE s == FormOf(c).scheme
  <2>1. s \in {"http", "coap", "coaps", "mqtt", "ws", "file", "modbus+tcp", "opc.tcp", "netconf"}
    BY <1>6 DEF FormType
  <2>2. e \in Answers(s, "writeproperty")
    BY <1>2, <1>7
  <2> HIDE DEF s
  <2>3. /\ Does(TRUE, "content").performed /\ Does(TRUE, "error").performed
        /\ Does(FALSE, "error").reply = "error"
    BY DEF Does
  <2>4. CASE s \in {"http", "modbus+tcp", "opc.tcp", "netconf"}
    <3>1. e \in {Does(TRUE, "content"), Does(TRUE, "error"), Does(FALSE, "error")}
      BY <2>2, <2>4 DEF Answers, HttpAnswers, SessionAnswers
    <3>2. QED
      BY <1>7, <2>3, <3>1
  <2>5. CASE s \in {"mqtt", "file"}
    <3>1. e = Does(FALSE, "error")
      BY <2>2, <2>5 DEF Answers, MqttAnswers, FileAnswers
    <3>2. QED
      BY <1>7, <2>3, <3>1
  <2>6. CASE s = "ws"
    BY <2>2, <2>6 DEF Answers, WsAnswers
  <2>7. QED
    BY <2>1, <2>4, <2>5, <2>6 DEF s
<1>8. SettlesAt(c)
  BY <1>1, <1>2, <1>5, <1>7 DEF SettlesAt
<1>9. QED
  BY <1>1, <1>3, <1>4, <1>8 DEF SettlesAt

LEMMA ToldStep ==
    ASSUME Inv, Told, [Next]_vars
    PROVE  Told'
<1>1. SubTypeOK /\ Linked
  BY DEF Inv, TypeOK
<1>2. ASSUME UNCHANGED <<thing, sub, closed, registry, asked, via, order, performed, promise>>
      PROVE  Told'
  BY <1>2, QuietTold DEF SettlesAt
<1>3. CASE AddClientFactory \/ AddCredentials \/ StartMultiple \/ SettleMultiple \/ UNCHANGED vars
  BY <1>2, <1>3 DEF AddClientFactory, AddCredentials, StartMultiple, SettleMultiple, vars,
                    subVars, linkVars, callVars
<1>4. CASE Happens /\ Rest
  <2>1. UNCHANGED <<thing, asked, via, order, performed>>
    BY <1>4 DEF Rest, callVars
  <2>2. \A d \in Call : sub[d] # NoSub => asked[d].op # "writeproperty"
    BY DEF Told, AskedAt, Begins
  <2>3. \A d \in Call : SettlesAt(d)
    BY <1>1, <1>4, <2>2, HappensSettles DEF SettlesAt
  <2>4. QED
    BY <1>1, <1>4, <2>1, <2>3, HappensSettles, QuietTold
<1>5. ASSUME NEW c \in Call, Answer(c) PROVE Told'
  BY <1>5, AnswerSettles, QuietTold
<1>6. ASSUME NEW c \in Call, Start(c) PROVE Told'
  BY <1>6, StartTold
<1>7. QED
  BY <1>3, <1>4, <1>5, <1>6 DEF Next

LEMMA InitTold == Init => Told
<1> SUFFICES ASSUME Init PROVE Told
  OBVIOUS
<1>1. /\ DOMAIN order = {}
      /\ \A c \in Call : promise[c] = "idle" /\ sub[c] = NoSub /\ asked[c] = NoAsk
  BY DEF Init, SubInit
<1>2. QED
  BY <1>1 DEF Told, Ordered, Called, AskedAt, LastAt, EndsAt, DoneAt

LEMMA ToldInvariant == Spec => []Told
<1>1. Inv /\ Told /\ [Next]_vars => Told'
  BY ToldStep
<1>2. QED
  BY <1>1, InitTold, Invariant, PTL DEF Spec

(* unobserveProperty(), unsubscribeEvent(): whichever calls were made in   *)
(* between, they close the last HTTP or Modbus subscription of their       *)
(* client and href.                                                        *)
THEOREM Unsubscribed == Spec => []UnsubscribedEnds
<1>1. Told => UnsubscribedEnds
  BY DEF Told, EndsAt, UnsubscribedEnds, Accounted
<1>2. QED
  BY <1>1, ToldInvariant, PTL

(* A write whose promise is resolved was carried out, except over CoAP.    *)
THEOREM DoneWrites == Spec => []DoneIsDone
<1>1. Told => DoneIsDone
  BY DEF Told, DoneAt, DoneIsDone
<1>2. QED
  BY <1>1, ToldInvariant, PTL
=============================================================================
