--------------------------- MODULE SessionsProofs ---------------------------
(***************************************************************************)
(* Theorems about Sessions, for every set of requests: the types, that one *)
(* request opens the router, and that the requests of both clients use     *)
(* their sessions the way OnDemandSession promises.                        *)
(***************************************************************************)
EXTENDS Sessions, TLAPS

(* Each kind of client has stages of its own.                              *)
OwnStages ==
    \A r \in Request :
        /\ stage[r] \in {"initializing", "opening"} => kind = "netconf"
        /\ stage[r] \in {"connecting", "creating"} => kind = "opcua"

(* A request has a session from the moment on that it is sent, and an      *)
(* outcome from its end on.                                                *)
Progresses ==
    \A r \in Request :
        /\ stage[r] \in Opening \cup {"unsent"} => used[r] = NoSession
        /\ stage[r] = "sent" => used[r] # NoSession
        /\ stage[r] # "ended" => outcome[r] = "none"

(* What later requests find and use has been opened.                       *)
FoundOpened ==
    /\ session # NoSession => session \in opened
    /\ router.state = "open" => router.by \in opened

IInv == TypeOK /\ OwnStages /\ Progresses /\ FoundOpened /\ OneOpener

(* A client has a session and no router, or the other way round; at first  *)
(* it has neither, and no request is under way.                            *)
LEMMA InitIInv == Init => IInv
<1> SUFFICES ASSUME Init PROVE IInv
  OBVIOUS
<1> USE SessionAssumption DEF Init, NoSession
<1>1. TypeOK
  BY DEF TypeOK, Opening, OpcuaSetSecurity, NetconfSetSecurity
<1>2. OwnStages /\ Progresses /\ FoundOpened /\ OneOpener
  BY DEF OwnStages, Progresses, FoundOpened, OneOpener, Opening
<1>3. QED
  BY <1>1, <1>2 DEF IInv

(* A request that starts in an OpcuaClient, opens its session or finds it. *)
LEMMA OpcuaStartStep ==
    ASSUME IInv, NEW r \in Request, Start(r), kind = "opcua"
    PROVE  IInv'
<1> USE SessionAssumption DEF NoSession, Opening
<1>1. stage[r] = "unsent" /\ UNCHANGED <<kind, identity, router, opened, lost>>
  BY DEF Start, OpcuaRequest
<1>2. CASE At(r, "connecting") /\ client' = r /\ UNCHANGED <<connected, session>>
  BY <1>1, <1>2 DEF IInv, TypeOK, OwnStages, Progresses, FoundOpened, OneOpener, At
<1>3. ASSUME NEW how \in {"failed", "done"}, Ends(r, how), UNCHANGED opcuaVars
      PROVE  IInv'
  BY <1>1, <1>3 DEF IInv, TypeOK, OwnStages, Progresses, FoundOpened, OneOpener, Ends,
                    opcuaVars
<1>4. CASE session # NoSession /\ Sends(r, session) /\ UNCHANGED opcuaVars
  BY <1>1, <1>4 DEF IInv, TypeOK, OwnStages, Progresses, FoundOpened, OneOpener, Sends,
                    opcuaVars
<1>5. QED
  BY <1>2, <1>3, <1>4 DEF Start, OpcuaRequest, OpcuaConnect, OpcuaSends, opcuaVars

(* A request that starts in a NetconfClient: it begins to open the router, *)
(* which nobody does then, or it uses what it finds, or it fails.          *)
LEMMA NetconfStartStep ==
    ASSUME IInv, NEW r \in Request, Start(r), kind = "netconf"
    PROVE  IInv'
<1> USE SessionAssumption DEF NoSession, Opening
<1>1. /\ stage[r] = "unsent"
      /\ UNCHANGED <<kind, identity, client, connected, session, opened, lost>>
  BY DEF Start, NetconfRequest, opcuaVars
<1>2. ASSUME NEW s \in {"initializing", "opening"}, NEW t \in {"blank", "opening"},
             router.state = "null", At(r, s), router' = [state |-> t, by |-> r]
      PROVE  IInv'
  <2>1. TypeOK' /\ OwnStages' /\ Progresses' /\ FoundOpened'
    BY <1>1, <1>2 DEF IInv, TypeOK, OwnStages, Progresses, FoundOpened, At
  <2>2. \A q \in Request : stage[q] \notin Opening
    BY <1>2 DEF IInv, OneOpener
  <2>3. OneOpener'
    BY <1>1, <1>2, <2>2 DEF IInv, TypeOK, OneOpener, At
  <2>4. QED
    BY <2>1, <2>3 DEF IInv
<1>3. CASE Ends(r, "failed") /\ UNCHANGED router
  BY <1>1, <1>3 DEF IInv, TypeOK, OwnStages, Progresses, FoundOpened, OneOpener, Ends
<1>4. CASE router.state = "open" /\ Sends(r, router.by) /\ UNCHANGED router
  BY <1>1, <1>4 DEF IInv, TypeOK, OwnStages, Progresses, FoundOpened, OneOpener, Sends
<1>5. QED
  BY <1>2, <1>3, <1>4 DEF Start, NetconfRequest, NetconfInitialize, NetconfRpc, IInv, TypeOK

(* The continuations of an OpcuaClient that is connecting.                 *)
LEMMA OpcuaOpensStep ==
    ASSUME IInv, NEW r \in Request, OpcuaConnected(r) \/ OpcuaSessionCreated(r)
    PROVE  IInv'
<1> USE SessionAssumption DEF NoSession, Opening
<1>1. CASE OpcuaConnected(r)
  BY <1>1 DEF OpcuaConnected, IInv, TypeOK, OwnStages, Progresses, FoundOpened, OneOpener,
              At, Ends
<1>2. CASE OpcuaSessionCreated(r) /\ Sends(r, r)
  BY <1>2 DEF OpcuaSessionCreated, IInv, TypeOK, OwnStages, Progresses, FoundOpened,
              OneOpener, Sends
<1>3. CASE OpcuaSessionCreated(r) /\ Ends(r, "done")
  BY <1>3 DEF OpcuaSessionCreated, IInv, TypeOK, OwnStages, Progresses, FoundOpened,
              OneOpener, Ends
<1>4. QED
  BY <1>1, <1>2, <1>3 DEF OpcuaSessionCreated, OpcuaSends

(* The continuations of a NetconfClient: the request that opens the router *)
(* is the one the router is named after.                                   *)
LEMMA NetconfOpensStep ==
    ASSUME IInv, NEW r \in Request, NetconfKeyRead(r) \/ NetconfOpened(r)
    PROVE  IInv'
<1> USE SessionAssumption DEF NoSession, Opening
<1>1. kind = "netconf" /\ router.by = r
  BY DEF NetconfKeyRead, NetconfOpened, IInv, OwnStages, OneOpener
<1>2. \A q \in Request \ {r} : stage[q] \notin Opening
  BY <1>1 DEF IInv, OneOpener
<1>3. CASE NetconfKeyRead(r)
  <2>1. TypeOK' /\ OwnStages' /\ Progresses' /\ FoundOpened'
    BY <1>1, <1>3 DEF NetconfKeyRead, IInv, TypeOK, OwnStages, Progresses, FoundOpened, At,
                      opcuaVars
  <2>2. OneOpener'
    BY <1>1, <1>2, <1>3 DEF NetconfKeyRead, IInv, TypeOK, OneOpener, At
  <2>3. QED
    BY <2>1, <2>2 DEF IInv
<1>4. CASE NetconfOpened(r)
  <2>1. TypeOK' /\ OwnStages' /\ Progresses' /\ FoundOpened'
    BY <1>1, <1>4 DEF NetconfOpened, IInv, TypeOK, OwnStages, Progresses, FoundOpened,
                      Sends, opcuaVars
  <2>2. OneOpener'
    BY <1>1, <1>2, <1>4 DEF NetconfOpened, IInv, TypeOK, OneOpener, Sends
  <2>3. QED
    BY <2>1, <2>2 DEF IInv
<1>5. QED
  BY <1>3, <1>4

(* An opening that fails leaves no opener behind: deleteRouter() is called *)
(* by the one request that opens.                                          *)
LEMMA OpenFailsStep ==
    ASSUME IInv, NEW r \in Request, OpenFails(r)
    PROVE  IInv'
<1> USE SessionAssumption DEF NoSession, Opening
<1>1. TypeOK' /\ OwnStages' /\ Progresses' /\ FoundOpened'
  BY DEF OpenFails, DeleteRouter, IInv, TypeOK, OwnStages, Progresses, FoundOpened, Ends,
         opcuaVars
<1>2. kind = "netconf" => \A q \in Request \ {r} : stage[q] \notin Opening
  BY DEF OpenFails, IInv, OneOpener
<1>3. OneOpener'
  BY <1>2 DEF OpenFails, DeleteRouter, IInv, TypeOK, OneOpener, Ends
<1>4. QED
  BY <1>1, <1>3 DEF IInv

(* IInv is inductive.                                                      *)
LEMMA IInvStep == IInv /\ [Next]_vars => IInv'
<1> SUFFICES ASSUME IInv, [Next]_vars PROVE IInv'
  OBVIOUS
<1> USE SessionAssumption DEF NoSession, Opening
<1>1. ASSUME NEW r \in Request, Start(r) PROVE IInv'
  <2>1. kind \in {"opcua", "netconf"}
    BY DEF IInv, TypeOK
  <2>2. QED
    BY <1>1, <2>1, OpcuaStartStep, NetconfStartStep
<1>2. ASSUME NEW r \in Request, Opens(r) PROVE IInv'
  BY <1>2, OpcuaOpensStep, NetconfOpensStep, OpenFailsStep DEF Opens
<1>3. ASSUME NEW r \in Request, Answer(r) PROVE IInv'
  BY <1>3 DEF Answer, IInv, TypeOK, OwnStages, Progresses, FoundOpened, OneOpener, Ends,
              sessionVars, opcuaVars
<1>4. ASSUME NEW r \in Request, Lose(r) PROVE IInv'
  BY <1>4 DEF Lose, IInv, TypeOK, OwnStages, Progresses, FoundOpened, OneOpener, opcuaVars
<1>5. CASE UNCHANGED vars
  BY <1>5 DEF IInv, TypeOK, OwnStages, Progresses, FoundOpened, OneOpener, vars,
              sessionVars, opcuaVars
<1>6. QED
  BY <1>1, <1>2, <1>3, <1>4, <1>5 DEF Next

LEMMA Invariance == Spec => []IInv
<1>1. QED
  BY InitIInv, IInvStep, PTL DEF Spec

(* Both clients keep their types, whatever order requests, answers and     *)
(* lost connections come in.                                               *)
THEOREM TypeCorrect == Spec => []TypeOK
<1>1. IInv => TypeOK
  BY DEF IInv
<1>2. QED
  BY <1>1, Invariance, PTL

(* getRouter(), initializeRouter() and deleteRouter(): exactly one request *)
(* opens the router while it is being opened, and none otherwise.          *)
THEOREM OneOpenerTheorem == Spec => []OneOpener
<1>1. IInv => OneOpener
  BY DEF IInv
<1>2. QED
  BY <1>1, Invariance, PTL

(* What a request of a connected OpcuaClient does is promised: it is sent, *)
(* or it succeeds silently over the session that there is.                 *)
LEMMA OpcuaSendsPromised ==
    ASSUME IInv, NEW r \in Request, NEW s \in Request, OpcuaSends(r, s), kind = "opcua",
           stage[r] \in {"unsent", "creating"}, UNCHANGED kind,
           opened \subseteq opened', s \in opened'
    PROVE  Promised!Next
<1> USE SessionAssumption DEF NoSession, Opening, Promised!Next, Promised!UsedMoves,
                              Promised!OutcomeMoves, Silent
<1>1. outcome[r] = "none" /\ used[r] = NoSession
  BY DEF IInv, Progresses
<1>2. CASE r \in OtherMethod /\ Ends(r, "done")
  <2>1. used' = used /\ outcome' = [outcome EXCEPT ![r] = "done"]
    BY <1>2 DEF Ends
  <2>2. \A q \in Request : Promised!UsedMoves(q)
    BY <2>1
  <2>3. \A q \in Request : Promised!OutcomeMoves(q)
    BY <1>1, <1>2, <2>1 DEF IInv, TypeOK
  <2>4. QED
    BY <2>2, <2>3
<1>3. CASE r \notin OtherMethod /\ Sends(r, s)
  <2>1. outcome' = outcome /\ used' = [used EXCEPT ![r] = s]
    BY <1>3 DEF Sends
  <2>2. \A q \in Request : Promised!UsedMoves(q)
    BY <1>1, <1>3, <2>1 DEF IInv, TypeOK
  <2>3. \A q \in Request : Promised!OutcomeMoves(q)
    BY <2>1
  <2>4. QED
    BY <2>2, <2>3
<1>4. QED
  BY <1>2, <1>3 DEF OpcuaSends

(* Every step of a client is one that OnDemandSession allows its requests. *)
LEMMA StepPromised ==
    ASSUME IInv, [Next]_vars
    PROVE  [Promised!Next]_Promised!vars
<1> USE SessionAssumption DEF NoSession, Opening, Promised!Next, Promised!UsedMoves,
                              Promised!OutcomeMoves, Silent
<1>1. ASSUME NEW r \in Request, OpcuaRequest(r), stage[r] = "unsent", kind = "opcua",
             UNCHANGED kind
      PROVE  Promised!Next
  <2>1. UNCHANGED opened
    BY <1>1 DEF OpcuaRequest
  <2>2. CASE session # NoSession /\ OpcuaSends(r, session)
    <3>1. session \in Request /\ session \in opened'
      BY <2>1, <2>2 DEF IInv, TypeOK, FoundOpened
    <3>2. QED
      BY <1>1, <2>1, <2>2, <3>1, OpcuaSendsPromised
  <2>3. CASE At(r, "connecting")
    BY <1>1, <2>1, <2>3 DEF At
  <2>4. CASE Ends(r, "failed")
    BY <1>1, <2>1, <2>4 DEF Ends, IInv, TypeOK, Progresses
  <2>5. QED
    BY <1>1, <2>2, <2>3, <2>4 DEF OpcuaRequest, OpcuaConnect
<1>2. ASSUME NEW r \in Request, NetconfRequest(r), stage[r] = "unsent", kind = "netconf",
             UNCHANGED kind
      PROVE  Promised!Next
  <2>1. UNCHANGED opened
    BY <1>2 DEF NetconfRequest
  <2>2. \/ At(r, "opening") \/ At(r, "initializing") \/ Ends(r, "failed")
        \/ router.state = "open" /\ Sends(r, router.by)
    BY <1>2 DEF NetconfRequest, NetconfInitialize, NetconfRpc, IInv, TypeOK
  <2>3. QED
    BY <1>2, <2>1, <2>2 DEF At, Ends, Sends, IInv, TypeOK, Progresses, FoundOpened
<1>3. ASSUME NEW r \in Request, Opens(r) PROVE Promised!Next
  <2>1. CASE OpcuaConnected(r)
    BY <2>1 DEF OpcuaConnected, At, Ends, IInv, TypeOK, Progresses
  <2>2. CASE OpcuaSessionCreated(r)
    <3>1. kind = "opcua" /\ stage[r] = "creating" /\ UNCHANGED kind /\ OpcuaSends(r, r)
      BY <2>2 DEF OpcuaSessionCreated, IInv, OwnStages
    <3>2. opened \subseteq opened' /\ r \in opened'
      BY <2>2 DEF OpcuaSessionCreated
    <3>3. QED
      BY <3>1, <3>2, OpcuaSendsPromised
  <2>3. CASE NetconfKeyRead(r)
    BY <2>3 DEF NetconfKeyRead, At
  <2>4. CASE NetconfOpened(r)
    BY <2>4 DEF NetconfOpened, Sends, IInv, TypeOK, Progresses, OwnStages
  <2>5. CASE OpenFails(r)
    BY <2>5 DEF OpenFails, Ends, IInv, TypeOK, Progresses
  <2>6. QED
    BY <1>3, <2>1, <2>2, <2>3, <2>4, <2>5 DEF Opens
<1>4. ASSUME NEW r \in Request, Answer(r) PROVE Promised!Next
  BY <1>4 DEF Answer, Ends, sessionVars, IInv, TypeOK, Progresses
<1>5. ASSUME NEW r \in Request, Lose(r) PROVE Promised!Next
  BY <1>5 DEF Lose
<1>6. CASE UNCHANGED vars
  BY <1>6 DEF vars, sessionVars, Promised!vars
<1>7. QED
  BY <1>1, <1>2, <1>3, <1>4, <1>5, <1>6 DEF Next, Start, IInv, TypeOK

(* readResource(), writeResource() and invokeResource() of both clients:   *)
(* requests are sent over sessions that have been opened, each over one of *)
(* them, and have one outcome, a success only if they were sent; an OPC UA *)
(* invocation with an unknown method is not sent and needs the session.    *)
THEOREM Refinement == Spec => ImplementsOnDemandSession
<1>1. Init => Promised!Init
  BY SessionAssumption DEF Init, Promised!Init, Silent
<1>2. IInv /\ [Next]_vars => [Promised!Next]_Promised!vars
  BY StepPromised
<1>3. QED
  BY <1>1, <1>2, Invariance, PTL
     DEF Spec, ImplementsOnDemandSession, Promised!Spec
=============================================================================
