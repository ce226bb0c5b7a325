---------------------- MODULE ModbusConnectionProofs ----------------------
(***************************************************************************)
(* Proofs about ModbusConnection, for every set of forms and every bound   *)
(* on requests and connection attempts.                                    *)
(***************************************************************************)
EXTENDS ModbusConnection, TLAPS, WellFoundedInduction

----------------------------------------------------------------------------
(* Serialization *)

\* currentTransaction tells the truth about the client: while it is null no
\* call is in flight, and otherwise at most one is.
OneCall ==
    /\ busy \in BOOLEAN
    /\ ~busy => wire = {}
    /\ Serialized

\* trigger() leaves at most one call when it finds at most one, and none when
\* currentTransaction is null.
LEMMA TriggerOneCall ==
    ASSUME NEW open, NEW conn, NEW d, NEW q, NEW b \in BOOLEAN, NEW w,
           ~b => w = {},
           \A t, u \in w : t = u,
           Trigger(open, conn, d, q, b, w)
    PROVE  OneCall'
<1>1. CASE Start(q, b, w) /\ ~b
  BY <1>1 DEF Start, OneCall, Serialized
<1>2. CASE Rest(q, b, w)
  BY <1>2 DEF Rest, OneCall, Serialized
<1>3. QED
  BY <1>1, <1>2 DEF Trigger

LEMMA OneCallStep == OneCall /\ [Next]_vars => OneCall'
<1> SUFFICES ASSUME OneCall, [Next]_vars PROVE OneCall'
  OBVIOUS
<1>1. ASSUME NEW f \in Forms, Request(f) PROVE OneCall'
  BY <1>1, TriggerOneCall DEF Request, OneCall, Serialized
<1>2. ASSUME NEW r \in Attempt, ConnectDone(r) PROVE OneCall'
  BY <1>2, TriggerOneCall DEF ConnectDone, OneCall, Serialized
<1>3. ASSUME NEW r \in Attempt, ConnectFailed(r) PROVE OneCall'
  BY <1>3 DEF ConnectFailed, transVars, OneCall, Serialized
<1>4. ASSUME NEW r \in Attempt, Redial(r) PROVE OneCall'
  BY <1>4 DEF Redial, transVars, OneCall, Serialized
<1>5. ASSUME NEW t \in wire, Finished(t) PROVE OneCall'
  <2>1. wire \ {t} = {}
    BY DEF OneCall, Serialized
  <2>2. QED
    BY <1>5, <2>1, TriggerOneCall DEF Finished
<1>6. ASSUME CloseSocket PROVE OneCall'
  BY <1>6 DEF CloseSocket, OneCall, Serialized
<1>7. ASSUME Closed \/ Disconnect PROVE OneCall'
  BY <1>7 DEF Closed, Disconnect, transVars, OneCall, Serialized
<1>8. CASE UNCHANGED vars
  BY <1>8 DEF vars, transVars, OneCall, Serialized
<1>9. QED
  BY <1>1, <1>2, <1>3, <1>4, <1>5, <1>6, <1>7, <1>8
     DEF Next, Answer, CallFails, IdleTimeout, Stop

LEMMA OneCallInvariant == Spec => []OneCall
<1>1. Init => OneCall
  BY DEF Init, OneCall, Serialized
<1>2. QED
  BY <1>1, OneCallStep, PTL DEF Spec

\* At no time are two transactions inside the client (README "Serialization").
THEOREM SerializedTheorem == Spec => []Serialized
<1>1. OneCall => Serialized
  BY DEF OneCall
<1>2. QED
  BY <1>1, OneCallInvariant, PTL

----------------------------------------------------------------------------
(* Type correctness *)

\* Reversing a sequence permutes its elements.
LEMMA ReverseType ==
    ASSUME NEW S, NEW n \in Nat, NEW s \in [1..n -> S]
    PROVE  SX!Reverse(s) \in [1..n -> S]
<1>1. Len(s) = n /\ s \in Seq(S)
  OBVIOUS
<1>2. \A i \in 1..n : n - i + 1 \in 1..n
  OBVIOUS
<1>3. [i \in 1..n |-> s[n - i + 1]] \in [1..n -> S]
  BY <1>2
<1>4. SX!Reverse(s) = [i \in 1..Len(s) |-> s[Len(s) - i + 1]]
  BY DEF SX!Reverse
<1>5. SX!Reverse(s) = [i \in 1..n |-> s[n - i + 1]]
  BY <1>1, <1>4
<1>6. QED
  BY <1>3, <1>5

\* The values of a request are a sequence, whichever the byte order.
LEMMA ContentType ==
    ASSUME NEW o \in Op, NEW f \in Forms
    PROVE  Content(o, f) \in Seq(Op \X Nat)
<1> DEFINE values == [i \in 1..f.length |-> <<o, f.base + i - 1>>]
<1>1. f.length \in Nat /\ f.base \in Nat
  BY FormsAssumption
<1>2. \A i \in 1..f.length : f.base + i - 1 \in Nat
  BY <1>1
<1>3. values \in [1..f.length -> Op \X Nat]
  BY <1>2
<1> HIDE DEF values
<1>4. SX!Reverse(values) \in [1..f.length -> Op \X Nat]
  BY <1>1, <1>3, ReverseType
<1>5. <<>> \in Seq(Op \X Nat) /\ values \in Seq(Op \X Nat)
  BY <1>1, <1>3
<1>6. SX!Reverse(values) \in Seq(Op \X Nat)
  BY <1>1, <1>4
<1>7. \/ Content(o, f) = <<>>
      \/ Content(o, f) = values
      \/ Content(o, f) = SX!Reverse(values)
  BY DEF Content, values
<1>8. QED
  BY <1>5, <1>6, <1>7

\* A request that writes has as many values as registers.
LEMMA ContentLength ==
    ASSUME NEW o \in Op, NEW f \in Forms
    PROVE  Len(Content(o, f)) = IF f.function = "read" THEN 0 ELSE f.length
<1> DEFINE values == [i \in 1..f.length |-> <<o, f.base + i - 1>>]
<1>1. f.length \in Nat /\ f.base \in Nat
  BY FormsAssumption
<1>2. values \in [1..f.length -> Op \X Nat]
  BY <1>1
<1> HIDE DEF values
<1>3. SX!Reverse(values) \in [1..f.length -> Op \X Nat]
  BY <1>1, <1>2, ReverseType
<1>4. Len(values) = f.length /\ Len(SX!Reverse(values)) = f.length
  BY <1>1, <1>2, <1>3
<1>5. CASE f.function = "read"
  <2>1. Content(o, f) = <<>>
    BY <1>5 DEF Content
  <2>2. QED
    BY <1>5, <2>1
<1>6. CASE f.function # "read"
  <2>1. Content(o, f) = values \/ Content(o, f) = SX!Reverse(values)
    BY <1>6 DEF Content, values
  <2>2. QED
    BY <1>4, <1>6, <2>1
<1>7. QED
  BY <1>5, <1>6

\* The parts of a transaction, and when a record is one.
LEMMA TransactionParts ==
    ASSUME NEW t \in TransactionType
    PROVE  /\ t.base \in Int /\ t.length \in Nat \ {0}
           /\ t.content \in Seq(Op \X Nat)
           /\ t.ops \in SUBSET Op
           /\ t.function = "read" => Len(t.content) = 0
           /\ t.function # "read" => Len(t.content) = t.length
BY DEF TransactionType

LEMMA TransactionIsTyped ==
    ASSUME NEW o \in Op, NEW f \in Forms
    PROVE  Transaction(o, f) \in TransactionType
<1>1. Content(o, f) \in Seq(Op \X Nat)
  BY ContentType
<1>2. Len(Content(o, f)) = IF f.function = "read" THEN 0 ELSE f.length
  BY ContentLength
<1>3. QED
  BY <1>1, <1>2, FormsAssumption DEF Transaction, TransactionType

\* A transaction that a request joins still covers as many registers as it has
\* values.
LEMMA JoinIsTyped ==
    ASSUME NEW t \in TransactionType, NEW o \in Op, NEW f \in Forms, Joins(f, t)
    PROVE  /\ Join(t, o, f) \in TransactionType
           /\ Join(t, o, f).ops = t.ops \cup {o}
<1>1. f.length \in Nat \ {0} /\ f.base \in Int
  BY FormsAssumption
<1>2. t.length + f.length \in Nat \ {0}
  BY <1>1, TransactionParts
<1>3. Content(o, f) \in Seq(Op \X Nat) /\ t.content \in Seq(Op \X Nat)
  BY ContentType, TransactionParts
<1>4. /\ t.content \o Content(o, f) \in Seq(Op \X Nat)
      /\ Content(o, f) \o t.content \in Seq(Op \X Nat)
      /\ Len(t.content \o Content(o, f)) = Len(t.content) + Len(Content(o, f))
      /\ Len(Content(o, f) \o t.content) = Len(t.content) + Len(Content(o, f))
  BY <1>3
<1>5. t.ops \cup {o} \in SUBSET Op
  BY TransactionParts
<1>6. (f.function = "read") <=> (t.function = "read")
  BY DEF Joins, Appends, Prepends, SameType
<1>7. Len(t.content) + Len(Content(o, f)) =
        IF t.function = "read" THEN 0 ELSE t.length + f.length
  <2>1. CASE t.function = "read"
    <3>1. Len(t.content) = 0
      BY <2>1, TransactionParts
    <3>2. Len(Content(o, f)) = 0
      BY <1>6, <2>1, ContentLength
    <3>3. QED
      BY <2>1, <3>1, <3>2
  <2>2. CASE t.function # "read"
    <3>1. Len(t.content) = t.length
      BY <2>2, TransactionParts
    <3>2. Len(Content(o, f)) = f.length
      BY <1>6, <2>2, ContentLength
    <3>3. QED
      BY <2>2, <3>1, <3>2
  <2>3. QED
    BY <2>1, <2>2
<1> DEFINE u == Join(t, o, f)
<1>8. /\ u.unit = t.unit /\ u.entity = t.entity /\ u.function = t.function
      /\ u.little = t.little /\ u.ops = t.ops \cup {o}
      /\ u.length = t.length + f.length
      /\ u.base \in {t.base, f.base}
      /\ u.content \in {t.content \o Content(o, f), Content(o, f) \o t.content}
  BY DEF Join, TransactionType
<1>9. t \in [unit : {g.unit : g \in Forms}, entity : Entity, function : Function,
             little : BOOLEAN, base : Int, length : Nat \ {0},
             content : Seq(Op \X Nat), ops : SUBSET Op]
  BY DEF TransactionType
<1>10. u \in [unit : {g.unit : g \in Forms}, entity : Entity, function : Function,
              little : BOOLEAN, base : Int, length : Nat \ {0},
              content : Seq(Op \X Nat), ops : SUBSET Op]
  BY <1>1, <1>2, <1>4, <1>5, <1>9 DEF Join
<1>11. Len(u.content) = IF u.function = "read" THEN 0 ELSE u.length
  BY <1>4, <1>7, <1>8
<1> HIDE DEF u
<1>12. u \in TransactionType
  BY <1>10, <1>11 DEF TransactionType
<1>13. QED
  BY <1>8, <1>12 DEF u

OpsOf(q) == UNION {q[i].ops : i \in DOMAIN q}

LEMMA OpsOfQueue == QueuedOps = OpsOf(queue)
BY DEF QueuedOps, OpsOf

\* enqueue() keeps the queue well typed and adds exactly the new operation.
LEMMA EnqueuedIsTyped ==
    ASSUME queue \in Seq(TransactionType), NEW o \in Op, NEW f \in Forms,
           NEW q \in Enqueued(o, f)
    PROVE  /\ q \in Seq(TransactionType)
           /\ OpsOf(q) = QueuedOps \cup {o}
<1>1. CASE q = Append(queue, Transaction(o, f))
  <2>1. Transaction(o, f) \in TransactionType /\ Transaction(o, f).ops = {o}
    BY TransactionIsTyped DEF Transaction
  <2>2. q \in Seq(TransactionType) /\ Len(q) = Len(queue) + 1
    BY <1>1, <2>1
  <2>3. /\ DOMAIN q = 1..(Len(queue) + 1)
        /\ DOMAIN queue = 1..Len(queue)
        /\ \A i \in 1..Len(queue) : q[i] = queue[i]
        /\ q[Len(queue) + 1] = Transaction(o, f)
    BY <1>1, <2>1, <2>2
  <2>4. OpsOf(q) = QueuedOps \cup {o}
    BY <2>1, <2>3 DEF QueuedOps, OpsOf
  <2>5. QED
    BY <2>2, <2>4
<1>2. CASE q \in {[queue EXCEPT ![i] = Join(@, o, f)] : i \in FirstJoinable(f)}
  <2>1. PICK k \in DOMAIN queue : /\ q = [queue EXCEPT ![k] = Join(queue[k], o, f)]
                                  /\ Joins(f, queue[k])
    BY <1>2 DEF FirstJoinable
  <2>2. /\ queue[k] \in TransactionType
        /\ Join(queue[k], o, f) \in TransactionType
        /\ Join(queue[k], o, f).ops = queue[k].ops \cup {o}
    BY <2>1, JoinIsTyped
  <2>3. q \in Seq(TransactionType)
    BY <2>1, <2>2
  <2>4. /\ DOMAIN q = DOMAIN queue
        /\ q[k].ops = queue[k].ops \cup {o}
        /\ \A i \in DOMAIN queue : i # k => q[i] = queue[i]
    BY <2>1, <2>2
  <2>5. OpsOf(q) = QueuedOps \cup {o}
    BY <2>4 DEF QueuedOps, OpsOf
  <2>6. QED
    BY <2>3, <2>5
<1>3. QED
  BY <1>1, <1>2 DEF Enqueued

\* Variables a connect loop counts with.
LEMMA DialIsTyped ==
    ASSUME NEW d \in [Attempt -> Nat]
    PROVE  /\ Dial(d) \in [Attempt -> Nat]
           /\ Dial(d)[0] > 0
<1>1. 0 \in Attempt
  BY BoundsAssumption DEF Attempt
<1>2. QED
  BY <1>1 DEF Dial

LEMMA CountUp ==
    ASSUME NEW d \in [Attempt -> Nat], NEW r
    PROVE  [d EXCEPT ![r] = @ + 1] \in [Attempt -> Nat]
<1>1. CASE r \in Attempt
  BY <1>1
<1>2. CASE r \notin Attempt
  BY <1>2
<1>3. QED
  BY <1>1, <1>2

LEMMA CountDown ==
    ASSUME NEW d \in [Attempt -> Nat], NEW r \in Attempt, d[r] > 0
    PROVE  [d EXCEPT ![r] = @ - 1] \in [Attempt -> Nat]
<1>1. d[r] - 1 \in Nat
  OBVIOUS
<1>2. QED
  BY <1>1

\* The variables trigger() assigns keep their types.
TriggerTyped ==
    /\ connecting \in BOOLEAN /\ timer \in BOOLEAN /\ busy \in BOOLEAN
    /\ dialing \in [Attempt -> Nat]
    /\ queue \in Seq(TransactionType)
    /\ wire \subseteq TransactionType

LEMMA TriggerIsTyped ==
    ASSUME NEW open, NEW conn \in BOOLEAN, NEW d \in [Attempt -> Nat],
           NEW q \in Seq(TransactionType), NEW b \in BOOLEAN,
           NEW w \in SUBSET TransactionType, timer \in BOOLEAN,
           Trigger(open, conn, d, q, b, w)
    PROVE  TriggerTyped'
<1>1. CASE /\ connecting' = TRUE /\ dialing' = Dial(d)
           /\ Rest(q, b, w)
  BY <1>1, DialIsTyped DEF Rest, TriggerTyped
<1>2. CASE /\ q # <<>> /\ connecting' = conn /\ dialing' = d
           /\ Start(q, b, w)
  <2>1. Head(q) \in TransactionType /\ Tail(q) \in Seq(TransactionType)
    BY <1>2
  <2>2. QED
    BY <1>2, <2>1 DEF Start, TriggerTyped
<1>3. CASE /\ connecting' = conn /\ dialing' = d /\ Rest(q, b, w)
  BY <1>3 DEF Rest, TriggerTyped
<1>4. QED
  BY <1>1, <1>2, <1>3 DEF Trigger

LEMMA SettleIsTyped ==
    ASSUME status \in [Op -> Status], NEW os, NEW outcome \in Status
    PROVE  Settle(os, outcome) \in [Op -> Status]
BY DEF Settle

\* What a reply tells of and what a write puts on the device.
LEMMA WrittenIsTyped ==
    ASSUME form \in [Op -> Forms], NEW t \in TransactionType
    PROVE  Written(t) \subseteq Op \X Nat
<1>1. \A o \in t.ops : form[o] \in Forms
  BY DEF TransactionType
<1>2. \A o \in t.ops : Registers(form[o]) \subseteq Nat
  BY <1>1, FormsAssumption DEF Registers
<1>3. QED
  BY <1>2 DEF Written

LEMMA ExtractedIsTyped ==
    ASSUME form \in [Op -> Forms], NEW t \in TransactionType, NEW o \in t.ops
    PROVE  Extracted(o, t) \subseteq Int
<1>1. o \in Op /\ form[o] \in Forms /\ t.base \in Int /\ t.length \in Nat
  BY DEF TransactionType
<1>2. CASE t.entity = "Coil"
  <2>1. \A k \in Int : CoilReply(t, k) \subseteq Int
    BY <1>1 DEF CoilReply, CoilByte, Registers
  <2>2. CoilBytes(t) \in Int
    BY <1>1 DEF CoilBytes
  <2>3. QED
    BY <1>2, <2>1, <2>2 DEF Extracted
<1>3. CASE t.entity # "Coil"
  <2> DEFINE reply == [i \in 1..t.length |-> t.base + i - 1]
  <2>1. reply \in [1..t.length -> Int]
    BY <1>1
  <2> HIDE DEF reply
  <2>2. SX!Reverse(reply) \in [1..t.length -> Int]
    BY <1>1, <2>1, ReverseType
  <2>3. RegisterReply(t) \in {reply, SX!Reverse(reply)}
    BY DEF RegisterReply, reply
  <2>4. \A i \in DOMAIN RegisterReply(t) : RegisterReply(t)[i] \in Int
    BY <2>1, <2>2, <2>3
  <2>5. QED
    BY <1>3, <2>4 DEF Extracted
<1>4. QED
  BY <1>2, <1>3

LEMMA TypeOKInvariant == TypeOK /\ [Next]_vars => TypeOK'
<1> SUFFICES ASSUME TypeOK, [Next]_vars PROVE TypeOK'
  OBVIOUS
<1> USE DEF TypeOK
<1> DEFINE Untouched == /\ isOpen' \in BOOLEAN /\ closing' \in BOOLEAN
                        /\ backoff' \in [Attempt -> Nat]
           Requests  == /\ issued' \in 0..MaxOps /\ form' \in [Op -> Forms]
                        /\ status' \in [Op -> Status]
           Device    == got' \in [Op -> SUBSET Int] /\ landed' \subseteq Op \X Nat
<1>1. ASSUME NEW f \in Forms, Request(f) PROVE TypeOK'
  <2>1. issued + 1 \in Op
    BY <1>1, BoundsAssumption DEF Request, Op
  <2>2. Requests
    BY <1>1, <2>1, BoundsAssumption DEF Request, Op, Status
  <2>3. \A q \in Enqueued(issued + 1, f) : q \in Seq(TransactionType)
    BY <2>1, EnqueuedIsTyped
  <2>4. TriggerTyped'
    BY <1>1, <2>3, TriggerIsTyped DEF Request
  <2>5. QED
    BY <1>1, <2>2, <2>4 DEF Request, deviceVars, TriggerTyped
<1>2. ASSUME NEW r \in Attempt, ConnectDone(r) PROVE TypeOK'
  <2>1. [dialing EXCEPT ![r] = @ - 1] \in [Attempt -> Nat]
    BY <1>2, CountDown DEF ConnectDone
  <2>2. Trigger(TRUE, FALSE, [dialing EXCEPT ![r] = @ - 1], queue, busy, wire)
    BY <1>2 DEF ConnectDone
  <2> HIDE DEF TypeOK
  <2>3. TriggerTyped'
    <3>1. timer \in BOOLEAN /\ busy \in BOOLEAN /\ queue \in Seq(TransactionType)
          /\ wire \in SUBSET TransactionType
      BY DEF TypeOK
    <3>2. QED
      BY <2>1, <2>2, <3>1, TriggerIsTyped
  <2>4. QED
    BY <1>2, <2>3 DEF ConnectDone, requestVars, deviceVars, TriggerTyped, TypeOK
<1>3. ASSUME NEW r \in Attempt, ConnectFailed(r) PROVE TypeOK'
  <2>1. dialing' \in [Attempt -> Nat]
    BY <1>3, CountDown DEF ConnectFailed
  <2>2. backoff' \in [Attempt -> Nat] /\ status' \in [Op -> Status]
    <3>1. CASE RetryLater(r)
      BY <3>1, CountUp DEF RetryLater
    <3>2. CASE GiveUp(r)
      <4>1. "failed" \in Status
        BY DEF Status
      <4>2. QED
        BY <3>2, <4>1, SettleIsTyped DEF GiveUp
    <3>3. QED
      BY <1>3, <3>1, <3>2 DEF ConnectFailed
  <2>3. QED
    BY <1>3, <2>1, <2>2 DEF ConnectFailed, transVars, deviceVars
<1>4. ASSUME NEW r \in Attempt, Redial(r) PROVE TypeOK'
  <2>1. backoff' \in [Attempt -> Nat] /\ dialing' \in [Attempt -> Nat]
    BY <1>4, CountUp, CountDown DEF Redial
  <2>2. QED
    BY <1>4, <2>1 DEF Redial, socketVars, transVars, requestVars, deviceVars
<1>5. ASSUME NEW t \in wire, Answer(t) \/ CallFails(t) PROVE TypeOK'
  <2>1. TriggerTyped'
    <3>1. Trigger(isOpen, connecting, dialing, queue, FALSE, wire \ {t})
      BY <1>5 DEF Answer, CallFails, Finished
    <3>2. wire \ {t} \in SUBSET TransactionType
      OBVIOUS
    <3>3. QED
      BY <3>1, <3>2, TriggerIsTyped
  <2>2. Requests
    BY <1>5, SettleIsTyped DEF Answer, CallFails, Finished, Status
  <2>3. landed' \subseteq Op \X Nat
    BY <1>5, WrittenIsTyped DEF Answer, CallFails
  <2>4. \A o \in t.ops : Extracted(o, t) \in SUBSET Int
    BY ExtractedIsTyped
  <2>5. got' \in [Op -> SUBSET Int]
    BY <1>5, <2>4 DEF Answer, CallFails
  <2>6. Untouched
    BY <1>5 DEF Answer, CallFails, Finished
  <2>7. QED
    BY <2>1, <2>2, <2>3, <2>5, <2>6 DEF TriggerTyped
<1>6. ASSUME CloseSocket \/ Closed \/ Disconnect PROVE TypeOK'
  BY <1>6 DEF CloseSocket, Closed, Disconnect, dialVars, transVars, requestVars, deviceVars
<1>7. CASE UNCHANGED vars
  BY <1>7 DEF vars, socketVars, dialVars, transVars, requestVars, deviceVars
<1>8. QED
  BY <1>1, <1>2, <1>3, <1>4, <1>5, <1>6, <1>7 DEF Next, IdleTimeout, Stop

LEMMA TypeOKInit == Forms # {} /\ Init => TypeOK
<1>1. Forms # {} => (CHOOSE f \in Forms : TRUE) \in Forms
  OBVIOUS
<1>2. ASSUME Init, Forms # {}
      PROVE  /\ dialing \in [Attempt -> Nat] /\ backoff \in [Attempt -> Nat]
             /\ form \in [Op -> Forms] /\ status \in [Op -> Status]
  BY <1>1, <1>2 DEF Init, Status
<1>3. ASSUME Init
      PROVE  /\ queue \in Seq(TransactionType) /\ wire \subseteq TransactionType
             /\ issued \in 0..MaxOps
             /\ got \in [Op -> SUBSET Int] /\ landed \subseteq Op \X Nat
  BY <1>3, BoundsAssumption DEF Init
<1>4. QED
  BY <1>2, <1>3 DEF Init, TypeOK

\* Every variable of the connection keeps its type, for any forms and bounds
\* as long as there is a form at all.
THEOREM TypeCorrect == Forms # {} => (Spec => []TypeOK)
<1> SUFFICES ASSUME Forms # {} PROVE Spec => []TypeOK
  OBVIOUS
<1>1. Init => TypeOK
  BY TypeOKInit
<1>2. QED
  BY <1>1, TypeOKInvariant, PTL DEF Spec

----------------------------------------------------------------------------
(* No request is forgotten *)

Calling(o, w) == \E t \in w : o \in t.ops
Held(o) == Calling(o, wire) \/ (o \in OpsOf(queue) /\ (busy \/ Dialling))

\* What makes NoStranded inductive: the flag "connecting" is never left set by a
\* loop that has ended, the last attempt is never slept on, and at most one call
\* is in flight, so that its end leaves nothing else on the wire.
Connects(d) == \E r \in Attempt : d[r] > 0
FlagHonest  == connecting => Connects(dialing)
LastAttempt == \A r \in Attempt : backoff[r] > 0 => r < maxRetries - 1
AllHeld     == \A o \in Op : status[o] = "pending" => Held(o)

Progress == TypeOK /\ OneCall /\ FlagHonest /\ LastAttempt /\ AllHeld

LEMMA ConnectsDials == Connects(dialing) => Dialling
BY DEF Connects, Dialling

\* trigger() holds on to every request it finds queued or in flight.
LEMMA TriggerHolds ==
    ASSUME NEW open, NEW conn, NEW d, NEW q, NEW b, NEW w,
           Trigger(open, conn, d, q, b, w),
           conn \in BOOLEAN, d \in [Attempt -> Nat],
           q \in Seq(TransactionType), b \in BOOLEAN,
           conn => Connects(d)
    PROVE  /\ FlagHonest'
           /\ w \subseteq wire'
           /\ \A o : o \in OpsOf(q) => Held(o)'
<1>1. CASE ~conn /\ connecting' = TRUE /\ dialing' = Dial(d) /\ Rest(q, b, w)
  <2>1. 0 \in Attempt /\ Dial(d)[0] > 0
    BY BoundsAssumption, DialIsTyped DEF Attempt
  <2>2. Connects(dialing)'
    BY <1>1, <2>1 DEF Connects
  <2>3. queue' = q /\ wire' = w
    BY <1>1 DEF Rest
  <2>4. Dialling'
    BY <2>2 DEF Connects, Dialling
  <2>5. QED
    BY <2>2, <2>3, <2>4 DEF Held, FlagHonest
<1>2. CASE /\ q # <<>> /\ connecting' = conn /\ dialing' = d
           /\ Start(q, b, w)
  <2>1. /\ queue' = Tail(q) /\ busy' = TRUE /\ wire' = w \cup {Head(q)}
    BY <1>2 DEF Start
  <2>2. ASSUME NEW i \in DOMAIN q
        PROVE  q[i] = Head(q) \/ \E j \in DOMAIN Tail(q) : q[i] = Tail(q)[j]
    <3>1. i \in 1..Len(q) /\ Len(Tail(q)) = Len(q) - 1 /\ Tail(q) \in Seq(TransactionType)
      BY <1>2
    <3>2. CASE i = 1
      BY <3>2
    <3>3. CASE i # 1
      <4>1. i - 1 \in 1..(Len(q) - 1)
        BY <3>1, <3>3
      <4>2. Tail(q)[i - 1] = q[i]
        BY <1>2, <4>1
      <4>3. i - 1 \in DOMAIN Tail(q)
        BY <3>1, <4>1
      <4>4. QED
        BY <4>2, <4>3
    <3>4. QED
      BY <3>2, <3>3
  <2>3. \A o : o \in OpsOf(q) => o \in Head(q).ops \/ o \in OpsOf(Tail(q))
    BY <2>2 DEF OpsOf
  <2>4. w \subseteq wire' /\ \A o : o \in OpsOf(q) => Held(o)'
    BY <2>1, <2>3 DEF Held, Calling
  <2>5. FlagHonest'
    BY <1>2 DEF FlagHonest, Connects
  <2>6. QED
    BY <2>4, <2>5
<1>3. CASE /\ IF open THEN b \/ q = <<>> ELSE conn
           /\ connecting' = conn /\ dialing' = d /\ Rest(q, b, w)
  <2>1. queue' = q /\ wire' = w /\ busy' = b
    BY <1>3 DEF Rest
  <2>2. FlagHonest'
    BY <1>3 DEF FlagHonest, Connects
  <2>3. CASE q = <<>>
    <3>1. OpsOf(q) = {}
      BY <2>3 DEF OpsOf
    <3>2. QED
      BY <2>1, <2>2, <3>1 DEF Held
  <2>4. CASE b
    BY <2>1, <2>2, <2>4 DEF Held
  <2>5. CASE conn
    <3>1. Dialling'
      BY <1>3, <2>5 DEF Connects, Dialling
    <3>2. QED
      BY <2>1, <2>2, <3>1 DEF Held
  <2>6. QED
    BY <1>3, <2>3, <2>4, <2>5
<1>4. QED
  BY <1>1, <1>2, <1>3 DEF Trigger

\* Steps that touch neither the transactions nor the connect loops.
LEMMA QuietHolds ==
    ASSUME UNCHANGED <<queue, wire, busy, dialing, backoff>>, NEW o, Held(o)
    PROVE  Held(o)'
BY DEF Held, Calling, OpsOf, Dialling

LEMMA ProgressStep == Progress /\ [Next]_vars => Progress'
<1> SUFFICES ASSUME Progress, [Next]_vars PROVE Progress'
  OBVIOUS
<1> DEFINE Good == FlagHonest /\ LastAttempt /\ AllHeld
<1>0. TypeOK' /\ OneCall'
  BY TypeOKInvariant, OneCallStep DEF Progress
<1>a. TypeOK /\ OneCall /\ FlagHonest /\ LastAttempt /\ AllHeld
  BY DEF Progress
<1>b. /\ connecting \in BOOLEAN /\ busy \in BOOLEAN
      /\ dialing \in [Attempt -> Nat] /\ backoff \in [Attempt -> Nat]
      /\ queue \in Seq(TransactionType)
      /\ issued \in 0..MaxOps /\ status \in [Op -> Status]
  BY <1>a DEF TypeOK
<1>c. connecting => Connects(dialing)
  BY <1>a DEF FlagHonest
<1>1. ASSUME NEW f \in Forms, Request(f) PROVE Good'
  <2> DEFINE new == issued + 1
  <2>1. new \in Op
    BY <1>1, <1>b, BoundsAssumption DEF Request, Op
  <2>2. PICK q \in Enqueued(new, f) : Trigger(isOpen, connecting, dialing, q, busy, wire)
    BY <1>1 DEF Request
  <2>3. \A o \in Op : status'[o] = "pending" => o = new \/ status[o] = "pending"
    BY <1>1, <1>b DEF Request
  <2>4. UNCHANGED backoff
    BY <1>1 DEF Request
  <2> HIDE DEF new
  <2>5. q \in Seq(TransactionType) /\ OpsOf(q) = QueuedOps \cup {new}
    BY <1>b, <2>1, <2>2, EnqueuedIsTyped
  <2>6. FlagHonest' /\ wire \subseteq wire' /\ \A o : o \in OpsOf(q) => Held(o)'
    BY <1>b, <1>c, <2>2, <2>5, TriggerHolds
  <2>7. AllHeld'
    <3>1. ASSUME NEW o \in Op, status'[o] = "pending" PROVE Held(o)'
      <4>1. o \in OpsOf(q) \/ Calling(o, wire)
        BY <1>a, <2>3, <2>5, <3>1, OpsOfQueue DEF AllHeld, Held
      <4>2. CASE Calling(o, wire)
        BY <2>6, <4>2 DEF Held, Calling
      <4>3. QED
        BY <2>6, <4>1, <4>2
    <3>2. QED
      BY <3>1 DEF AllHeld
  <2>8. LastAttempt'
    BY <1>a, <2>4 DEF LastAttempt
  <2>9. QED
    BY <2>6, <2>7, <2>8
<1>2. ASSUME NEW r \in Attempt, ConnectDone(r) PROVE Good'
  <2> DEFINE d == [dialing EXCEPT ![r] = @ - 1]
  <2>1. d \in [Attempt -> Nat]
    BY <1>2, <1>b, CountDown DEF ConnectDone
  <2>2. Trigger(TRUE, FALSE, d, queue, busy, wire)
    BY <1>2 DEF ConnectDone
  <2>3. UNCHANGED <<status, backoff>>
    BY <1>2 DEF ConnectDone, requestVars
  <2> HIDE DEF d
  <2>4. FlagHonest' /\ wire \subseteq wire' /\ \A o : o \in OpsOf(queue) => Held(o)'
    BY <1>b, <2>1, <2>2, TriggerHolds
  <2>5. AllHeld'
    <3>1. ASSUME NEW o \in Op, status'[o] = "pending" PROVE Held(o)'
      <4>1. o \in OpsOf(queue) \/ Calling(o, wire)
        BY <1>a, <2>3, <3>1 DEF AllHeld, Held
      <4>2. CASE Calling(o, wire)
        BY <2>4, <4>2 DEF Held, Calling
      <4>3. QED
        BY <2>4, <4>1, <4>2
    <3>2. QED
      BY <3>1 DEF AllHeld
  <2>6. LastAttempt'
    BY <1>a, <2>3 DEF LastAttempt
  <2>7. QED
    BY <2>4, <2>5, <2>6
<1>3. ASSUME NEW r \in Attempt, ConnectFailed(r) PROVE Good'
  <2>1. FlagHonest'
    BY <1>3 DEF ConnectFailed, FlagHonest
  <2>2. UNCHANGED <<queue, wire, busy>>
    BY <1>3 DEF ConnectFailed, transVars
  <2>3. CASE RetryLater(r)
    <3>1. backoff'[r] > 0 /\ UNCHANGED status
      BY <1>b, <2>3 DEF RetryLater
    <3>2. Dialling'
      BY <3>1 DEF Dialling
    <3>3. LastAttempt'
      BY <1>a, <1>b, <2>3 DEF RetryLater, LastAttempt
    <3>4. AllHeld'
      BY <1>a, <2>2, <3>1, <3>2 DEF AllHeld, Held, Calling, OpsOf
    <3>5. QED
      BY <2>1, <3>3, <3>4
  <2>4. CASE GiveUp(r)
    <3>1. ASSUME NEW o \in Op, status'[o] = "pending"
          PROVE  status[o] = "pending" /\ o \notin OpsOf(queue)
      BY <2>4, <3>1, OpsOfQueue DEF GiveUp, Settle
    <3>2. ASSUME NEW o \in Op, status'[o] = "pending" PROVE Held(o)'
      <4>1. Calling(o, wire)
        BY <1>a, <3>1, <3>2 DEF AllHeld, Held
      <4>2. Calling(o, wire)'
        BY <2>2, <4>1 DEF Calling
      <4>3. QED
        BY <4>2 DEF Held
    <3>3. LastAttempt'
      BY <1>a, <2>4 DEF GiveUp, LastAttempt
    <3>4. QED
      BY <2>1, <3>2, <3>3 DEF AllHeld
  <2>5. QED
    BY <1>3, <2>3, <2>4 DEF ConnectFailed
<1>4. ASSUME NEW r \in Attempt, Redial(r) PROVE Good'
  <2>1. r + 1 \in Attempt
    BY <1>4, <1>a, BoundsAssumption DEF Redial, LastAttempt, Attempt
  <2>2. dialing'[r + 1] > 0
    BY <1>4, <1>b, <2>1 DEF Redial
  <2>3. Connects(dialing') /\ Dialling'
    BY <2>1, <2>2 DEF Dialling, Connects
  <2>4. LastAttempt'
    BY <1>4, <1>a, <1>b DEF Redial, LastAttempt
  <2>5. UNCHANGED <<queue, wire, busy, status>>
    BY <1>4 DEF Redial, transVars, requestVars
  <2>6. FlagHonest'
    BY <2>3 DEF FlagHonest
  <2>7. AllHeld'
    BY <1>a, <2>3, <2>5 DEF AllHeld, Held, Calling, OpsOf
  <2>8. QED
    BY <2>4, <2>6, <2>7
<1>5. ASSUME NEW t \in wire, Answer(t) \/ CallFails(t) PROVE Good'
  <2>1. wire \ {t} = {}
    BY <1>a DEF OneCall, Serialized
  <2>2. Trigger(isOpen, connecting, dialing, queue, FALSE, {}) /\ UNCHANGED backoff
    BY <1>5, <2>1 DEF Answer, CallFails, Finished
  <2>3. FlagHonest' /\ \A o : o \in OpsOf(queue) => Held(o)'
    BY <1>b, <1>c, <2>2, TriggerHolds
  <2>4. ASSUME NEW o \in Op, status'[o] = "pending"
        PROVE  status[o] = "pending" /\ o \notin t.ops
    BY <1>5, <2>4 DEF Answer, CallFails, Settle
  <2>5. ASSUME NEW o \in Op, status'[o] = "pending" PROVE o \in OpsOf(queue)
    BY <1>a, <2>1, <2>4, <2>5 DEF AllHeld, Held, Calling
  <2>6. AllHeld'
    BY <2>3, <2>5 DEF AllHeld
  <2>7. LastAttempt'
    BY <1>a, <2>2 DEF LastAttempt
  <2>8. QED
    BY <2>3, <2>6, <2>7
<1>6. ASSUME CloseSocket \/ Closed \/ Disconnect \/ UNCHANGED vars PROVE Good'
  <2>1. /\ UNCHANGED <<queue, wire, busy, dialing, backoff, status>>
        /\ connecting' => connecting
    BY <1>6, <1>b DEF CloseSocket, Closed, Disconnect, vars, socketVars,
                      dialVars, transVars, requestVars
  <2>2. FlagHonest'
    BY <1>a, <2>1 DEF FlagHonest, Connects
  <2>3. LastAttempt'
    BY <1>a, <2>1 DEF LastAttempt
  <2>4. AllHeld'
    BY <1>a, <2>1, QuietHolds DEF AllHeld
  <2>5. QED
    BY <2>2, <2>3, <2>4
<1> HIDE DEF Good
<1>7. Good'
  BY <1>1, <1>2, <1>3, <1>4, <1>5, <1>6 DEF Next, IdleTimeout, Stop
<1>8. QED
  BY <1>0, <1>7 DEF Progress, Good

\* A request without an outcome is in flight, or queued while something that
\* will trigger the connection again is running.
THEOREM NoStrandedTheorem == Forms # {} => (Spec => []NoStranded)
<1>1. ASSUME Forms # {} PROVE Init => Progress
  <2>1. Init => TypeOK /\ OneCall
    BY <1>1, TypeOKInit DEF Init, OneCall, Serialized
  <2>2. QED
    BY <2>1 DEF Init, Progress, FlagHonest, LastAttempt, AllHeld
<1>2. Progress => NoStranded
  BY OpsOfQueue DEF Progress, NoStranded, AllHeld, Held, Calling
<1>3. SUFFICES ASSUME Forms # {} PROVE Spec => []NoStranded
  OBVIOUS
<1>4. QED
  BY <1>1, <1>2, <1>3, ProgressStep, PTL DEF Spec

----------------------------------------------------------------------------
(* First come, first served *)

\* The waiting transactions are sorted by their oldest request, and none holds
\* a request that has not been made yet.
Sorted(q, n) ==
    /\ \A i \in DOMAIN q : q[i].ops # {} /\ q[i].ops \subseteq 1..n
    /\ \A i, j \in DOMAIN q : i < j => Oldest(q[i]) < Oldest(q[j])

\* A set of naturals that is not empty has a least element.
LEMMA LeastNatural ==
    ASSUME NEW S \in SUBSET Nat, S # {}
    PROVE  \E m \in S : \A x \in S : m <= x
<1>1. IsWellFoundedOn(OpToRel(<, Nat), Nat)
  BY NatLessThanWellFounded
<1>2. PICK m \in S : \A y \in S : ~(<<y, m>> \in OpToRel(<, Nat))
  BY <1>1, WFMin
<1>3. \A y \in S : ~(y < m)
  BY <1>2 DEF OpToRel
<1>4. QED
  BY <1>3

LEMMA OldestIsLeast ==
    ASSUME NEW t, NEW n \in Nat, t.ops # {}, t.ops \subseteq 1..n
    PROVE  Oldest(t) \in t.ops /\ \A p \in t.ops : Oldest(t) <= p
<1>1. \E o \in t.ops : \A p \in t.ops : o <= p
  BY LeastNatural
<1>2. QED
  BY <1>1 DEF Oldest

\* Joining a transaction does not make it older: a new request is the youngest.
LEMMA JoinKeepsOldest ==
    ASSUME NEW t, NEW u, NEW n \in Nat, t.ops # {}, t.ops \subseteq 1..n,
           u.ops = t.ops \cup {n + 1}
    PROVE  Oldest(u) = Oldest(t)
<1>1. Oldest(t) \in t.ops /\ \A p \in t.ops : Oldest(t) <= p
  BY OldestIsLeast
<1>2. u.ops # {} /\ u.ops \subseteq 1..(n + 1)
  OBVIOUS
<1>3. Oldest(u) \in u.ops /\ \A p \in u.ops : Oldest(u) <= p
  BY <1>2, OldestIsLeast
<1>4. Oldest(t) \in 1..n /\ Oldest(u) \in 1..(n + 1)
  BY <1>1, <1>2, <1>3
<1>5. Oldest(u) <= Oldest(t)
  BY <1>1, <1>3
<1>6. Oldest(u) \in t.ops
  BY <1>3, <1>4, <1>5
<1>7. Oldest(t) <= Oldest(u)
  BY <1>1, <1>6
<1>8. QED
  BY <1>4, <1>5, <1>7

\* enqueue() keeps the queue sorted.
LEMMA EnqueuedIsSorted ==
    ASSUME queue \in Seq(TransactionType), NEW n \in Nat, n + 1 \in Op,
           Sorted(queue, n), NEW f \in Forms, NEW q \in Enqueued(n + 1, f)
    PROVE  Sorted(q, n + 1)
<1>0. \A i \in DOMAIN queue : /\ queue[i].ops # {} /\ queue[i].ops \subseteq 1..n
                              /\ Oldest(queue[i]) \in 1..n
  BY OldestIsLeast DEF Sorted
<1>1. CASE q = Append(queue, Transaction(n + 1, f))
  <2> DEFINE new == Transaction(n + 1, f)
  <2>1. new \in TransactionType /\ new.ops = {n + 1}
    BY TransactionIsTyped DEF Transaction
  <2>2. Oldest(new) = n + 1
    <3>1. new.ops # {} /\ new.ops \subseteq 1..(n + 1) /\ n + 1 \in Nat
      BY <2>1
    <3>2. Oldest(new) \in new.ops
      BY <3>1, OldestIsLeast
    <3>3. QED
      BY <2>1, <3>2
  <2> HIDE DEF new
  <2>3. /\ DOMAIN q = 1..(Len(queue) + 1)
        /\ DOMAIN queue = 1..Len(queue)
        /\ \A i \in 1..Len(queue) : q[i] = queue[i]
        /\ q[Len(queue) + 1] = new
    BY <1>1, <2>1 DEF new
  <2>4. ASSUME NEW i \in DOMAIN q
        PROVE  q[i].ops # {} /\ q[i].ops \subseteq 1..(n + 1)
    <3>1. CASE i \in DOMAIN queue
      <4>1. q[i] = queue[i]
        BY <2>3, <3>1
      <4>2. queue[i].ops # {} /\ queue[i].ops \subseteq 1..n
        BY <1>0, <3>1
      <4>3. QED
        BY <4>1, <4>2
    <3>2. CASE i = Len(queue) + 1
      <4>1. q[i].ops = {n + 1}
        BY <2>1, <2>3, <3>2
      <4>2. n + 1 \in 1..(n + 1)
        OBVIOUS
      <4>3. QED
        BY <4>1, <4>2
    <3>3. QED
      BY <2>3, <3>1, <3>2
  <2>5. ASSUME NEW i \in DOMAIN q, NEW j \in DOMAIN q, i < j
        PROVE  Oldest(q[i]) < Oldest(q[j])
    <3>1. i \in DOMAIN queue /\ q[i] = queue[i]
      BY <2>3, <2>5
    <3>2. CASE j \in DOMAIN queue
      BY <2>3, <2>5, <3>1, <3>2 DEF Sorted
    <3>3. CASE j = Len(queue) + 1
      BY <1>0, <2>2, <2>3, <3>1, <3>3
    <3>4. QED
      BY <2>3, <3>2, <3>3
  <2>6. QED
    BY <2>4, <2>5 DEF Sorted
<1>2. CASE q \in {[queue EXCEPT ![i] = Join(@, n + 1, f)] : i \in FirstJoinable(f)}
  <2>1. PICK k \in DOMAIN queue : /\ q = [queue EXCEPT ![k] = Join(queue[k], n + 1, f)]
                                  /\ Joins(f, queue[k])
    BY <1>2 DEF FirstJoinable
  <2>2. queue[k] \in TransactionType
    OBVIOUS
  <2>3. Join(queue[k], n + 1, f).ops = queue[k].ops \cup {n + 1}
    BY <2>1, <2>2, JoinIsTyped
  <2>4. Oldest(Join(queue[k], n + 1, f)) = Oldest(queue[k])
    BY <1>0, <2>3, JoinKeepsOldest
  <2>5. DOMAIN q = DOMAIN queue
    BY <2>1
  <2>6. \A i \in DOMAIN queue : i # k => q[i] = queue[i]
    BY <2>1
  <2>7. q[k] = Join(queue[k], n + 1, f)
    BY <2>1
  <2>8. \A i \in DOMAIN q : q[i].ops # {} /\ q[i].ops \subseteq 1..(n + 1)
    BY <1>0, <2>3, <2>5, <2>6, <2>7
  <2>9. \A i \in DOMAIN queue : Oldest(q[i]) = Oldest(queue[i])
    BY <2>4, <2>6, <2>7
  <2>10. QED
    BY <2>5, <2>8, <2>9 DEF Sorted
<1>3. QED
  BY <1>1, <1>2 DEF Enqueued

\* trigger() starts the transaction with the oldest request.
LEMMA TriggerIsSorted ==
    ASSUME NEW open, NEW conn, NEW d, NEW q \in Seq(TransactionType), NEW b, NEW w,
           NEW n \in Nat, Sorted(q, n), Trigger(open, conn, d, q, b, w)
    PROVE  /\ Sorted(queue', n)
           /\ \A t \in wire' \ w : \A i \in DOMAIN queue' : Oldest(t) < Oldest(queue'[i])
<1>1. CASE Rest(q, b, w)
  BY <1>1 DEF Rest
<1>2. CASE q # <<>> /\ Start(q, b, w)
  <2> DEFINE tail == Tail(q)
  <2>1. 1 \in DOMAIN q /\ Head(q) = q[1]
    BY <1>2
  <2>2. /\ DOMAIN tail = 1..(Len(q) - 1)
        /\ DOMAIN q = 1..Len(q)
        /\ \A i \in 1..(Len(q) - 1) : tail[i] = q[i + 1]
    BY <1>2
  <2> HIDE DEF tail
  <2>3. \A i \in DOMAIN tail : i + 1 \in DOMAIN q /\ 1 < i + 1 /\ tail[i] = q[i + 1]
    BY <2>2
  <2>4. \A i, j \in DOMAIN tail : i < j => i + 1 < j + 1
    BY <2>2
  <2>5. Sorted(tail, n)
    BY <2>3, <2>4 DEF Sorted
  <2>6. \A i \in DOMAIN tail : Oldest(q[1]) < Oldest(tail[i])
    BY <2>1, <2>3 DEF Sorted
  <2>7. queue' = tail /\ wire' \ w \subseteq {q[1]}
    BY <1>2, <2>1 DEF Start, tail
  <2>8. QED
    BY <2>5, <2>6, <2>7
<1>3. QED
  BY <1>1, <1>2 DEF Trigger

InOrder == TypeOK /\ Sorted(queue, issued)

\* The step of FirstComeFirstServed.
ServesOldest == \A t \in wire' \ wire : \A i \in DOMAIN queue' : Oldest(t) < Oldest(queue'[i])

LEMMA InOrderStep == InOrder /\ [Next]_vars => InOrder' /\ ServesOldest
<1> SUFFICES ASSUME InOrder, [Next]_vars PROVE InOrder' /\ ServesOldest
  OBVIOUS
<1>0. /\ TypeOK /\ TypeOK' /\ Sorted(queue, issued)
      /\ queue \in Seq(TransactionType) /\ issued \in Nat
  BY TypeOKInvariant, BoundsAssumption DEF InOrder, TypeOK
<1> DEFINE Good == Sorted(queue', issued') /\ ServesOldest
<1>1. ASSUME NEW f \in Forms, Request(f) PROVE Good
  <2>1. issued + 1 \in Op /\ issued' = issued + 1
    BY <1>0, <1>1, BoundsAssumption DEF Request, Op
  <2>2. PICK q \in Enqueued(issued + 1, f) :
            Trigger(isOpen, connecting, dialing, q, busy, wire)
    BY <1>1 DEF Request
  <2>3. Sorted(q, issued + 1) /\ q \in Seq(TransactionType)
    BY <1>0, <2>1, <2>2, EnqueuedIsSorted, EnqueuedIsTyped
  <2>4. issued + 1 \in Nat
    BY <1>0
  <2>5. QED
    BY <2>1, <2>2, <2>3, <2>4, TriggerIsSorted DEF ServesOldest
<1>2. ASSUME NEW r \in Attempt, ConnectDone(r) PROVE Good
  BY <1>0, <1>2, TriggerIsSorted DEF ConnectDone, requestVars, ServesOldest
<1>3. ASSUME NEW t \in wire, Finished(t) PROVE Good
  <2>1. /\ Sorted(queue', issued)
        /\ \A u \in wire' \ (wire \ {t}) :
              \A i \in DOMAIN queue' : Oldest(u) < Oldest(queue'[i])
    BY <1>0, <1>3, TriggerIsSorted DEF Finished
  <2>2. QED
    BY <1>3, <2>1 DEF Finished, ServesOldest
<1>4. ASSUME UNCHANGED <<queue, wire, issued>> PROVE Good
  BY <1>0, <1>4 DEF ServesOldest
<1>5. ASSUME NEW r \in Attempt, ConnectFailed(r) \/ Redial(r)
      PROVE  UNCHANGED <<queue, wire, issued>>
  BY <1>5 DEF ConnectFailed, Redial, transVars, requestVars
<1>6. ASSUME CloseSocket \/ Closed \/ Disconnect \/ UNCHANGED vars
      PROVE  UNCHANGED <<queue, wire, issued>>
  BY <1>6 DEF CloseSocket, Closed, Disconnect, vars, transVars, requestVars
<1> HIDE DEF Good
<1>7. Good
  BY <1>1, <1>2, <1>3, <1>4, <1>5, <1>6
     DEF Next, Answer, CallFails, IdleTimeout, Stop
<1>8. QED
  BY <1>0, <1>7 DEF Good, InOrder

\* Transactions start in the order of their oldest requests (README
\* "Serialization"), however requests join the transactions that wait.
THEOREM FirstComeFirstServedTheorem == Forms # {} => (Spec => FirstComeFirstServed)
<1> SUFFICES ASSUME Forms # {} PROVE Spec => FirstComeFirstServed
  OBVIOUS
<1>1. Init => InOrder
  BY TypeOKInit DEF Init, InOrder, Sorted
<1>2. InOrder /\ [Next]_vars => [ServesOldest]_vars
  BY InOrderStep
<1>3. Spec => [][ServesOldest]_vars
  BY <1>1, <1>2, InOrderStep, PTL DEF Spec
<1>4. QED
  BY <1>3 DEF FirstComeFirstServed, ServesOldest

----------------------------------------------------------------------------
(* Every request gets its own registers *)

\* What the joining code handles: values in the order they are sent, every
\* value of a write sent, replies addressed by register.
Plain(f) ==
    /\ ~f.little /\ f.function # "single"
    /\ f.entity = "Coil" => f.function # "read"

\* What a request that is joined to no other needs: functions 5 and 6 write one
\* value, and the values of a coil write are not put back in order.
Alone(f) ==
    \/ f.length = 1
    \/ /\ f.function # "single"
       /\ ~(f.entity = "Coil" /\ f.little /\ f.function = "multiple")

\* Forms that can be joined are plain ones.
Combinable ==
    \A f \in Forms : Alone(f) /\ \A g \in Forms : Joins(f, g) => Plain(f) /\ Plain(g)

\* The registers of a transaction are those between its first and its last
\* request, and it is of the kind of each of them.
Covers(t, fm, n) ==
    /\ t.ops \subseteq 1..n
    /\ \A o \in t.ops : /\ SameType(fm[o], t)
                        /\ t.base <= fm[o].base
                        /\ fm[o].base + fm[o].length <= t.base + t.length
    /\ \E o \in t.ops : fm[o].base = t.base
    /\ \E o \in t.ops : fm[o].base + fm[o].length = t.base + t.length

\* A write holds the values of each of its requests at their registers.
Stores(t, fm) ==
    t.function # "read" =>
        /\ Len(t.content) = t.length
        /\ \A o \in t.ops : \A a \in Registers(fm[o]) : t.content[a - t.base + 1] = <<o, a>>

Fits(t, fm, n) ==
    /\ t \in TransactionType
    /\ Covers(t, fm, n)
    /\ \/ Plain(t) /\ Stores(t, fm)
       \/ \E o \in t.ops : t = Transaction(o, fm[o])

\* Requests made later do not disturb a transaction.
LEMMA FitsLater ==
    ASSUME NEW t, NEW n \in Nat, NEW fm, NEW fm2, Fits(t, fm, n),
           \A o \in 1..n : fm2[o] = fm[o]
    PROVE  Fits(t, fm2, n + 1)
<1>1. \A o \in t.ops : o \in 1..n /\ fm2[o] = fm[o]
  BY DEF Fits, Covers
<1>2. Covers(t, fm2, n + 1)
  <2>1. t.ops \subseteq 1..(n + 1)
    BY <1>1
  <2>2. QED
    BY <1>1, <2>1 DEF Fits, Covers
<1>3. Stores(t, fm) => Stores(t, fm2)
  BY <1>1 DEF Stores
<1>4. QED
  BY <1>1, <1>2, <1>3 DEF Fits

\* A request on its own.
LEMMA TransactionFits ==
    ASSUME NEW n \in Nat, n + 1 \in Op, NEW f \in Forms, NEW fm, fm[n + 1] = f
    PROVE  Fits(Transaction(n + 1, f), fm, n + 1)
<1> DEFINE t == Transaction(n + 1, f)
<1>1. t \in TransactionType
  BY TransactionIsTyped
<1>2. /\ t.ops = {n + 1} /\ t.base = f.base /\ t.length = f.length
      /\ t.unit = f.unit /\ t.entity = f.entity /\ t.function = f.function
  BY DEF Transaction
<1>3. f.base \in Nat /\ f.length \in Nat
  BY FormsAssumption
<1>4. n + 1 \in t.ops /\ t = Transaction(n + 1, fm[n + 1])
  BY <1>2
<1> HIDE DEF t
<1>5. t.ops \subseteq 1..(n + 1)
  BY <1>2
<1>6. Covers(t, fm, n + 1)
  BY <1>2, <1>3, <1>5 DEF Covers, SameType
<1>7. Fits(t, fm, n + 1)
  BY <1>1, <1>4, <1>6 DEF Fits
<1>8. QED
  BY <1>7 DEF t

\* The values of a request, in the order of its registers.
Values(o, f) == [i \in 1..f.length |-> <<o, f.base + i - 1>>]

LEMMA ValuesTyped ==
    ASSUME NEW o \in Op, NEW f \in Forms
    PROVE  /\ Values(o, f) \in [1..f.length -> Op \X Nat]
           /\ Values(o, f) \in Seq(Op \X Nat)
           /\ Len(Values(o, f)) = f.length
           /\ \A a \in Registers(f) : /\ a - f.base + 1 \in 1..f.length
                                      /\ Values(o, f)[a - f.base + 1] = <<o, a>>
<1>1. f.base \in Nat /\ f.length \in Nat
  BY FormsAssumption
<1>2. \A i \in 1..f.length : f.base + i - 1 \in Nat
  BY <1>1
<1>3. Values(o, f) \in [1..f.length -> Op \X Nat]
  BY <1>2 DEF Values
<1>4. Values(o, f) \in Seq(Op \X Nat) /\ Len(Values(o, f)) = f.length
  BY <1>1, <1>3
<1>5. ASSUME NEW a \in Registers(f)
      PROVE  /\ a - f.base + 1 \in 1..f.length
             /\ Values(o, f)[a - f.base + 1] = <<o, a>>
  <2>1. a - f.base + 1 \in 1..f.length /\ f.base + (a - f.base + 1) - 1 = a
    BY <1>1 DEF Registers
  <2>2. QED
    BY <2>1 DEF Values
<1>6. QED
  BY <1>3, <1>4, <1>5

\* A plain request on its own stores its values.
LEMMA AloneStores ==
    ASSUME NEW o \in Op, NEW f \in Forms, Plain(f), NEW fm, fm[o] = f
    PROVE  Plain(Transaction(o, f)) /\ Stores(Transaction(o, f), fm)
<1>1. f.function # "read" => Content(o, f) = Values(o, f)
  BY DEF Content, Values, Plain
<1>2. QED
  BY <1>1, ValuesTyped DEF Transaction, Plain, Stores

\* A form that joins a transaction joins one of the requests in it.
LEMMA JoinsOneOf ==
    ASSUME NEW t, NEW n, NEW fm, Covers(t, fm, n), NEW f, Joins(f, t)
    PROVE  \E o \in t.ops : Joins(f, fm[o])
<1>1. CASE Appends(f, t)
  <2>1. PICK o \in t.ops : fm[o].base + fm[o].length = t.base + t.length
    BY DEF Covers
  <2>2. Appends(f, fm[o])
    BY <1>1, <2>1 DEF Appends, SameType, Covers
  <2>3. QED
    BY <2>2 DEF Joins
<1>2. CASE Prepends(f, t)
  <2>1. PICK o \in t.ops : fm[o].base = t.base
    BY DEF Covers
  <2>2. Prepends(f, fm[o])
    BY <1>2, <2>1 DEF Prepends, SameType, Covers
  <2>3. QED
    BY <2>2 DEF Joins
<1>3. QED
  BY <1>1, <1>2 DEF Joins

\* Joining leaves the joined transaction with the registers of both.
LEMMA JoinCovers ==
    ASSUME NEW n \in Nat, n + 1 \in Op, NEW t \in TransactionType, NEW fm, NEW f \in Forms,
           Covers(t, fm, n + 1), fm[n + 1] = f, Joins(f, t),
           \A o \in t.ops : fm[o] \in Forms
    PROVE  Covers(Join(t, n + 1, f), fm, n + 1)
<1> DEFINE u == Join(t, n + 1, f)
<1>1. /\ f.base \in Nat /\ f.length \in Nat /\ f.length > 0
      /\ t.base \in Int /\ t.length \in Nat
  BY FormsAssumption DEF TransactionType
<1>2. \A o \in t.ops : fm[o].base \in Nat /\ fm[o].length \in Nat
  BY FormsAssumption
<1>3. /\ u.ops = t.ops \cup {n + 1} /\ u.unit = t.unit /\ u.entity = t.entity
      /\ u.function = t.function /\ u.length = t.length + f.length
      /\ u.base = IF Appends(f, t) THEN t.base ELSE f.base
  BY DEF Join, TransactionType
<1> HIDE DEF u
<1>4. u.ops \subseteq 1..(n + 1)
  BY <1>3 DEF Covers
<1>5. /\ n + 1 \in u.ops
      /\ \A o \in t.ops : o \in u.ops /\ SameType(fm[o], u)
      /\ SameType(f, u)
  BY <1>3 DEF Covers, SameType, Joins, Appends, Prepends
<1>6. CASE Appends(f, t)
  <2>1. u.base = t.base /\ f.base = t.base + t.length
    BY <1>3, <1>6 DEF Appends
  <2>2. \A o \in t.ops : /\ u.base <= fm[o].base
                         /\ fm[o].base + fm[o].length <= u.base + u.length
    BY <1>1, <1>2, <1>3, <2>1 DEF Covers
  <2>3. u.base <= f.base /\ f.base + f.length = u.base + u.length
    BY <1>1, <1>3, <2>1
  <2>4. f.base + f.length <= u.base + u.length
    BY <1>1, <2>3
  <2>5. \E o \in u.ops : fm[o].base = u.base
    BY <1>5, <2>1 DEF Covers
  <2>6. \A o \in u.ops : /\ SameType(fm[o], u)
                         /\ u.base <= fm[o].base
                         /\ fm[o].base + fm[o].length <= u.base + u.length
    BY <1>3, <1>5, <2>2, <2>3, <2>4
  <2>7. QED
    BY <1>4, <1>5, <2>3, <2>5, <2>6 DEF Covers, u
<1>7. CASE ~Appends(f, t)
  <2>1. u.base = f.base /\ f.base + f.length = t.base
    BY <1>3, <1>7 DEF Joins, Prepends
  <2>2. \A o \in t.ops : /\ u.base <= fm[o].base
                         /\ fm[o].base + fm[o].length <= u.base + u.length
    BY <1>1, <1>2, <1>3, <2>1 DEF Covers
  <2>3. u.base <= f.base /\ f.base + f.length <= u.base + u.length
    BY <1>1, <1>3, <2>1
  <2>4. u.base + u.length = t.base + t.length
    BY <1>1, <1>3, <2>1
  <2>5. \E o \in u.ops : fm[o].base + fm[o].length = u.base + u.length
    BY <1>5, <2>4 DEF Covers
  <2>6. \A o \in u.ops : /\ SameType(fm[o], u)
                         /\ u.base <= fm[o].base
                         /\ fm[o].base + fm[o].length <= u.base + u.length
    BY <1>3, <1>5, <2>2, <2>3
  <2>7. QED
    BY <1>4, <1>5, <2>1, <2>5, <2>6 DEF Covers, u
<1>8. QED
  BY <1>6, <1>7

\* Two contents one after the other.
LEMMA Joined ==
    ASSUME NEW S, NEW s \in Seq(S), NEW u \in Seq(S)
    PROVE  /\ Len(s \o u) = Len(s) + Len(u)
           /\ \A i \in 1..Len(s) : (s \o u)[i] = s[i]
           /\ \A i \in 1..Len(u) : (s \o u)[Len(s) + i] = u[i]
OBVIOUS

\* Joining plain requests stores the values of both at their registers.
LEMMA JoinStores ==
    ASSUME NEW n \in Nat, n + 1 \in Op, NEW t \in TransactionType, NEW fm, NEW f \in Forms,
           Covers(t, fm, n), fm[n + 1] = f, Joins(f, t), Plain(f),
           \A o \in t.ops : fm[o] \in Forms,
           Plain(t), Stores(t, fm)
    PROVE  Plain(Join(t, n + 1, f)) /\ Stores(Join(t, n + 1, f), fm)
<1> DEFINE u == Join(t, n + 1, f)
           c == Content(n + 1, f)
<1>1. /\ f.base \in Nat /\ f.length \in Nat
      /\ t.base \in Int /\ t.length \in Nat /\ t.content \in Seq(Op \X Nat)
  BY FormsAssumption DEF TransactionType
<1>2. \A o \in t.ops : fm[o].base \in Nat /\ fm[o].length \in Nat
  BY FormsAssumption
<1>3. /\ u.ops = t.ops \cup {n + 1} /\ u.little = t.little /\ u.entity = t.entity
      /\ u.function = t.function /\ u.length = t.length + f.length
      /\ u.base = IF Appends(f, t) THEN t.base ELSE f.base
      /\ u.content = IF Appends(f, t) THEN t.content \o c ELSE c \o t.content
  BY DEF Join, TransactionType
<1>4. Plain(u)
  BY <1>3 DEF Plain
<1>5. ASSUME t.function # "read"
      PROVE  /\ Len(u.content) = u.length
             /\ \A o \in u.ops : \A a \in Registers(fm[o]) :
                    u.content[a - u.base + 1] = <<o, a>>
  <2>1. f.function # "read"
    BY <1>5 DEF Joins, Appends, Prepends, SameType
  <2>2. c = Values(n + 1, f)
    BY <2>1 DEF Content, Values, Plain
  <2>3. /\ c \in Seq(Op \X Nat) /\ Len(c) = f.length
        /\ \A a \in Registers(f) : a - f.base + 1 \in 1..f.length
                                   /\ c[a - f.base + 1] = <<n + 1, a>>
    BY <2>2, ValuesTyped
  <2>4. Len(t.content) = t.length
    BY <1>5 DEF Stores
  <2>5. ASSUME NEW o \in t.ops, NEW a \in Registers(fm[o])
        PROVE  /\ a \in Int /\ a - t.base + 1 \in 1..t.length
               /\ t.content[a - t.base + 1] = <<o, a>>
    <3>1. a \in Int /\ a - t.base + 1 \in 1..t.length
      <4>1. t.base <= fm[o].base /\ fm[o].base + fm[o].length <= t.base + t.length
        BY DEF Covers
      <4>2. a \in Int /\ fm[o].base <= a /\ a < fm[o].base + fm[o].length
        BY <1>2 DEF Registers
      <4>3. fm[o].base \in Nat /\ fm[o].length \in Nat
        BY <1>2
      <4>4. t.base <= a /\ a < t.base + t.length
        BY <1>1, <4>1, <4>2, <4>3
      <4>5. QED
        BY <1>1, <4>2, <4>4
    <3>2. QED
      BY <1>5, <3>1 DEF Stores
  <2> HIDE DEF c, u
  <2>a. PICK S : t.content \in Seq(S) /\ c \in Seq(S)
    BY <1>1, <2>3
  <2>6. CASE Appends(f, t)
    <3>1. /\ u.base = t.base /\ f.base = t.base + t.length /\ u.content = t.content \o c
      BY <1>3, <2>6 DEF Appends
    <3>2. /\ Len(u.content) = t.length + f.length
          /\ \A i \in 1..t.length : u.content[i] = t.content[i]
          /\ \A i \in 1..f.length : u.content[t.length + i] = c[i]
      <4>1. /\ Len(t.content \o c) = Len(t.content) + Len(c)
            /\ \A i \in 1..Len(t.content) : (t.content \o c)[i] = t.content[i]
            /\ \A i \in 1..Len(c) : (t.content \o c)[Len(t.content) + i] = c[i]
        BY <2>a, Joined
      <4>2. QED
        BY <2>3, <2>4, <3>1, <4>1
    <3>3. ASSUME NEW o \in t.ops, NEW a \in Registers(fm[o])
          PROVE  u.content[a - u.base + 1] = <<o, a>>
      BY <2>5, <3>1, <3>2
    <3>4. ASSUME NEW a \in Registers(f)
          PROVE  u.content[a - u.base + 1] = <<n + 1, a>>
      <4>1. a \in Int
        BY <1>1 DEF Registers
      <4>a. t.base \in Int /\ t.length \in Int
        BY <1>1
      <4>2. a - u.base + 1 = t.length + (a - f.base + 1)
        BY <3>1, <4>1, <4>a
      <4>3. u.content[t.length + (a - f.base + 1)] = c[a - f.base + 1]
        BY <2>3, <3>2
      <4>4. QED
        BY <2>3, <4>2, <4>3
    <3>5. QED
      BY <1>3, <3>2, <3>3, <3>4
  <2>7. CASE ~Appends(f, t)
    <3>1. /\ u.base = f.base /\ f.base + f.length = t.base /\ u.content = c \o t.content
      BY <1>3, <2>7 DEF Joins, Prepends
    <3>2. /\ Len(u.content) = f.length + t.length
          /\ \A i \in 1..f.length : u.content[i] = c[i]
          /\ \A i \in 1..t.length : u.content[f.length + i] = t.content[i]
      <4>1. /\ Len(c \o t.content) = Len(c) + Len(t.content)
            /\ \A i \in 1..Len(c) : (c \o t.content)[i] = c[i]
            /\ \A i \in 1..Len(t.content) : (c \o t.content)[Len(c) + i] = t.content[i]
        BY <2>a, Joined
      <4>2. QED
        BY <2>3, <2>4, <3>1, <4>1
    <3>3. ASSUME NEW o \in t.ops, NEW a \in Registers(fm[o])
          PROVE  u.content[a - u.base + 1] = <<o, a>>
      <4>0. a \in Int /\ u.base = f.base /\ f.base + f.length = t.base
        BY <2>5, <3>1
      <4>a. f.base \in Int /\ f.length \in Int
        BY <1>1
      <4>1. a - u.base + 1 = f.length + (a - t.base + 1)
        BY <4>0, <4>a
      <4>2. u.content[f.length + (a - t.base + 1)] = t.content[a - t.base + 1]
        BY <2>5, <3>2
      <4>3. QED
        BY <2>5, <4>1, <4>2
    <3>4. ASSUME NEW a \in Registers(f)
          PROVE  u.content[a - u.base + 1] = <<n + 1, a>>
      BY <2>3, <3>1, <3>2
    <3>5. Len(u.content) = u.length
      BY <1>1, <1>3, <3>2
    <3>6. QED
      BY <1>3, <3>3, <3>4, <3>5
  <2>8. QED
    BY <2>6, <2>7
<1>6. Stores(u, fm)
  BY <1>3, <1>5 DEF Stores
<1>7. QED
  BY <1>4, <1>6

\* A request joins a transaction it fits.
LEMMA JoinFits ==
    ASSUME Combinable, NEW n \in Nat, n + 1 \in Op, NEW t, NEW fm, NEW fm2,
           Fits(t, fm, n), NEW f \in Forms, Joins(f, t),
           \A o \in 1..n : fm[o] \in Forms /\ fm2[o] = fm[o], fm2[n + 1] = f
    PROVE  Fits(Join(t, n + 1, f), fm2, n + 1)
<1>1. /\ t \in TransactionType /\ t.ops \subseteq 1..n
      /\ \A o \in t.ops : fm2[o] \in Forms /\ fm2[o] = fm[o]
  BY DEF Fits, Covers
<1>2. Fits(t, fm2, n + 1)
  BY FitsLater
<1>3. Covers(t, fm2, n)
  BY <1>1 DEF Fits, Covers
<1>4. PICK o \in t.ops : Joins(f, fm2[o])
  BY <1>3, JoinsOneOf
<1>5. Plain(f) /\ Plain(fm2[o])
  BY <1>1, <1>4 DEF Combinable
<1>6. Plain(t) /\ Stores(t, fm2)
  <2>1. CASE \E p \in t.ops : t = Transaction(p, fm2[p])
    <3>1. PICK p \in t.ops : t = Transaction(p, fm2[p])
      BY <2>1
    <3>2. t.ops = {p}
      BY <3>1 DEF Transaction
    <3>3. o = p /\ p \in Op
      BY <1>1, <3>2 DEF TransactionType
    <3>4. QED
      BY <1>1, <1>5, <3>1, <3>3, AloneStores
  <2>2. QED
    BY <1>2, <2>1 DEF Fits
<1>7. Plain(Join(t, n + 1, f)) /\ Stores(Join(t, n + 1, f), fm2)
  BY <1>1, <1>3, <1>5, <1>6, JoinStores
<1>8. Covers(Join(t, n + 1, f), fm2, n + 1)
  BY <1>1, <1>2, JoinCovers DEF Fits
<1>9. QED
  BY <1>1, <1>7, <1>8, JoinIsTyped DEF Fits

LEMMA EnqueuedFits ==
    ASSUME Combinable, queue \in Seq(TransactionType), NEW n \in Nat, n + 1 \in Op,
           NEW fm, NEW fm2, NEW f \in Forms,
           \A i \in DOMAIN queue : Fits(queue[i], fm, n),
           \A o \in 1..n : fm[o] \in Forms /\ fm2[o] = fm[o], fm2[n + 1] = f,
           NEW q \in Enqueued(n + 1, f)
    PROVE  \A i \in DOMAIN q : Fits(q[i], fm2, n + 1)
<1>0. \A i \in DOMAIN queue : Fits(queue[i], fm2, n + 1)
  BY FitsLater
<1>1. CASE q = Append(queue, Transaction(n + 1, f))
  <2>1. Transaction(n + 1, f) \in TransactionType
    BY TransactionIsTyped
  <2>2. Fits(Transaction(n + 1, f), fm2, n + 1)
    BY TransactionFits
  <2>3. \A i \in DOMAIN q : \/ i \in DOMAIN queue /\ q[i] = queue[i]
                            \/ q[i] = Transaction(n + 1, f)
    BY <1>1, <2>1
  <2>4. QED
    BY <1>0, <2>2, <2>3
<1>2. CASE q \in {[queue EXCEPT ![i] = Join(@, n + 1, f)] : i \in FirstJoinable(f)}
  <2>1. PICK k \in DOMAIN queue : /\ q = [queue EXCEPT ![k] = Join(queue[k], n + 1, f)]
                                  /\ Joins(f, queue[k])
    BY <1>2 DEF FirstJoinable
  <2>2. Fits(Join(queue[k], n + 1, f), fm2, n + 1)
    BY <2>1, JoinFits
  <2>3. \A i \in DOMAIN q : \/ i \in DOMAIN queue /\ q[i] = queue[i]
                            \/ q[i] = Join(queue[k], n + 1, f)
    BY <2>1
  <2>4. QED
    BY <1>0, <2>2, <2>3
<1>3. QED
  BY <1>1, <1>2 DEF Enqueued

\* trigger() brings no transaction into being.
LEMMA TriggerMoves ==
    ASSUME NEW open, NEW conn, NEW d, NEW q \in Seq(TransactionType), NEW b, NEW w,
           Trigger(open, conn, d, q, b, w)
    PROVE  /\ \A t \in wire' : t \in w \/ \E i \in DOMAIN q : t = q[i]
           /\ \A j \in DOMAIN queue' : \E i \in DOMAIN q : queue'[j] = q[i]
<1>1. CASE Rest(q, b, w)
  BY <1>1 DEF Rest
<1>2. CASE q # <<>> /\ Start(q, b, w)
  <2>1. 1 \in DOMAIN q /\ Head(q) = q[1]
    BY <1>2
  <2>2. \A j \in DOMAIN Tail(q) : j + 1 \in DOMAIN q /\ Tail(q)[j] = q[j + 1]
    BY <1>2
  <2>3. QED
    BY <1>2, <2>1, <2>2 DEF Start
<1>3. QED
  BY <1>1, <1>2 DEF Trigger

----------------------------------------------------------------------------
(* What is answered and what is written *)

LEMMA ReverseAt ==
    ASSUME NEW S, NEW n \in Nat, NEW s \in [1..n -> S]
    PROVE  /\ \A i \in 1..n : n - i + 1 \in 1..n
           /\ SX!Reverse(s) = [i \in 1..n |-> s[n - i + 1]]
<1>1. Len(s) = n /\ s \in Seq(S)
  OBVIOUS
<1>2. SX!Reverse(s) = [i \in 1..Len(s) |-> s[Len(s) - i + 1]]
  BY DEF SX!Reverse
<1>3. QED
  BY <1>1, <1>2

\* Reversing twice, and reversing a single element.
LEMMA ReverseBack ==
    ASSUME NEW S, NEW n \in Nat, NEW s \in [1..n -> S]
    PROVE  /\ SX!Reverse(SX!Reverse(s)) = s
           /\ n = 1 => SX!Reverse(s) = s
<1> DEFINE r == SX!Reverse(s)
<1>a. r = [i \in 1..n |-> s[n - i + 1]]
  BY ReverseAt
<1>b. r \in [1..n -> S]
  BY ReverseType
<1> HIDE DEF r
<1>1. r \in [1..n -> S] /\ \A i \in 1..n : n - i + 1 \in 1..n /\ r[i] = s[n - i + 1]
  BY <1>a, <1>b
<1>2. SX!Reverse(r) = [i \in 1..n |-> r[n - i + 1]]
  BY <1>1, ReverseAt
<1>3. \A i \in 1..n : r[n - i + 1] = s[i]
  <2>1. \A i \in 1..n : r[n - i + 1] = s[n - (n - i + 1) + 1]
    BY <1>1
  <2>2. \A i \in 1..n : n - (n - i + 1) + 1 = i
    OBVIOUS
  <2>3. QED
    BY <2>1, <2>2
<1>4. SX!Reverse(r) = s
  BY <1>2, <1>3
<1>5. ASSUME n = 1 PROVE r = s
  <2>1. r[1] = s[1]
    BY <1>1, <1>5
  <2>2. QED
    BY <1>1, <1>5, <2>1
<1>6. QED
  BY <1>4, <1>5 DEF r

\* Eight coils to a byte: the byte of each coil is one of the reply's.
LEMMA ByteOf ==
    ASSUME NEW x \in Nat, NEW n \in Nat, x < n
    PROVE  /\ x \div 8 \in 0..((n + 7) \div 8 - 1)
           /\ (n + 7) \div 8 <= n
OBVIOUS

\* A read that was sent alone is resolved with the whole reply.
LEMMA AloneRead ==
    ASSUME form \in [Op -> Forms], NEW o \in Op
    PROVE  Extracted(o, Transaction(o, form[o])) = Registers(form[o])
<1> DEFINE f == form[o]
           t == Transaction(o, f)
<1>1. f \in Forms /\ f.base \in Nat /\ f.length \in Nat /\ f.length > 0
  BY FormsAssumption
<1>2. t.base = f.base /\ t.length = f.length /\ t.entity = f.entity /\ t.little = f.little
  BY DEF Transaction
<1> HIDE DEF f, t
<1>3. CASE t.entity = "Coil"
  <2>1. Extracted(o, t) = UNION {CoilReply(t, k) : k \in {j \in 0..(CoilBytes(t) - 1) :
                                                  f.base - t.base <= j /\ j < f.length}}
    BY <1>3 DEF Extracted, f
  <2>2. \A k : CoilReply(t, k) \subseteq Registers(t)
    BY DEF CoilReply, CoilByte
  <2>3. Registers(t) = Registers(f)
    BY <1>2 DEF Registers
  <2>4. ASSUME NEW a \in Registers(t) PROVE a \in Extracted(o, t)
    <3> DEFINE bytes == CoilBytes(t)
               k == (a - t.base) \div 8
               j == IF t.little THEN bytes - 1 - k ELSE k
    <3>1. a - t.base \in Nat /\ a - t.base < f.length
      BY <1>1, <1>2 DEF Registers
    <3>2. k \in 0..(bytes - 1) /\ bytes <= f.length /\ bytes \in Int
      BY <1>1, <1>2, <3>1, ByteOf DEF CoilBytes
    <3>3. a \in CoilByte(t, k)
      BY DEF CoilByte
    <3> HIDE DEF bytes, k
    <3>4. j \in 0..(bytes - 1) /\ 0 <= j /\ j < f.length
      BY <1>1, <3>2
    <3>5. (IF t.little THEN bytes - 1 - j ELSE j) = k
      BY <3>2
    <3> HIDE DEF j
    <3>6. CoilReply(t, j) = CoilByte(t, k)
      BY <3>5 DEF CoilReply, bytes
    <3>7. f.base - t.base <= j
      BY <1>1, <1>2, <3>4
    <3>8. QED
      BY <2>1, <3>3, <3>4, <3>6, <3>7 DEF bytes
  <2>5. QED
    BY <2>1, <2>2, <2>3, <2>4 DEF f, t
<1>4. CASE t.entity # "Coil"
  <2> DEFINE n == f.length
             reply == [i \in 1..n |-> f.base + i - 1]
             sent == RegisterReply(t)
  <2>1. reply \in [1..n -> Int]
    BY <1>1
  <2>2. sent = reply \/ sent = SX!Reverse(reply)
    BY <1>2 DEF RegisterReply
  <2>3. Extracted(o, t) = {sent[i] : i \in (f.base - t.base + 1)..(f.base - t.base + n) \cap DOMAIN sent}
    BY <1>4 DEF Extracted, f
  <2>4. /\ \A i \in 1..n : reply[i] = f.base + i - 1
        /\ n \in Nat
    BY <1>1
  <2> HIDE DEF reply, sent, n
  <2>5. /\ SX!Reverse(reply) = [i \in 1..n |-> reply[n - i + 1]]
        /\ \A i \in 1..n : n - i + 1 \in 1..n
    <3>1. n \in Nat /\ reply \in [1..n -> Int]
      BY <2>1, <2>4
    <3>2. QED
      BY <3>1, ReverseAt
  <2>6. DOMAIN sent = 1..n
    BY <2>1, <2>2, <2>5
  <2>7. f.base - t.base + 1 = 1 /\ f.base - t.base + n = n
    BY <1>1, <1>2, <2>4
  <2>8. Extracted(o, t) = {sent[i] : i \in 1..n}
    BY <2>3, <2>6, <2>7
  <2>9. {reply[i] : i \in 1..n} = Registers(f)
    <3>1. \A i \in 1..n : reply[i] \in Registers(f)
      BY <1>1, <2>4 DEF Registers, n
    <3>2. ASSUME NEW a \in Registers(f) PROVE \E i \in 1..n : reply[i] = a
      <4>1. a - f.base + 1 \in 1..n /\ f.base + (a - f.base + 1) - 1 = a
        BY <1>1 DEF Registers, n
      <4>2. QED
        BY <2>4, <4>1
    <3>3. QED
      BY <3>1, <3>2
  <2>10. CASE sent = SX!Reverse(reply)
    <3>1. \A i \in 1..n : sent[i] = reply[n - i + 1]
      BY <2>5, <2>10
    <3>2. \A i \in 1..n : reply[i] = sent[n - i + 1]
      <4>1. \A i \in 1..n : n - (n - i + 1) + 1 = i
        BY <2>4
      <4>2. QED
        BY <2>5, <3>1, <4>1
    <3>3. {sent[i] : i \in 1..n} = {reply[i] : i \in 1..n}
      BY <2>5, <3>1, <3>2
    <3>4. QED
      BY <2>8, <2>9, <3>3 DEF f, t
  <2>11. QED
    BY <2>2, <2>8, <2>9, <2>10 DEF f, t
<1>5. QED
  BY <1>3, <1>4

\* done() cuts a register reply where the request's registers are.
LEMMA PlainRead ==
    ASSUME form \in [Op -> Forms], NEW n, NEW t, Fits(t, form, n), Plain(t),
           t.function = "read", NEW o \in t.ops
    PROVE  Extracted(o, t) = Registers(form[o])
<1> DEFINE f == form[o]
           offset == f.base - t.base
           reply == [i \in 1..t.length |-> t.base + i - 1]
<1>1. /\ t.base \in Int /\ t.length \in Nat /\ t.entity # "Coil" /\ ~t.little
  BY DEF Fits, TransactionType, Plain
<1>2. f \in Forms /\ f.base \in Nat /\ f.length \in Nat
  BY FormsAssumption DEF Fits, TransactionType
<1>3. t.base <= f.base /\ f.base + f.length <= t.base + t.length
  BY DEF Fits, Covers
<1>4. RegisterReply(t) = reply
  BY <1>1 DEF RegisterReply
<1>5. Extracted(o, t) = {reply[i] : i \in (offset + 1)..(offset + f.length) \cap 1..t.length}
  BY <1>1, <1>4 DEF Extracted
<1>6. \A i \in 1..t.length : reply[i] = t.base + i - 1
  OBVIOUS
<1> HIDE DEF reply, f
<1>7. ASSUME NEW i \in (offset + 1)..(offset + f.length) \cap 1..t.length
      PROVE  t.base + i - 1 \in Registers(f)
  BY <1>1, <1>2 DEF Registers
<1>8. ASSUME NEW a \in Registers(f)
      PROVE  \E i \in (offset + 1)..(offset + f.length) \cap 1..t.length : reply[i] = a
  <2> DEFINE i == a - t.base + 1
  <2>1. a \in Int /\ f.base <= a /\ a < f.base + f.length
    BY <1>2 DEF Registers
  <2>2. /\ i \in (offset + 1)..(offset + f.length) /\ i \in 1..t.length
        /\ t.base + i - 1 = a
    BY <1>1, <1>2, <1>3, <2>1
  <2> HIDE DEF i
  <2>3. QED
    BY <1>6, <2>2
<1>9. QED
  BY <1>5, <1>6, <1>7, <1>8 DEF f

LEMMA ReadGetsOwn ==
    ASSUME form \in [Op -> Forms], NEW n, NEW t, Fits(t, form, n),
           t.function = "read", NEW o \in t.ops
    PROVE  Extracted(o, t) = Registers(form[o])
<1>1. CASE \E p \in t.ops : t = Transaction(p, form[p])
  <2>1. PICK p \in t.ops : t = Transaction(p, form[p])
    BY <1>1
  <2>2. t.ops = {p}
    BY <2>1 DEF Transaction
  <2>3. o = p /\ p \in Op
    BY <2>2 DEF Fits, TransactionType
  <2>4. QED
    BY <2>1, <2>3, AloneRead
<1>2. QED
  BY <1>1, PlainRead DEF Fits

\* A value that is at its register in what is sent is written there.
LEMMA LandsAt ==
    ASSUME NEW t, t.ops \subseteq Op, NEW o \in t.ops, NEW a \in Registers(form[o]),
           NEW i \in Nat, 1 <= i,
           i <= IF t.function = "single" THEN 1 ELSE Len(SentContent(t)),
           SentContent(t)[i] = <<o, a>>, a = t.base + i - 1,
           Len(SentContent(t)) \in Nat
    PROVE  <<o, a>> \in Written(t)
<1> DEFINE n == IF t.function = "single" THEN 1 ELSE Len(SentContent(t))
<1>1. i \in 1..n
  OBVIOUS
<1>2. <<o, a>> \in Op \X UNION {Registers(form[p]) : p \in t.ops}
  OBVIOUS
<1>3. <<o, a>>[2] = a
  OBVIOUS
<1>4. QED
  BY <1>1, <1>2, <1>3 DEF Written

LEMMA AloneWrite ==
    ASSUME form \in [Op -> Forms], NEW o \in Op, Alone(form[o]),
           form[o].function # "read", NEW a \in Registers(form[o])
    PROVE  <<o, a>> \in Written(Transaction(o, form[o]))
<1> DEFINE f == form[o]
           t == Transaction(o, f)
           v == Values(o, f)
<1>1. f \in Forms /\ f.base \in Nat /\ f.length \in Nat /\ f.length > 0
  BY FormsAssumption
<1>2. /\ t.base = f.base /\ t.entity = f.entity /\ t.little = f.little
      /\ t.function = f.function /\ t.ops = {o}
      /\ t.content = IF f.little THEN SX!Reverse(v) ELSE v
  BY DEF Transaction, Content, Values
<1>3. /\ v \in [1..f.length -> Op \X Nat] /\ Len(v) = f.length
      /\ a - f.base + 1 \in 1..f.length /\ v[a - f.base + 1] = <<o, a>>
  BY <1>1, ValuesTyped
<1>4. f.entity \in {"Coil", "HoldingRegister"} /\ f.function \in {"single", "multiple"}
  BY <1>1, FormsAssumption DEF Entity, Function
<1>5. a \in Int /\ f.base <= a
  BY <1>1 DEF Registers
<1> HIDE DEF f, t, v
<1>6. SX!Reverse(SX!Reverse(v)) = v /\ (f.length = 1 => SX!Reverse(v) = v)
  BY <1>1, <1>3, ReverseBack
<1>7. SentContent(t) = v
  <2>1. CASE f.length = 1
    BY <1>2, <1>6, <2>1 DEF SentContent
  <2>2. CASE f.length # 1
    <3>1. f.function = "multiple" /\ ~(f.entity = "Coil" /\ f.little)
      BY <1>4, <2>2 DEF Alone, f
    <3>2. f.entity = "HoldingRegister" \/ ~f.little
      BY <1>4, <3>1
    <3>3. QED
      BY <1>2, <1>6, <3>2 DEF SentContent
  <2>3. QED
    BY <2>1, <2>2
<1>8. a - f.base + 1 <= IF t.function = "single" THEN 1 ELSE Len(v)
  <2>1. f.function = "single" => f.length = 1
    BY DEF Alone, f
  <2>2. QED
    BY <1>1, <1>2, <1>3, <2>1
<1>9. <<o, a>> \in Written(t)
  <2> DEFINE i == a - f.base + 1
  <2>1. i \in Nat /\ 1 <= i /\ a = t.base + i - 1
    BY <1>1, <1>2, <1>3, <1>5
  <2>2. o \in t.ops /\ t.ops \subseteq Op /\ a \in Registers(form[o])
    BY <1>2
  <2>3. SentContent(t)[i] = <<o, a>> /\ Len(SentContent(t)) \in Nat
    BY <1>1, <1>3, <1>7
  <2>4. i <= IF t.function = "single" THEN 1 ELSE Len(SentContent(t))
    BY <1>7, <1>8
  <2> HIDE DEF i
  <2>5. QED
    BY <2>1, <2>2, <2>3, <2>4, LandsAt
<1>10. QED
  BY <1>9 DEF f, t

LEMMA PlainWrite ==
    ASSUME form \in [Op -> Forms], NEW n, NEW t, Fits(t, form, n), Plain(t), Stores(t, form),
           t.function # "read", NEW o \in t.ops, NEW a \in Registers(form[o])
    PROVE  <<o, a>> \in Written(t)
<1> DEFINE f == form[o]
           i == a - t.base + 1
<1>1. /\ t.base \in Int /\ t.length \in Nat /\ t.ops \subseteq Op
      /\ t.function # "single" /\ ~t.little
  BY DEF Fits, TransactionType, Plain
<1>2. f \in Forms /\ f.base \in Nat /\ f.length \in Nat
  BY <1>1, FormsAssumption
<1>3. t.base <= f.base /\ f.base + f.length <= t.base + t.length
  BY DEF Fits, Covers
<1>4. a \in Int /\ f.base <= a /\ a < f.base + f.length
  BY <1>2 DEF Registers
<1>5. SentContent(t) = t.content /\ Len(t.content) = t.length /\ t.content[i] = <<o, a>>
  BY <1>1 DEF SentContent, Stores
<1> HIDE DEF f
<1>6. i \in Nat /\ 1 <= i /\ i <= t.length /\ a = t.base + i - 1
  BY <1>1, <1>2, <1>3, <1>4
<1> HIDE DEF i
<1>7. QED
  BY <1>1, <1>5, <1>6, LandsAt

LEMMA WriteLandsOwn ==
    ASSUME Combinable, form \in [Op -> Forms], NEW n, NEW t, Fits(t, form, n),
           t.function # "read", NEW o \in t.ops, NEW a \in Registers(form[o])
    PROVE  <<o, a>> \in Written(t)
<1>1. CASE \E p \in t.ops : t = Transaction(p, form[p])
  <2>1. PICK p \in t.ops : t = Transaction(p, form[p])
    BY <1>1
  <2>2. t.ops = {p} /\ t.function = form[p].function
    BY <2>1 DEF Transaction
  <2>3. o = p /\ p \in Op
    BY <2>2 DEF Fits, TransactionType
  <2>4. Alone(form[p])
    BY <2>3 DEF Combinable
  <2>5. QED
    BY <2>1, <2>2, <2>3, <2>4, AloneWrite
<1>2. QED
  BY <1>1, PlainWrite DEF Fits

----------------------------------------------------------------------------

\* Every transaction, waiting or in flight, fits the requests it was made of.
AllFit ==
    /\ \A t \in wire : Fits(t, form, issued)
    /\ \A i \in DOMAIN queue : Fits(queue[i], form, issued)

Own == TypeOK /\ AllFit /\ AnswersOwn

LEMMA TriggerFits ==
    ASSUME NEW open, NEW conn, NEW d, NEW q \in Seq(TransactionType), NEW b, NEW w,
           NEW fm, NEW n, Trigger(open, conn, d, q, b, w),
           \A t \in w : Fits(t, fm, n), \A i \in DOMAIN q : Fits(q[i], fm, n)
    PROVE  /\ \A t \in wire' : Fits(t, fm, n)
           /\ \A i \in DOMAIN queue' : Fits(queue'[i], fm, n)
BY TriggerMoves

LEMMA OwnStep == Combinable /\ Own /\ [Next]_vars => Own'
<1> SUFFICES ASSUME Combinable, Own, [Next]_vars PROVE Own'
  OBVIOUS
<1>0. /\ TypeOK /\ TypeOK' /\ AllFit /\ AnswersOwn
      /\ queue \in Seq(TransactionType) /\ form \in [Op -> Forms]
      /\ status \in [Op -> Status] /\ issued \in Nat /\ issued <= MaxOps
  BY TypeOKInvariant, BoundsAssumption DEF Own, TypeOK
<1> DEFINE Good == AllFit' /\ AnswersOwn'
<1>1. ASSUME NEW f \in Forms, Request(f) PROVE Good
  <2>1. issued + 1 \in Op /\ issued' = issued + 1
    BY <1>0, <1>1, BoundsAssumption DEF Request, Op
  <2>2. \A o \in 1..issued : o \in Op /\ o # issued + 1
    BY <1>0, BoundsAssumption DEF Op
  <2>3. form' = [form EXCEPT ![issued + 1] = f]
    BY <1>1 DEF Request
  <2>4. form'[issued + 1] = f /\ \A o \in Op : o # issued + 1 => form'[o] = form[o]
    BY <1>0, <2>1, <2>3
  <2>5. \A o \in 1..issued : form[o] \in Forms /\ form'[o] = form[o]
    BY <1>0, <2>2, <2>4
  <2>6. PICK q \in Enqueued(issued + 1, f) :
            Trigger(isOpen, connecting, dialing, q, busy, wire)
    BY <1>1 DEF Request
  <2>7. \A i \in DOMAIN q : Fits(q[i], form', issued + 1)
    BY <1>0, <2>1, <2>4, <2>5, <2>6, EnqueuedFits DEF AllFit
  <2>8. \A t \in wire : Fits(t, form', issued + 1)
    BY <1>0, <2>5, FitsLater DEF AllFit
  <2>9. q \in Seq(TransactionType)
    BY <1>0, <2>1, <2>6, EnqueuedIsTyped
  <2>10. AllFit'
    BY <2>1, <2>6, <2>7, <2>8, <2>9, TriggerFits DEF AllFit
  <2>11. UNCHANGED <<got, landed>>
    BY <1>1 DEF Request, deviceVars
  <2>12. \A o \in Op : status'[o] = "done" => o # issued + 1 /\ status[o] = "done"
    BY <1>0, <1>1, <2>1 DEF Request
  <2>13. AnswersOwn'
    BY <1>0, <2>4, <2>11, <2>12 DEF AnswersOwn
  <2>14. QED
    BY <2>10, <2>13
<1>2. ASSUME NEW r \in Attempt, ConnectDone(r) PROVE Good
  <2>1. AllFit'
    BY <1>0, <1>2, TriggerFits DEF ConnectDone, requestVars, AllFit
  <2>2. AnswersOwn'
    BY <1>0, <1>2 DEF ConnectDone, requestVars, deviceVars, AnswersOwn
  <2>3. QED
    BY <2>1, <2>2
<1>3. ASSUME NEW t \in wire, Finished(t) PROVE AllFit'
  <2>1. /\ \A u \in wire \ {t} : Fits(u, form, issued)
        /\ \A i \in DOMAIN queue : Fits(queue[i], form, issued)
    BY <1>0 DEF AllFit
  <2>2. /\ Trigger(isOpen, connecting, dialing, queue, FALSE, wire \ {t})
        /\ form' = form /\ issued' = issued
    BY <1>3 DEF Finished
  <2>3. /\ \A u \in wire' : Fits(u, form, issued)
        /\ \A i \in DOMAIN queue' : Fits(queue'[i], form, issued)
    BY <1>0, <2>1, <2>2, TriggerFits
  <2>4. QED
    BY <2>2, <2>3 DEF AllFit
<1>4. ASSUME NEW t \in wire, Answer(t) PROVE Good
  <2>1. UNCHANGED form
    BY <1>4 DEF Answer, Finished
  <2>2. Fits(t, form, issued) /\ t.ops \subseteq Op
    BY <1>0 DEF AllFit, Fits, TransactionType
  <2>3. \A o \in Op : status'[o] = "done" => o \in t.ops \/ status[o] = "done"
    BY <1>4 DEF Answer, Settle
  <2>4. \A o \in t.ops : form[o].function = "read" <=> t.function = "read"
    BY <2>2 DEF Fits, Covers, SameType
  <2>5. CASE t.function = "read"
    <3>1. got' = [o \in Op |-> IF o \in t.ops THEN Extracted(o, t) ELSE got[o]]
      BY <1>4, <2>5 DEF Answer
    <3>2. UNCHANGED landed
      BY <1>4, <2>5 DEF Answer
    <3>3. \A o \in t.ops : got'[o] = Registers(form[o])
      BY <1>0, <2>2, <2>5, <3>1, ReadGetsOwn
    <3>4. \A o \in Op : o \notin t.ops => got'[o] = got[o]
      BY <3>1
    <3>5. QED
      BY <1>0, <1>3, <1>4, <2>1, <2>3, <2>4, <2>5, <3>2, <3>3, <3>4
         DEF AnswersOwn, Answer
  <2>6. CASE t.function # "read"
    <3>1. landed' = landed \cup Written(t) /\ UNCHANGED got
      BY <1>4, <2>6 DEF Answer
    <3>2. \A o \in t.ops : \A a \in Registers(form[o]) : <<o, a>> \in Written(t)
      BY <1>0, <2>2, <2>6, WriteLandsOwn
    <3>3. QED
      BY <1>0, <1>3, <1>4, <2>1, <2>3, <2>4, <2>6, <3>1, <3>2
         DEF AnswersOwn, Answer
  <2>7. QED
    BY <2>5, <2>6
<1>5. ASSUME NEW t \in wire, CallFails(t) PROVE Good
  <2>1. UNCHANGED <<form, got>> /\ landed \subseteq landed'
    BY <1>5 DEF CallFails, Finished
  <2>2. \A o \in Op : status'[o] = "done" => status[o] = "done"
    BY <1>5 DEF CallFails, Settle
  <2>3. AnswersOwn'
    BY <1>0, <2>1, <2>2 DEF AnswersOwn
  <2>4. QED
    BY <1>3, <1>5, <2>3 DEF CallFails
<1>6. ASSUME NEW r \in Attempt, ConnectFailed(r) PROVE Good
  <2>1. UNCHANGED <<queue, wire, issued, form, got, landed>>
    BY <1>6 DEF ConnectFailed, transVars, deviceVars
  <2>2. \A o \in Op : status'[o] = "done" => status[o] = "done"
    BY <1>6 DEF ConnectFailed, RetryLater, GiveUp, Settle
  <2>3. QED
    BY <1>0, <2>1, <2>2 DEF AllFit, AnswersOwn
<1>7. ASSUME UNCHANGED <<queue, wire, issued, form, status, got, landed>> PROVE Good
  BY <1>0, <1>7 DEF AllFit, AnswersOwn
<1>8. ASSUME NEW r \in Attempt, Redial(r)
      PROVE  UNCHANGED <<queue, wire, issued, form, status, got, landed>>
  BY <1>8 DEF Redial, transVars, requestVars, deviceVars
<1>9. ASSUME CloseSocket \/ Closed \/ Disconnect \/ UNCHANGED vars
      PROVE  UNCHANGED <<queue, wire, issued, form, status, got, landed>>
  BY <1>9 DEF CloseSocket, Closed, Disconnect, vars, transVars, requestVars, deviceVars
<1> HIDE DEF Good
<1>10. Good
  BY <1>1, <1>2, <1>4, <1>5, <1>6, <1>7, <1>8, <1>9 DEF Next, IdleTimeout, Stop
<1>11. QED
  BY <1>0, <1>10 DEF Good, Own

\* A request reported done was served from its own registers, whatever it was
\* combined with, as long as only plain forms neighbour each other (README
\* "Combination").
THEOREM AnswersOwnTheorem == Forms # {} /\ Combinable => (Spec => []AnswersOwn)
<1> SUFFICES ASSUME Forms # {}, Combinable PROVE Spec => []AnswersOwn
  OBVIOUS
<1>1. Init => Own
  <2>1. Init => AnswersOwn
    BY DEF Init, AnswersOwn
  <2>2. QED
    BY <2>1, TypeOKInit DEF Init, Own, AllFit
<1>2. Own => AnswersOwn
  BY DEF Own
<1>3. QED
  BY <1>1, <1>2, OwnStep, PTL DEF Spec
=============================================================================
