------------------------- MODULE ModbusConnection -------------------------
(***************************************************************************)
(* One ModbusConnection of binding-modbus: PropertyOperations are queued,  *)
(* neighbouring ones are joined into one ModbusTransaction, and trigger()  *)
(* either dials the device or starts the next transaction.  Node runs one  *)
(* callback at a time, so an action is everything the code does between    *)
(* two awaits; the interleavings are those of the pending connects,        *)
(* back-off timers, client calls, the idle timer and the socket.           *)
(*                                                                         *)
(* Data is abstract: a register is its address, and the value a request    *)
(* puts into a register is the pair <<request, address>> it is meant for.  *)
(***************************************************************************)
EXTENDS Integers, Sequences, FiniteSets

SX == INSTANCE SequencesExt

CONSTANTS
    Forms,      \* the forms requests are made with: [unit, entity, function, little, base, length]
    MaxOps,     \* bound: number of requests made in a behaviour
    maxRetries  \* config.maxRetries

Entity   == {"Coil", "HoldingRegister"}
Function == {"read", "single", "multiple"}      \* 1-4, 5 and 6, 15 and 16

ASSUME BoundsAssumption == MaxOps \in Nat /\ maxRetries \in Nat \ {0}
ASSUME FormsAssumption ==
    \A f \in Forms : /\ f.entity \in Entity
                     /\ f.function \in Function
                     /\ f.little \in BOOLEAN
                     /\ f.base \in Nat
                     /\ f.length \in Nat \ {0}

Op      == 1..MaxOps
Attempt == 0..(maxRetries - 1)
Status  == {"new", "pending", "done", "failed"}

VARIABLES
    isOpen,      \* client.isOpen: the socket is usable
    connecting,  \* the flag of the same name
    closing,     \* client.close() was called and its callback is still to come
    timer,       \* the connection idle timer is armed
    dialing,     \* dialing[r]: connect() loops inside connectTCP of attempt r
    backoff,     \* backoff[r]: connect() loops sleeping after attempt r failed
    queue,       \* the transactions that wait
    busy,        \* currentTransaction # null, the only thing the code asks of it
    wire,        \* transactions inside a client call: sent, not answered
    issued,      \* number of requests made so far
    form,        \* the form of each request made
    status,      \* what the promise of each request says
    got,         \* registers whose contents a read was resolved with
    landed       \* <<o, a>>: the value o wanted in register a was written to a

socketVars  == <<isOpen, connecting, closing>>
dialVars    == <<dialing, backoff>>
transVars   == <<queue, busy, wire, timer>>
requestVars == <<issued, form, status>>
deviceVars  == <<got, landed>>
vars == <<socketVars, dialVars, transVars, requestVars, deviceVars>>

----------------------------------------------------------------------------
(* Requests and transactions *)

Registers(x) == x.base .. (x.base + x.length - 1)

\* The values of a request in the byte order of its form.
Content(o, f) ==
    LET values == [i \in 1..f.length |-> <<o, f.base + i - 1>>]
    IN  IF f.function = "read" THEN <<>>
        ELSE IF f.little THEN SX!Reverse(values) ELSE values

\* ModbusTransaction of one operation.
Transaction(o, f) ==
    [unit |-> f.unit, entity |-> f.entity, function |-> f.function,
     little |-> f.little, base |-> f.base, length |-> f.length,
     content |-> Content(o, f), ops |-> {o}]

\* "same type": neither the function nor the byte order is compared.
SameType(f, t) ==
    /\ f.unit = t.unit
    /\ f.entity = t.entity
    /\ (f.function = "read") <=> (t.function = "read")

Appends(f, t)  == SameType(f, t) /\ f.base = t.base + t.length
Prepends(f, t) == SameType(f, t) /\ f.base + f.length = t.base
Joins(f, t)    == Appends(f, t) \/ Prepends(f, t)

\* MUTANT of Join: a prepended request's values are put behind the others.
JoinContentBehind(t, o, f) ==
    [t EXCEPT !.base    = IF Appends(f, t) THEN @ ELSE f.base,
              !.length  = @ + f.length,
              !.content = @ \o Content(o, f),
              !.ops     = @ \cup {o}]

\* MUTANT of Join: the length is only extended at the end of the range.
JoinPrependedShort(t, o, f) ==
    [t EXCEPT !.base    = IF Appends(f, t) THEN @ ELSE f.base,
              !.length  = IF Appends(f, t) THEN @ + f.length ELSE @,
              !.content = IF Appends(f, t) THEN @ \o Content(o, f)
                                           ELSE Content(o, f) \o @,
              !.ops     = @ \cup {o}]

\* Appending is tried before prepending.
Join(t, o, f) ==
    [t EXCEPT !.base    = IF Appends(f, t) THEN @ ELSE f.base,
              !.length  = @ + f.length,
              !.content = IF Appends(f, t) THEN @ \o Content(o, f)
                                           ELSE Content(o, f) \o @,
              !.ops     = @ \cup {o}]

QueuedOps == UNION {queue[i].ops : i \in DOMAIN queue}

\* A promise keeps its first outcome.
Settle(os, outcome) ==
    [o \in Op |-> IF o \in os /\ status[o] = "pending" THEN outcome ELSE status[o]]

----------------------------------------------------------------------------
(* What the device gets and answers *)

\* contentConversion() reverses the registers of the whole transaction.
SentContent(t) ==
    IF t.entity = "HoldingRegister" /\ t.little THEN SX!Reverse(t.content) ELSE t.content

\* Functions 5 and 6 write one value whatever the transaction holds.
Written(t) ==
    LET sent == SentContent(t)
        n    == IF t.function = "single" THEN 1 ELSE Len(sent)
    IN  {v \in Op \X UNION {Registers(form[o]) : o \in t.ops} :
            \E i \in 1..n : v = sent[i] /\ v[2] = t.base + i - 1}

\* A reply to a register read: one register per element.
RegisterReply(t) ==
    LET reply == [i \in 1..t.length |-> t.base + i - 1]
    IN  IF t.little THEN SX!Reverse(reply) ELSE reply

\* Registers the k-th byte of a coil reply tells of: eight to a byte.
CoilByte(t, k) == {a \in Registers(t) : (a - t.base) \div 8 = k}
CoilBytes(t) == (t.length + 7) \div 8
CoilReply(t, k) == CoilByte(t, IF t.little THEN CoilBytes(t) - 1 - k ELSE k)

\* done(): the part of the reply a read request is resolved with.  For coils
\* it is buffer.slice(offset, length), an end that ignores the offset.
Extracted(o, t) ==
    LET f      == form[o]
        offset == f.base - t.base
    IN  IF t.entity = "Coil"
        THEN UNION {CoilReply(t, k) : k \in {j \in 0..(CoilBytes(t) - 1) :
                                                offset <= j /\ j < f.length}}
        ELSE LET reply == RegisterReply(t)
             IN  {reply[i] : i \in (offset + 1)..(offset + f.length) \cap DOMAIN reply}

----------------------------------------------------------------------------
Init ==
    /\ isOpen = FALSE /\ connecting = FALSE /\ closing = FALSE
    /\ timer = FALSE
    /\ dialing = [r \in Attempt |-> 0]
    /\ backoff = [r \in Attempt |-> 0]
    /\ queue = <<>> /\ busy = FALSE /\ wire = {}
    /\ issued = 0
    /\ form = [o \in Op |-> CHOOSE f \in Forms : TRUE]
    /\ status = [o \in Op |-> "new"]
    /\ got = [o \in Op |-> {}]
    /\ landed = {}

\* trigger() when open, conn, ... are the values it finds: connect, start the
\* next transaction, or nothing.  Starting one re-arms the idle timer and hands
\* the call to the client before the first await.
Dial(d) == [d EXCEPT ![0] = @ + 1]

Start(q, b, w) ==
    /\ queue' = Tail(q)
    /\ busy' = TRUE
    /\ wire' = w \cup {Head(q)}
    /\ timer' = TRUE

Rest(q, b, w) == queue' = q /\ busy' = b /\ wire' = w /\ UNCHANGED timer

\* MUTANT of Trigger: a transaction is started while another one is in flight.
TriggerUnguarded(open, conn, dials, q, b, w) ==
    \/ /\ ~conn /\ ~open
       /\ connecting' = TRUE /\ dialing' = Dial(dials)
       /\ Rest(q, b, w)
    \/ /\ open /\ q # <<>>
       /\ connecting' = conn /\ dialing' = dials
       /\ Start(q, b, w)
    \/ /\ IF open THEN q = <<>> ELSE conn
       /\ connecting' = conn /\ dialing' = dials
       /\ Rest(q, b, w)

Trigger(open, conn, dials, q, b, w) ==
    \/ /\ ~conn /\ ~open
       /\ connecting' = TRUE /\ dialing' = Dial(dials)
       /\ Rest(q, b, w)
    \/ /\ open /\ ~b /\ q # <<>>
       /\ connecting' = conn /\ dialing' = dials
       /\ Start(q, b, w)
    \/ /\ IF open THEN b \/ q = <<>> ELSE conn
       /\ connecting' = conn /\ dialing' = dials
       /\ Rest(q, b, w)

FirstJoinable(f) ==
    {i \in DOMAIN queue : Joins(f, queue[i]) /\ \A j \in 1..(i - 1) : ~Joins(f, queue[j])}

\* MUTANT of Enqueued: a new transaction goes to the front.
EnqueuedFirst(o, f) ==
    IF \A i \in DOMAIN queue : ~Joins(f, queue[i])
    THEN {<<Transaction(o, f)>> \o queue}
    ELSE {[queue EXCEPT ![i] = Join(@, o, f)] : i \in FirstJoinable(f)}

\* The queue after enqueue(op), as a one-element set: the first transaction that
\* can take the operation takes it, otherwise it gets one of its own.
Enqueued(o, f) ==
    IF \A i \in DOMAIN queue : ~Joins(f, queue[i])
    THEN {Append(queue, Transaction(o, f))}
    ELSE {[queue EXCEPT ![i] = Join(@, o, f)] : i \in FirstJoinable(f)}

\* performOperation(): enqueue the operation and trigger its transaction.
Request(f) ==
    LET o == issued + 1
    IN  /\ issued < MaxOps
        /\ issued' = o
        /\ form' = [form EXCEPT ![o] = f]
        /\ status' = [status EXCEPT ![o] = "pending"]
        /\ \E q \in Enqueued(o, f) : Trigger(isOpen, connecting, dialing, q, busy, wire)
        /\ UNCHANGED <<isOpen, closing, backoff, deviceVars>>

----------------------------------------------------------------------------
(* connect() *)

ConnectDone(r) ==
    /\ dialing[r] > 0
    /\ isOpen' = TRUE
    /\ Trigger(TRUE, FALSE, [dialing EXCEPT ![r] = @ - 1], queue, busy, wire)
    /\ UNCHANGED <<closing, backoff, requestVars, deviceVars>>

\* connectTCP failed: sleep, or give up and fail all that is queued.  The queue
\* itself is not emptied.
RetryLater(r) ==
    /\ r < maxRetries - 1
    /\ backoff' = [backoff EXCEPT ![r] = @ + 1]
    /\ UNCHANGED status

\* MUTANT of GiveUp: the queued operations are not told.
GiveUpSilently(r) ==
    /\ r = maxRetries - 1
    /\ UNCHANGED <<backoff, status>>

GiveUp(r) ==
    /\ r = maxRetries - 1
    /\ status' = Settle(QueuedOps, "failed")
    /\ UNCHANGED backoff

ConnectFailed(r) ==
    /\ dialing[r] > 0
    /\ dialing' = [dialing EXCEPT ![r] = @ - 1]
    /\ connecting' = FALSE
    /\ RetryLater(r) \/ GiveUp(r)
    /\ UNCHANGED <<isOpen, closing, transVars, issued, form, deviceVars>>

\* The sleep is over: connectTCP again, without setting "connecting".
Redial(r) ==
    /\ backoff[r] > 0
    /\ backoff' = [backoff EXCEPT ![r] = @ - 1]
    /\ dialing' = [dialing EXCEPT ![r + 1] = @ + 1]
    /\ UNCHANGED <<socketVars, transVars, requestVars, deviceVars>>

----------------------------------------------------------------------------
(* ModbusTransaction.execute() *)

\* MUTANT of Finished: the connection is not triggered again.
FinishedSilently(t) ==
    /\ Rest(queue, FALSE, wire \ {t})
    /\ UNCHANGED <<socketVars, dialVars, issued, form>>

\* A call ends: the operations are told, currentTransaction is reset, trigger().
Finished(t) ==
    /\ Trigger(isOpen, connecting, dialing, queue, FALSE, wire \ {t})
    /\ UNCHANGED <<isOpen, closing, backoff, issued, form>>

Answer(t) ==
    /\ status' = Settle(t.ops, "done")
    /\ IF t.function = "read"
       THEN /\ got' = [o \in Op |-> IF o \in t.ops THEN Extracted(o, t) ELSE got[o]]
            /\ UNCHANGED landed
       ELSE landed' = landed \cup Written(t) /\ UNCHANGED got
    /\ Finished(t)

\* The call times out or the device refuses it; a write may have been applied.
CallFails(t) ==
    /\ status' = Settle(t.ops, "failed")
    /\ landed' \in {landed, landed \cup Written(t)}
    /\ UNCHANGED got
    /\ Finished(t)

----------------------------------------------------------------------------
(* Closing *)

\* modbusstop(), from the idle timer or from ModbusClient.stop().
CloseSocket ==
    /\ closing' = TRUE
    /\ timer' = FALSE
    /\ UNCHANGED <<isOpen, connecting, dialVars, queue, busy, wire, requestVars, deviceVars>>

IdleTimeout == timer /\ CloseSocket
Stop == CloseSocket

\* The callback of client.close(), with and without an error.
Closed ==
    /\ closing
    /\ closing' = FALSE
    /\ \/ isOpen' = FALSE /\ connecting' = FALSE
       \/ UNCHANGED <<isOpen, connecting>>
    /\ UNCHANGED <<dialVars, transVars, requestVars, deviceVars>>

\* The device or the network drops the connection.
Disconnect ==
    /\ isOpen
    /\ isOpen' = FALSE
    /\ UNCHANGED <<connecting, closing, dialVars, transVars, requestVars, deviceVars>>

----------------------------------------------------------------------------
Next ==
    \/ \E f \in Forms : Request(f)
    \/ \E r \in Attempt : ConnectDone(r)
    \/ \E r \in Attempt : ConnectFailed(r)
    \/ \E r \in Attempt : Redial(r)
    \/ \E t \in wire : Answer(t)
    \/ \E t \in wire : CallFails(t)
    \/ IdleTimeout
    \/ Stop
    \/ Closed
    \/ Disconnect

Spec == Init /\ [][Next]_vars

\* The platform guarantees that connectTCP ends, timers fire, and every call
\* ends, because connect() sets client.setTimeout(connectionTimeout).  It is
\* enough that some connect loop goes on and some call ends.  Nothing makes the
\* user, the idle timer or the network act.
Fairness ==
    /\ WF_vars(\E r \in Attempt : ConnectDone(r) \/ ConnectFailed(r) \/ Redial(r))
    /\ WF_vars(\E t \in wire : Answer(t) \/ CallFails(t))

FairSpec == Spec /\ Fairness

----------------------------------------------------------------------------
(* Properties *)

\* A transaction that writes has one value for each register it covers.
TransactionType ==
    {t \in [unit : {f.unit : f \in Forms}, entity : Entity, function : Function,
            little : BOOLEAN, base : Int, length : Nat \ {0}, content : Seq(Op \X Nat),
            ops : SUBSET Op] :
        Len(t.content) = IF t.function = "read" THEN 0 ELSE t.length}

\* The type invariant of the connection: above all, range and values of a
\* transaction still fit each other after any number of requests were put in
\* front and behind (modbus-connection.ts:15-24, 58-82).
TypeOK ==
    /\ isOpen \in BOOLEAN /\ connecting \in BOOLEAN /\ closing \in BOOLEAN
    /\ timer \in BOOLEAN /\ busy \in BOOLEAN
    /\ dialing \in [Attempt -> Nat] /\ backoff \in [Attempt -> Nat]
    /\ queue \in Seq(TransactionType)
    /\ wire \subseteq TransactionType
    /\ issued \in 0..MaxOps
    /\ form \in [Op -> Forms]
    /\ status \in [Op -> Status]
    /\ got \in [Op -> SUBSET Int]
    /\ landed \subseteq Op \X Nat

\* README "Serialization": a transaction is only started when the previous one
\* has finished, however many trigger() calls, connect loops and closed sockets
\* are about (modbus-connection.ts:142-153).
Serialized == \A t, u \in wire : t = u

\* No request is forgotten: one that has no outcome yet is in the call in
\* flight, or it is queued and something that will trigger the connection is
\* running: a call in flight or a connect loop (modbus-connection.ts:125-155).
Dialling == \E r \in Attempt : dialing[r] > 0 \/ backoff[r] > 0

NoStranded ==
    \A o \in Op : status[o] = "pending" =>
        \/ \E t \in wire : o \in t.ops
        \/ o \in QueuedOps /\ (busy \/ Dialling)

\* A request reported done was served in full from its own registers, whatever
\* it was combined with: a read got exactly them, a write put its values into
\* each of them (README "Combination"; modbus-connection.ts:52-91, 410-441).
AnswersOwn ==
    \A o \in Op : status[o] = "done" =>
        IF form[o].function = "read"
        THEN got[o] = Registers(form[o])
        ELSE \A a \in Registers(form[o]) : <<o, a>> \in landed

\* README "Serialization": transactions start in the order they were made, so
\* the oldest request of one that starts is older than every request that stays
\* queued in a transaction of its own (modbus-connection.ts:142-144).
Oldest(t) == CHOOSE o \in t.ops : \A p \in t.ops : o <= p

FirstComeFirstServed ==
    [][\A t \in wire' \ wire : \A i \in DOMAIN queue' : Oldest(t) < Oldest(queue'[i])]_vars

\* Every request gets an outcome: its promise is resolved or rejected, through
\* lost connections, failed calls and an idle timer that fires during a call
\* (modbus-connection.ts:125-155, 324-357).  Requests are bounded by MaxOps, so
\* it is enough that again and again nothing is pending.
EveryRequestSettles == []<>(\A o \in Op : status[o] # "pending")

\* A request its user was told had failed for want of a connection is not sent
\* to the device any more (modbus-connection.ts:134-140).
FailedNotSent == [][\A t \in wire' \ wire : \A o \in t.ops : status[o] # "failed"]_vars
=============================================================================
