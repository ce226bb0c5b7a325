---------------------------- MODULE ExposedThing ----------------------------
(***************************************************************************)
(* An ExposedThing with one property and one event: the value of the       *)
(* property, the subjects that tell of its changes and of the event, and   *)
(* the listeners that observeProperty() and subscribeEvent() add to them.  *)
(* The operations are written for the modules of the servers that call     *)
(* them.  A listener that throws leaves its subject, the listeners behind  *)
(* it are not told, and the exception reaches the caller of next(), as     *)
(* rxjs 5 does it.                                                         *)
(***************************************************************************)
EXTENDS Integers, Sequences

CONSTANTS
    Value,     \* what the property may be set to and what events may carry
    Bad,       \* the value that no codec can convert to bytes
    Initial,   \* the value the script gives the property before expose()
    Listener   \* those who may observe or subscribe

ASSUME ValueAssumption == Value \subseteq Nat /\ Initial \in Value /\ Bad \in Value /\ Initial # Bad

VARIABLES
    value,      \* PropertyState.value
    changes,    \* what the subject of the property was called with, in order
    observers,  \* its listeners, in the order of observeProperty()
    events,     \* what the subject of the event was called with, in order
    subscribers,\* its listeners
    completed   \* destroy() has completed both subjects

propertyVars == <<value, changes, observers>>
eventVars    == <<events, subscribers>>
thingVars    == <<propertyVars, eventVars, completed>>

ThingTypeOK ==
    /\ value \in Value
    /\ changes \in Seq(Value) /\ events \in Seq(Value)
    /\ observers \in Seq(Listener) /\ subscribers \in Seq(Listener)
    /\ completed \in BOOLEAN

ThingInit ==
    /\ value = Initial
    /\ changes = <<>> /\ observers = <<>>
    /\ events = <<>> /\ subscribers = <<>>
    /\ completed = FALSE

NotifiesAlways(v) == ~completed

\* The subject of the property is called: the value differs from the stored one.
Notifies(v) == v # value /\ ~completed

\* The listeners that are left when the first one may throw.
LeftBehind(listeners, throws) ==
    IF throws /\ listeners # <<>> THEN Tail(listeners) ELSE listeners

\* A write, once it is known which value is stored: the value of the caller
\* or the one the write handler gave.
Store(v, throws) ==
    /\ value' = v
    /\ changes' = IF Notifies(v) THEN Append(changes, v) ELSE changes
    /\ observers' = LeftBehind(observers, throws /\ Notifies(v))
    /\ UNCHANGED <<eventVars, completed>>

\* Subject.next() is without effect once the subject has completed.
EmitEvent(data, throws) ==
    /\ events' = IF completed THEN events ELSE Append(events, data)
    /\ subscribers' = LeftBehind(subscribers, throws)
    /\ UNCHANGED <<propertyVars, completed>>

\* The promises of these two are never settled when the interaction exists.
ObserveProperty(l) ==
    /\ observers' = IF completed THEN observers ELSE Append(observers, l)
    /\ UNCHANGED <<value, changes, eventVars, completed>>

SubscribeEvent(l) ==
    /\ subscribers' = IF completed THEN subscribers ELSE Append(subscribers, l)
    /\ UNCHANGED <<events, propertyVars, completed>>

\* unobserveProperty() and unsubscribeEvent() look the subject up and no more.
Unsubscribe == UNCHANGED thingVars

CompleteSubjects ==
    /\ completed' = TRUE
    /\ observers' = <<>> /\ subscribers' = <<>>
    /\ UNCHANGED <<value, changes, events>>

\* The values a write may store, by the handler the script has set: the
\* caller's value without one or when the handler returns nothing, else
\* whatever the handler returns.
StoredBy(handler, v) == IF handler = "none" THEN {v} ELSE Value
=============================================================================
