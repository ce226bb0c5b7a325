---------------------------- MODULE Subscription ----------------------------
(***************************************************************************)
(* What a script may expect of observeProperty() and subscribeEvent(): a   *)
(* subscription that is on tells newer and newer values, one that is over  *)
(* stays over and is quiet, and the promise of the call is settled once,   *)
(* at the latest with the first value.                                     *)
(***************************************************************************)
EXTENDS Integers, Sequences

CONSTANT Call

VARIABLES
    phase,     \* by call, "off", "on" or "over"
    received,  \* the values its listener has been called with
    promise    \* "idle", "pending", "resolved" or "rejected"

vars == <<phase, received, promise>>

Settled == {"resolved", "rejected"}

Init ==
    /\ phase = [c \in Call |-> "off"]
    /\ received = [c \in Call |-> <<>>]
    /\ promise = [c \in Call |-> "idle"]

Newer(seq, v) == \A i \in DOMAIN seq : seq[i] < v

Tells(c) ==
    LET now == received'[c] IN
    /\ phase[c] = "on" /\ promise'[c] \in Settled
    /\ now = Append(received[c], now[Len(now)]) /\ Newer(received[c], now[Len(now)])

PhaseMoves(c) ==
    \/ phase'[c] = phase[c]
    \/ phase[c] = "off" /\ phase'[c] \in {"on", "over"}
    \/ phase[c] = "on" /\ phase'[c] = "over"

PromiseMoves(c) ==
    \/ promise'[c] = promise[c]
    \/ promise[c] = "idle"
    \/ promise[c] = "pending" /\ promise'[c] \in Settled

Next == \A c \in Call :
    /\ PhaseMoves(c) /\ PromiseMoves(c)
    /\ received'[c] = received[c] \/ Tells(c)

Spec == Init /\ [][Next]_vars
=============================================================================
