-------------------------- MODULE OnDemandSession --------------------------
(***************************************************************************)
(* What a client that opens its session with the first request promises:   *)
(* a request is carried out over one session, which was open by then, and  *)
(* it has one outcome, which is a success only if it was carried out.      *)
(* Silent requests ask for nothing that a session carries out: they are    *)
(* not sent, but a session is opened for them before they succeed.         *)
(***************************************************************************)
CONSTANTS Request, NoSession

VARIABLES
    silent,  \* requests that are not sent
    opened,  \* sessions that have been opened so far
    used,    \* by request, the session it was sent over
    outcome  \* by request, "none", "done" or "failed"

vars == <<silent, opened, used, outcome>>

Init ==
    /\ silent \subseteq Request /\ opened = {}
    /\ used = [r \in Request |-> NoSession]
    /\ outcome = [r \in Request |-> "none"]

UsedMoves(r) ==
    \/ used'[r] = used[r]
    \/ used[r] = NoSession /\ used'[r] \in opened' /\ outcome[r] = "none"
         /\ r \notin silent

OutcomeMoves(r) ==
    \/ outcome'[r] = outcome[r]
    \/ outcome[r] = "none" /\ outcome'[r] = "failed"
    \/ outcome[r] = "none" /\ outcome'[r] = "done" /\ used[r] # NoSession
    \/ outcome[r] = "none" /\ outcome'[r] = "done" /\ r \in silent /\ opened' # {}

Next ==
    /\ UNCHANGED silent /\ opened \subseteq opened'
    /\ \A r \in Request : UsedMoves(r) /\ OutcomeMoves(r)

Spec == Init /\ [][Next]_vars
=============================================================================
