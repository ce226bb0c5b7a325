----------------------------- MODULE MCServers -----------------------------
(* Two things with one title, on each of the servers. *)
EXTENDS Servers

ToThing == {"lamp-1", "lamp-2"}
ToTitle == [t \in ToThing |-> "lamp"]
ToModelled == {"lamp-1"}

\* The third call makes a name of an unlooked-for suffix; a WebSocketServer gets
\* there with two, when destroy() has freed all names.  What it does with names
\* does not depend on whose the HTTP server is.
ToMaxExposures == [k \in Kind |-> CASE k = "shared" -> 1 [] k = "websocket" -> 2 [] OTHER -> 3]

\* Neither does what it does with events.
ToMaxEvents == [k \in Kind |-> IF k = "websocket" THEN 1 ELSE 2]
=============================================================================
