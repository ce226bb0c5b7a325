----------------------------- MODULE MCSessions -----------------------------
(* Three requests of one client, one of which is an OPC UA invocation with a
   method the client does not know. *)
EXTENDS Sessions

ToRequest == 1..3
ToKind == {"opcua", "netconf"}
ToOtherMethod == {3}
ToIdentity == {"none", "password", "key"}
=============================================================================
