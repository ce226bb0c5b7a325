--------------------------- MODULE MCHttpClient ---------------------------
(* Calls for checking HttpClient with TLC. *)
EXTENDS HttpClient

BothSchemes == {"oauth2", "TuyaCredential"}
=============================================================================
