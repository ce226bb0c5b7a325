---------------------------- MODULE MCServient ----------------------------
(* Things for checking Servient with TLC. *)
EXTENDS Servient, TLC

CONSTANTS a, b

\* "lamp" and "lamp_3": what either is renamed to is not a path of the other.
OwnSlugs  == a :> <<"lamp", NoNumber>> @@ b :> <<"lamp", 3>>
SameSlugs == a :> <<"lamp", NoNumber>> @@ b :> <<"lamp", NoNumber>>
=============================================================================
