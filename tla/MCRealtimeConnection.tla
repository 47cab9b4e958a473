------------------------- MODULE MCRealtimeConnection -------------------------
(* Instances of RealtimeConnection for TLC: a subscription of each of two  *)
(* channels.                                                               *)
EXTENDS RealtimeConnection, TLC

CONSTANTS s1, s2, a, b

TwoOnTwo == (s1 :> a @@ s2 :> b)
===============================================================================
