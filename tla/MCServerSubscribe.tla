--------------------------- MODULE MCServerSubscribe --------------------------
(* Instances of ServerSubscribe for TLC. *)
EXTENDS ServerSubscribe
===============================================================================
