----------------------------- MODULE MCGsiManager -----------------------------
(* Instances of GsiManager for TLC. *)
EXTENDS GsiManager
===============================================================================
