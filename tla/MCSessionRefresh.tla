--------------------------- MODULE MCSessionRefresh ---------------------------
(* Instances of SessionRefresh for TLC.  Two requests meet in one container or *)
(* in two; a third can only repeat what one of them did.                       *)
EXTENDS SessionRefresh
================================================================================
