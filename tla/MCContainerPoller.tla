--------------------------- MODULE MCContainerPoller --------------------------
(* Instances of ContainerPoller for TLC. *)
EXTENDS ContainerPoller
================================================================================
