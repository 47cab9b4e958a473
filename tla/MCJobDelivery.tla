---------------------------- MODULE MCJobDelivery -----------------------------
(* Instances of JobDelivery for TLC: delivery d is the d-th receive. *)
EXTENDS JobDelivery

MCWriters == 1..MAX_RETRIES
================================================================================
