----------------------------- MODULE MCAuthBasic ------------------------------
(* Instances of AuthBasic for TLC: requests are interchangeable. *)
EXTENDS AuthBasic, TLC

RequestSymmetry == Permutations(Requests)
===============================================================================
