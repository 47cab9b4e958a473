-------------------------- MODULE MCJobStatusTracker --------------------------
(* Instances of JobStatusTracker for TLC. *)
EXTENDS JobStatusTracker, TLC

WriterSymmetry == Permutations(Writers)
================================================================================
