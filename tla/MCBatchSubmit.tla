---------------------------- MODULE MCBatchSubmit -----------------------------
(* The instance of BatchSubmit for TLC: bodies of one, two and four bytes and a *)
(* limit of three, lists one longer than MAX_BATCH_PAYLOADS, so that both       *)
(* refusals and both ways of filling a request happen.                          *)
EXTENDS BatchSubmit
===============================================================================
