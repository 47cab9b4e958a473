----------------------------- MODULE AtLeastOnce ------------------------------
(***************************************************************************)
(* What AsyncJob promises of a submitted message, whichever compute runs  *)
(* its handler: it is taken off the queue by an attempt that ran the      *)
(* handler to the end, or given up after MAX_RETRIES attempts, and never  *)
(* otherwise (index.aws.ts: "Delete-on-success only ... at-least-once,    *)
(* matching the Lambda path").  An attempt that dies after its handler    *)
(* ended leaves the message where it was.                                 *)
(***************************************************************************)
EXTENDS Naturals

CONSTANTS Messages, MAX_RETRIES

VARIABLES
    outcome,    \* "pending", then "deleted" or "dead"
    attempts,   \* how often each message was handed out
    finishing   \* messages with a live attempt whose handler has ended well

aloVars == <<outcome, attempts, finishing>>

Init ==
    /\ outcome = [m \in Messages |-> "pending"]
    /\ attempts = [m \in Messages |-> 0]
    /\ finishing = {}

\* One poll may hand out several messages.
Attempt(S) ==
    /\ \A m \in S : outcome[m] = "pending" /\ attempts[m] < MAX_RETRIES
    /\ attempts' = [m \in Messages |-> IF m \in S THEN attempts[m] + 1 ELSE attempts[m]]
    /\ UNCHANGED <<outcome, finishing>>

Finish(m) ==
    /\ attempts[m] > 0
    /\ finishing' = finishing \cup {m}
    /\ UNCHANGED <<outcome, attempts>>

\* Attempts die or are settled: a timeout, a crash, a kill.
Drop(S) ==
    /\ finishing' = finishing \ S
    /\ UNCHANGED <<outcome, attempts>>

Delete(m) ==
    /\ m \in finishing
    /\ outcome[m] = "pending"
    /\ outcome' = [outcome EXCEPT ![m] = "deleted"]
    /\ finishing' \in {finishing, finishing \ {m}}
    /\ UNCHANGED attempts

GiveUp(m) ==
    /\ outcome[m] = "pending"
    /\ attempts[m] = MAX_RETRIES
    /\ outcome' = [outcome EXCEPT ![m] = "dead"]
    /\ UNCHANGED <<attempts, finishing>>

Next ==
    \/ \E S \in SUBSET Messages : Attempt(S) \/ Drop(S)
    \/ \E m \in Messages : Finish(m) \/ Delete(m) \/ GiveUp(m)

Spec == Init /\ [][Next]_aloVars
================================================================================
