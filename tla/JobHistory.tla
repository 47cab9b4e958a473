------------------------------ MODULE JobHistory ------------------------------
(***************************************************************************)
(* What the status record of one AsyncJob promises its readers, without   *)
(* versions, compare-and-swap, retries or replicas: an append-only log    *)
(* (types.ts: "transitions is append-only") whose first entry, the time   *)
(* of submission, may be corrected to an earlier one, and which is reaped *)
(* as a whole when its retention ends.                                    *)
(***************************************************************************)
EXTENDS Naturals, Sequences

CONSTANTS
    State,      \* the lifecycle states, "queued" among them
    Disorder    \* how much earlier an entry may be stamped than one before it

VARIABLE history    \* the job's transitions; << >> while none is recorded

Entry == [state : State, at : Nat, attempt : Nat]

\* Opened by a submission, and in order but for the difference of two clocks.
WellFormed(log) ==
    /\ log \in Seq(Entry)
    /\ log # << >> => log[1].state = "queued" /\ log[1].attempt = 0
    /\ \A i, j \in DOMAIN log : i <= j => log[i].at <= log[j].at + Disorder

Init == history = << >>

\* submit() opens the log, or the handler sees the job before submit() has
\* recorded it and adds its own first entry in the same write.
Open ==
    /\ history = << >>
    /\ \/ Len(history') = 1
       \/ Len(history') = 2 /\ history'[1].at = history'[2].at

Extend ==
    /\ history # << >>
    /\ Len(history') = Len(history) + 1
    /\ \A i \in DOMAIN history : history'[i] = history[i]

\* Only the submission moves, and only to an earlier time.
Correct ==
    /\ history # << >>
    /\ Len(history') = Len(history)
    /\ history'[1].at < history[1].at
    /\ \A i \in DOMAIN history : i > 1 => history'[i] = history[i]

Reap == history # << >> /\ history' = << >>

Next == (Open \/ Extend \/ Correct \/ Reap) /\ WellFormed(history')

Spec == Init /\ [][Next]_history
================================================================================
