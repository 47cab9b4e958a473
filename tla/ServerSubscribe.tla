---------------------------- MODULE ServerSubscribe ----------------------------
(***************************************************************************)
(* A server-side subscription of Realtime on AWS and the messages that    *)
(* are published around it (bb-realtime/src/server-subscribe.ts; publish, *)
(* subscribe, getChannel and handleWebSocketEvent of index.aws.ts).  The  *)
(* handler has two sources: the emitter of its own process and a          *)
(* WebSocket.  `live` decides between them.                               *)
(*                                                                         *)
(* The connections table is read through an index that lags behind it.    *)
(* API Gateway delivers what it accepted for a socket in order, until the *)
(* socket closes; it refuses with 410 what is sent to a closed one.       *)
(***************************************************************************)
EXTENDS Naturals, Sequences

CONSTANTS
    Local,              \* messages published by the subscriber's process
    Remote,             \* messages published by other processes
    EarlyUnsubscribe    \* TRUE: unsubscribed before the secret is there

ASSUME SubscribeAssumption ==
    /\ Local \cap Remote = {}
    /\ {"subscribe_success", "error"} \cap (Local \cup Remote) = {}
    /\ EarlyUnsubscribe \in BOOLEAN

Messages == Local \cup Remote

VARIABLES
    sock,           \* the subscription's WebSocket, before and after too
    live,           \* the socket delivers
    listening,      \* the emitter has the handler's listener
    ended,          \* the caller has unsubscribed
    asked,          \* how far the Lambda is with the subscribe frame
    row,            \* the connections table holds <<connection, channel>>
    indexed,        \* ... and what a query of channel-index sees
    wire,           \* frames accepted for the socket, not yet read
    pub,            \* where each publish is
    target,         \* its query returned the connection
    runs,           \* how often the handler ran for each message
    side            \* the side that was to deliver each, "both" if that changed

sockVars == <<sock, live, listening, ended>>
tableVars == <<asked, row, indexed>>
pubVars == <<pub, target>>
serverVars == <<sockVars, tableVars, wire, pubVars, runs, side>>

ServerTypeOK ==
    /\ sock \in {"none", "connecting", "open", "closed"}
    /\ {live, listening, ended, row, indexed} \subseteq BOOLEAN
    /\ asked \in {"no", "sent", "stored", "answered"}
    /\ wire \in Seq(Messages \cup {"subscribe_success", "error"})
    /\ pub \in [Messages -> {"idle", "queried", "posted", "failed", "done", "undelivered"}]
    /\ target \in [Messages -> BOOLEAN]
    /\ runs \in [Messages -> Nat]
    /\ side \in [Messages -> {"none", "emitter", "socket", "both"}]

OnWire(m) == \E i \in 1..Len(wire) : wire[i] = m
Deliver(m) == runs' = [runs EXCEPT ![m] = @ + 1]
Underway(m) == pub[m] \in {"queried", "posted", "failed"} \/ OnWire(m)

\* The subscription starts or stops to be live, or ends.
ChangeSides == side' = [m \in Messages |-> IF Underway(m) THEN "both" ELSE side[m]]

-------------------------------------------------------------------------------
(* publish(): query the index, post to every connection, then emit.        *)

Query(m) ==
    /\ pub[m] = "idle"
    /\ pub' = [pub EXCEPT ![m] = "queried"]
    /\ target' = [target EXCEPT ![m] = indexed]
    /\ side' = [side EXCEPT ![m] = IF live THEN "socket" ELSE "emitter"]
    /\ UNCHANGED <<sockVars, tableVars, wire, runs>>

\* A connection that is gone loses its rows; any other failure is logged.
Post(m) ==
    /\ pub[m] = "queried"
    /\ \/ /\ target[m] => sock = "open"
          /\ wire' = IF target[m] THEN Append(wire, m) ELSE wire
          /\ pub' = [pub EXCEPT ![m] = "posted"]
          /\ UNCHANGED row
       \/ /\ target[m] /\ sock = "closed"
          /\ row' = FALSE
          /\ pub' = [pub EXCEPT ![m] = "failed"]
          /\ UNCHANGED wire
       \/ /\ target[m]
          /\ pub' = [pub EXCEPT ![m] = "failed"]
          /\ UNCHANGED <<wire, row>>
    /\ UNCHANGED <<sockVars, asked, indexed, target, runs, side>>

Publishing(m) == pub[m] \in {"posted", "failed"}

\* Faulty: the listener does not ask whether the socket is live.
EmitToAll(m) ==
    /\ Publishing(m)
    /\ IF m \in Local /\ listening THEN Deliver(m) ELSE UNCHANGED runs
    /\ pub' = [pub EXCEPT ![m] = IF @ = "posted" THEN "done" ELSE "undelivered"]
    /\ UNCHANGED <<sockVars, tableVars, wire, target, side>>

Emit(m) ==
    /\ Publishing(m)
    /\ IF m \in Local /\ listening /\ ~live THEN Deliver(m) ELSE UNCHANGED runs
    /\ pub' = [pub EXCEPT ![m] = IF @ = "posted" THEN "done" ELSE "undelivered"]
    /\ UNCHANGED <<sockVars, tableVars, wire, target, side>>

-------------------------------------------------------------------------------
(* The subscription.                                                       *)

\* subscribe() opens its socket when the token secret has been read.
SecretArrives ==
    /\ sock = "none"
    /\ EarlyUnsubscribe \/ ~ended
    /\ sock' = "connecting"
    /\ UNCHANGED <<live, listening, ended, tableVars, wire, pubVars, runs, side>>

ServerOnOpen ==
    /\ sock = "connecting"
    /\ sock' = "open" /\ asked' = "sent"
    /\ UNCHANGED <<live, listening, ended, row, indexed, wire, pubVars, runs, side>>

\* The Lambda stores the row, then confirms it to the socket.
Store ==
    /\ asked = "sent"
    /\ row' = TRUE /\ asked' = "stored"
    /\ UNCHANGED <<sockVars, indexed, wire, pubVars, runs, side>>

Confirm ==
    /\ asked = "stored"
    /\ asked' = "answered"
    /\ wire' = IF sock = "open" THEN Append(wire, "subscribe_success") ELSE wire
    /\ UNCHANGED <<sockVars, row, indexed, pubVars, runs, side>>

Refuse ==
    /\ asked = "sent"
    /\ asked' = "answered"
    /\ wire' = IF sock = "open" THEN Append(wire, "error") ELSE wire
    /\ UNCHANGED <<sockVars, row, indexed, pubVars, runs, side>>

\* Faulty: frames that arrive before the confirmation are delivered too.
OnMessageEager ==
    /\ sock = "open" /\ wire # <<>>
    /\ wire' = Tail(wire)
    /\ LET frame == Head(wire)
       IN \/ /\ frame = "subscribe_success" /\ live' = TRUE
             /\ ChangeSides /\ UNCHANGED runs
          \/ /\ frame = "error" /\ UNCHANGED <<live, runs, side>>
          \/ /\ frame \in Messages /\ Deliver(frame)
             /\ UNCHANGED <<live, side>>
    /\ UNCHANGED <<sock, listening, ended, tableVars, pubVars>>

OnMessage ==
    /\ sock = "open" /\ wire # <<>>
    /\ wire' = Tail(wire)
    /\ LET frame == Head(wire)
       IN \/ /\ frame = "subscribe_success" /\ live' = TRUE
             /\ ChangeSides /\ UNCHANGED runs
          \/ /\ frame = "error" /\ UNCHANGED <<live, runs, side>>
          \/ /\ frame \in Messages
             /\ IF live THEN Deliver(frame) ELSE UNCHANGED runs
             /\ UNCHANGED <<live, side>>
    /\ UNCHANGED <<sock, listening, ended, tableVars, pubVars>>

\* What was accepted for a socket and not read is lost with it.
ServerOnClose ==
    /\ sock \in {"connecting", "open"}
    /\ sock' = "closed" /\ live' = FALSE /\ wire' = <<>>
    /\ ChangeSides
    /\ UNCHANGED <<listening, ended, tableVars, pubVars, runs>>

\* Faulty: the listener stays on the emitter.
UnsubscribeSocketOnly ==
    /\ ~ended /\ (EarlyUnsubscribe \/ sock # "none")
    /\ ended' = TRUE /\ live' = FALSE /\ wire' = <<>>
    /\ sock' = IF sock = "none" THEN sock ELSE "closed"
    /\ ChangeSides
    /\ UNCHANGED <<listening, tableVars, pubVars, runs>>

ServerUnsubscribe ==
    /\ ~ended /\ (EarlyUnsubscribe \/ sock # "none")
    /\ ended' = TRUE /\ listening' = FALSE /\ live' = FALSE /\ wire' = <<>>
    /\ sock' = IF sock = "none" THEN sock ELSE "closed"
    /\ ChangeSides
    /\ UNCHANGED <<tableVars, pubVars, runs>>

-------------------------------------------------------------------------------
(* The connections table.                                                  *)

\* $disconnect deletes the rows of the connection.
Disconnect ==
    /\ sock = "closed" /\ row
    /\ row' = FALSE
    /\ UNCHANGED <<sockVars, asked, indexed, wire, pubVars, runs, side>>

\* A row lives for CHANNEL_TTL; only pings renew it, and this side sends none.
RowExpires ==
    /\ row /\ row' = FALSE
    /\ UNCHANGED <<sockVars, asked, indexed, wire, pubVars, runs, side>>

IndexCatchesUp ==
    /\ indexed # row /\ indexed' = row
    /\ UNCHANGED <<sockVars, asked, row, wire, pubVars, runs, side>>

-------------------------------------------------------------------------------
\* channel.subscribe() creates the socket at once, subscribe() when it has
\* the secret.
ServerInit ==
    /\ sock \in {"none", "connecting"}
    /\ live = FALSE /\ listening = TRUE /\ ended = FALSE
    /\ asked = "no" /\ row = FALSE /\ indexed = FALSE
    /\ wire = <<>>
    /\ pub = [m \in Messages |-> "idle"]
    /\ target = [m \in Messages |-> FALSE]
    /\ runs = [m \in Messages |-> 0]
    /\ side = [m \in Messages |-> "none"]

ServerNext ==
    \/ \E m \in Messages : Query(m) \/ Post(m) \/ Emit(m)
    \/ SecretArrives \/ ServerOnOpen \/ Store \/ Confirm \/ Refuse
    \/ OnMessage \/ ServerOnClose \/ ServerUnsubscribe
    \/ Disconnect \/ RowExpires \/ IndexCatchesUp

ServerSpec == ServerInit /\ [][ServerNext]_serverVars

-------------------------------------------------------------------------------
(* Properties.                                                             *)

Finished(m) == pub[m] \in {"done", "undelivered"} /\ ~OnWire(m)

\* A message of the subscriber's own process reaches the handler exactly once,
\* whatever other publishes and the table do meanwhile, if the subscription did
\* not change sides while it was on its way: always through the emitter; through
\* the socket if the query saw the connection and API Gateway took the frame.
OnceWhenSteady ==
    \A m \in Local :
        /\ Finished(m) /\ ~ended
        /\ \/ side[m] = "emitter"
           \/ side[m] = "socket" /\ target[m] /\ pub[m] = "done"
        => runs[m] = 1

\* A message runs the handler twice only when the subscription changed sides
\* under it, and no message ever runs it three times.
TwiceOnlyAtHandover ==
    \A m \in Messages :
        /\ runs[m] <= 2
        /\ runs[m] = 2 => m \in Local /\ side[m] = "both"

\* Once the caller has unsubscribed the handler never runs again.
SilentAfterUnsubscribe == [][ended => UNCHANGED runs]_serverVars

\* A message published while the subscription is live, or before it is, still
\* reaches the handler if API Gateway takes it ("Overall delivery is still
\* at-least-once", DESIGN.md:90).
AtLeastOnce ==
    \A m \in Local : Finished(m) /\ pub[m] = "done" /\ ~ended /\ sock # "closed" => runs[m] >= 1
===============================================================================
