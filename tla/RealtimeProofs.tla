----------------------------- MODULE RealtimeProofs -----------------------------
(***************************************************************************)
(* Theorems about the two ends of Realtime: ServerSubscribe, for any      *)
(* messages of the subscriber's own process and of others, and            *)
(* RealtimeConnection, for any subscriptions, channels and endpoints and  *)
(* any number of reconnect attempts.                                      *)
(***************************************************************************)
EXTENDS RealtimeConnection, ServerSubscribe, TLAPS

-------------------------------------------------------------------------------
(* The server side: the invariant.                                         *)

Frame == Messages \cup {"subscribe_success", "error"}

\* The emitter has had its turn with m; the socket has had its turn.
Emitted(m) == pub[m] \in {"done", "undelivered"}
Taken(m) == pub[m] \in {"posted", "done"} /\ target[m] /\ ~OnWire(m)
Once(P) == IF P THEN 1 ELSE 0

\* A message is on its way through the socket once, and only if it was posted.
WireInv ==
    /\ \A i, j \in 1..Len(wire) : wire[i] = wire[j] /\ wire[i] \in Messages => i = j
    /\ \A m \in Messages : OnWire(m) => target[m] /\ pub[m] \in {"posted", "done"}

\* While a message is under way its side is what the subscription is.
SideInv ==
    \A m \in Messages :
        /\ pub[m] = "idle" <=> side[m] = "none"
        /\ Underway(m) /\ side[m] = "emitter" => ~live
        /\ Underway(m) /\ side[m] = "socket" => live

\* Either side runs the handler at most once, and one that the subscription stays
\* on does so as soon as it has had its turn.
RunsInv ==
    \A m \in Messages :
        /\ runs[m] <= Once(m \in Local /\ Emitted(m)) + Once(Taken(m))
        /\ side[m] = "emitter" => runs[m] <= Once(m \in Local /\ Emitted(m))
        /\ side[m] = "emitter" /\ m \in Local /\ ~ended => runs[m] = Once(Emitted(m))
        /\ side[m] = "socket" => runs[m] = Once(Taken(m))

\* Who has unsubscribed has no listener, and no socket that is not closed.
EndInv ==
    /\ ended <=> ~listening
    /\ ended /\ ~EarlyUnsubscribe => sock = "closed"

HandoverInv == ServerTypeOK /\ WireInv /\ SideInv /\ RunsInv /\ EndInv

-------------------------------------------------------------------------------
(* Frames on the wire.                                                     *)

\* A frame that is appended is on the wire, with what was there before.
LEMMA WireAppends ==
    ASSUME NEW w \in Seq(Frame), NEW f \in Frame
    PROVE  /\ Append(w, f) \in Seq(Frame)
           /\ Len(Append(w, f)) = Len(w) + 1
           /\ \A i \in 1..Len(w) : Append(w, f)[i] = w[i]
           /\ Append(w, f)[Len(w) + 1] = f
OBVIOUS

\* A frame that is read is the first of the wire.
LEMMA WireReads ==
    ASSUME NEW w \in Seq(Frame), w # << >>
    PROVE  /\ Tail(w) \in Seq(Frame) /\ Head(w) \in Frame
           /\ Len(w) >= 1 /\ Head(w) = w[1]
           /\ Len(Tail(w)) = Len(w) - 1
           /\ \A i \in 1..(Len(w) - 1) : Tail(w)[i] = w[i + 1]
OBVIOUS

LEMMA AppendStep ==
    ASSUME HandoverInv, NEW f \in Frame, wire' = Append(wire, f)
    PROVE  /\ \A m \in Messages : OnWire(m)' <=> OnWire(m) \/ m = f
           /\ (f \in Messages => ~OnWire(f)) =>
                 \A i, j \in 1..Len(wire') : wire'[i] = wire'[j] /\ wire'[i] \in Messages => i = j
<1>1. wire \in Seq(Frame) /\ Len(wire) \in Nat
  BY DEF HandoverInv, ServerTypeOK, Frame
<1>2. /\ Len(wire') = Len(wire) + 1
      /\ \A i \in 1..Len(wire) : wire'[i] = wire[i]
      /\ wire'[Len(wire) + 1] = f
  BY <1>1, WireAppends
<1>3. \A m \in Messages : OnWire(m)' <=> OnWire(m) \/ m = f
  BY <1>1, <1>2 DEF OnWire
<1>4. ASSUME f \in Messages => ~OnWire(f),
             NEW i \in 1..Len(wire'), NEW j \in 1..Len(wire'),
             wire'[i] = wire'[j], wire'[i] \in Messages
      PROVE  i = j
  BY <1>1, <1>2, <1>4 DEF HandoverInv, WireInv, OnWire
<1>5. QED
  BY <1>3, <1>4

LEMMA ReadStep ==
    ASSUME HandoverInv, wire # << >>, wire' = Tail(wire)
    PROVE  /\ wire' \in Seq(Frame) /\ Head(wire) \in Frame
           /\ Head(wire) \in Messages => OnWire(Head(wire))
           /\ \A m \in Messages : OnWire(m)' <=> OnWire(m) /\ m # Head(wire)
           /\ \A i, j \in 1..Len(wire') : wire'[i] = wire'[j] /\ wire'[i] \in Messages => i = j
<1>1. wire \in Seq(Frame) /\ Len(wire) \in Nat
  BY DEF HandoverInv, ServerTypeOK, Frame
<1>2. /\ wire' \in Seq(Frame) /\ Head(wire) \in Frame
      /\ Len(wire) >= 1 /\ Head(wire) = wire[1] /\ Len(wire') = Len(wire) - 1
      /\ \A i \in 1..(Len(wire) - 1) : wire'[i] = wire[i + 1]
  BY <1>1, WireReads
<1>3. \A i, j \in 1..Len(wire) : wire[i] = wire[j] /\ wire[i] \in Messages => i = j
  BY DEF HandoverInv, WireInv
<1>4. ASSUME NEW m \in Messages
      PROVE  OnWire(m)' <=> OnWire(m) /\ m # Head(wire)
  <2>1. ASSUME OnWire(m)' PROVE OnWire(m) /\ m # Head(wire)
    <3>1. PICK i \in 1..Len(wire') : wire'[i] = m
      BY <2>1 DEF OnWire
    <3>2. i + 1 \in 1..Len(wire) /\ wire[i + 1] = m /\ i + 1 # 1 /\ 1 \in 1..Len(wire)
      BY <1>1, <1>2, <3>1
    <3>3. QED
      BY <1>2, <1>3, <3>2 DEF OnWire
  <2>2. ASSUME OnWire(m), m # Head(wire) PROVE OnWire(m)'
    <3>1. PICK i \in 1..Len(wire) : wire[i] = m
      BY <2>2 DEF OnWire
    <3>2. i - 1 \in 1..(Len(wire) - 1) /\ wire'[i - 1] = m
      BY <1>1, <1>2, <2>2, <3>1
    <3>3. QED
      BY <1>2, <3>2 DEF OnWire
  <2>3. QED
    BY <2>1, <2>2
<1>5. ASSUME NEW i \in 1..Len(wire'), NEW j \in 1..Len(wire'),
             wire'[i] = wire'[j], wire'[i] \in Messages
      PROVE  i = j
  <2>1. i + 1 \in 1..Len(wire) /\ j + 1 \in 1..Len(wire) /\ i \in Nat /\ j \in Nat
    BY <1>1, <1>2
  <2>2. i + 1 = j + 1
    BY <1>2, <1>3, <1>5, <2>1
  <2>3. QED
    BY <2>1, <2>2
<1>6. Head(wire) \in Messages => OnWire(Head(wire))
  BY <1>1, <1>2 DEF OnWire
<1>7. QED
  BY <1>2, <1>4, <1>5, <1>6

\* A socket that is closed loses what is on the wire.
LEMMA LostStep == wire' = << >> => \A m \in Messages : ~OnWire(m)'
BY DEF OnWire

-------------------------------------------------------------------------------
(* The server side: its steps.                                             *)

\* The parts of the invariant that are about one message.
OnSide(m) ==
    /\ OnWire(m) => target[m] /\ pub[m] \in {"posted", "done"}
    /\ pub[m] = "idle" <=> side[m] = "none"
    /\ Underway(m) /\ side[m] = "emitter" => ~live
    /\ Underway(m) /\ side[m] = "socket" => live
    /\ runs[m] <= Once(m \in Local /\ Emitted(m)) + Once(Taken(m))
    /\ side[m] = "emitter" => runs[m] <= Once(m \in Local /\ Emitted(m))
    /\ side[m] = "emitter" /\ m \in Local /\ ~ended => runs[m] = Once(Emitted(m))
    /\ side[m] = "socket" => runs[m] = Once(Taken(m))

Distinct == \A i, j \in 1..Len(wire) : wire[i] = wire[j] /\ wire[i] \in Messages => i = j

LEMMA ByMessage ==
    HandoverInv <=> ServerTypeOK /\ Distinct /\ (\A m \in Messages : OnSide(m)) /\ EndInv
BY DEF HandoverInv, WireInv, SideInv, RunsInv, OnSide, Distinct

LEMMA AllSides ==
    ASSUME ServerTypeOK', Distinct', \A m \in Messages : OnSide(m)', EndInv'
    PROVE  HandoverInv'
BY DEF HandoverInv, WireInv, SideInv, RunsInv, OnSide, Distinct

\* A step that concerns no message keeps the invariant.
LEMMA QuietStep ==
    ASSUME HandoverInv, ServerTypeOK',
           UNCHANGED <<live, listening, ended, pub, target, runs, side>>,
           sock = "closed" => sock' = "closed",
           \A m \in Messages : OnWire(m)' <=> OnWire(m),
           Distinct'
    PROVE  HandoverInv'
<1>1. \A m \in Messages : OnSide(m)
  BY ByMessage
<1>2. ASSUME NEW m \in Messages
      PROVE  OnSide(m)'
  BY <1>1, <1>2 DEF OnSide, Underway, Taken, Emitted
<1>3. EndInv'
  BY DEF HandoverInv, EndInv
<1>4. QED
  BY <1>2, <1>3, AllSides

\* The subscription goes over to the socket, or back to the emitter: a message that
\* is under way is on both sides from then on.
LEMMA ChangeStep ==
    ASSUME HandoverInv, ServerTypeOK', ChangeSides,
           UNCHANGED <<pub, target, runs>>,
           \A m \in Messages : OnWire(m)' => OnWire(m),
           ended => ended',
           Distinct', EndInv'
    PROVE  HandoverInv'
<1>1. ASSUME NEW m \in Messages
      PROVE  OnSide(m)'
  <2>1. OnSide(m) /\ runs[m] \in Nat /\ side[m] \in {"none", "emitter", "socket", "both"}
    BY <1>1, ByMessage DEF HandoverInv, ServerTypeOK
  <2>2. /\ side'[m] = IF Underway(m) THEN "both" ELSE side[m]
        /\ pub'[m] = pub[m] /\ target'[m] = target[m] /\ runs'[m] = runs[m]
    BY <1>1 DEF ChangeSides
  <2>3. CASE Underway(m)
    <3>1. side'[m] = "both"
      BY <2>2, <2>3
    <3>2. pub[m] # "idle"
      BY <2>1, <2>3 DEF Underway, OnSide
    <3>3. Once(Taken(m)) <= Once(Taken(m)')
      BY <1>1, <2>2 DEF Taken, Once
    <3>4. runs'[m] <= Once(m \in Local /\ Emitted(m)') + Once(Taken(m)')
      BY <2>1, <2>2, <3>3 DEF OnSide, Emitted, Once
    <3>5. QED
      BY <1>1, <2>1, <2>2, <3>1, <3>2, <3>4 DEF OnSide
  <2>4. CASE ~Underway(m)
    <3>1. ~OnWire(m) /\ ~OnWire(m)' /\ ~Underway(m)'
      BY <1>1, <2>2, <2>4 DEF Underway
    <3>2. side'[m] = side[m] /\ (Taken(m)' <=> Taken(m)) /\ (Emitted(m)' <=> Emitted(m))
      BY <2>2, <2>4, <3>1 DEF Taken, Emitted
    <3>3. QED
      BY <2>1, <2>2, <3>1, <3>2 DEF OnSide, Once
  <2>5. QED
    BY <2>3, <2>4
<1>2. QED
  BY <1>1, AllSides

LEMMA QueryStep ==
    ASSUME HandoverInv, ServerTypeOK', NEW n \in Messages, Query(n)
    PROVE  HandoverInv'
<1>1. /\ pub[n] = "idle" /\ pub' = [pub EXCEPT ![n] = "queried"]
      /\ target' = [target EXCEPT ![n] = indexed]
      /\ side' = [side EXCEPT ![n] = IF live THEN "socket" ELSE "emitter"]
      /\ UNCHANGED <<sock, live, listening, ended, wire, runs>>
  BY DEF Query, sockVars
<1>2. ASSUME NEW m \in Messages
      PROVE  OnSide(m)'
  <2>1. OnSide(m) /\ runs[m] \in Nat /\ (OnWire(m)' <=> OnWire(m))
    BY <1>1, <1>2, ByMessage DEF HandoverInv, ServerTypeOK, OnWire
  <2>2. CASE m = n
    <3>1. ~OnWire(m) /\ side[m] = "none" /\ runs[m] = 0
      BY <1>1, <2>1, <2>2 DEF OnSide, Once, Emitted, Taken
    <3>2. pub'[m] = "queried" /\ side'[m] = IF live THEN "socket" ELSE "emitter"
      BY <1>1, <2>2 DEF HandoverInv, ServerTypeOK
    <3>3. QED
      BY <1>1, <2>1, <3>1, <3>2 DEF OnSide, Once, Emitted, Taken, Underway
  <2>3. CASE m # n
    <3>1. pub'[m] = pub[m] /\ target'[m] = target[m] /\ side'[m] = side[m]
      BY <1>1, <1>2, <2>3 DEF HandoverInv, ServerTypeOK
    <3>2. QED
      BY <1>1, <2>1, <3>1 DEF OnSide, Once, Emitted, Taken, Underway
  <2>4. QED
    BY <2>2, <2>3
<1>3. Distinct' /\ EndInv'
  BY <1>1, ByMessage DEF Distinct, EndInv
<1>4. QED
  BY <1>2, <1>3, AllSides

LEMMA PostStep ==
    ASSUME HandoverInv, ServerTypeOK', NEW n \in Messages, Post(n)
    PROVE  HandoverInv'
<1>1. /\ pub[n] = "queried"
      /\ \/ /\ wire' = IF target[n] THEN Append(wire, n) ELSE wire
            /\ pub' = [pub EXCEPT ![n] = "posted"]
         \/ /\ target[n] /\ wire' = wire
            /\ pub' = [pub EXCEPT ![n] = "failed"]
      /\ UNCHANGED <<sock, live, listening, ended, target, runs, side>>
  BY DEF Post, sockVars
<1>a. ~OnWire(n) /\ n \in Frame
  BY <1>1, ByMessage DEF OnSide, Frame
<1>2. /\ \A m \in Messages \ {n} : OnWire(m)' <=> OnWire(m)
      /\ OnWire(n)' <=> (pub'[n] = "posted" /\ target[n])
      /\ Distinct'
  <2>1. pub \in [Messages -> {"idle", "queried", "posted", "failed", "done", "undelivered"}]
    BY DEF HandoverInv, ServerTypeOK
  <2>2. CASE wire' = Append(wire, n) /\ target[n] /\ pub'[n] = "posted"
    BY <2>2, <1>a, AppendStep DEF Distinct
  <2>3. CASE wire' = wire /\ (pub'[n] = "failed" \/ ~target[n])
    BY <2>3, <1>a, ByMessage DEF OnWire, Distinct
  <2>4. QED
    BY <1>1, <2>1, <2>2, <2>3
<1>3. ASSUME NEW m \in Messages
      PROVE  OnSide(m)'
  <2>1. OnSide(m) /\ runs[m] \in Nat
    BY <1>3, ByMessage DEF HandoverInv, ServerTypeOK
  <2>2. CASE m = n
    <3>1. pub'[m] \in {"posted", "failed"}
      BY <1>1, <2>2 DEF HandoverInv, ServerTypeOK
    <3>2. ~Taken(m) /\ ~Taken(m)' /\ ~Emitted(m) /\ ~Emitted(m)'
      BY <1>1, <1>2, <2>2, <3>1 DEF Taken, Emitted
    <3>3. Underway(m) /\ Underway(m)'
      BY <1>1, <2>2, <3>1 DEF Underway
    <3>4. OnWire(m)' => target'[m] /\ pub'[m] \in {"posted", "done"}
      BY <1>1, <1>2, <2>2
    <3>5. QED
      BY <1>1, <2>1, <2>2, <3>1, <3>2, <3>3, <3>4 DEF OnSide, Once
  <2>3. CASE m # n
    <3>1. pub'[m] = pub[m] /\ (OnWire(m)' <=> OnWire(m))
      BY <1>1, <1>2, <1>3, <2>3 DEF HandoverInv, ServerTypeOK
    <3>2. QED
      BY <1>1, <2>1, <3>1 DEF OnSide, Once, Emitted, Taken, Underway
  <2>4. QED
    BY <2>2, <2>3
<1>4. EndInv'
  BY <1>1 DEF HandoverInv, EndInv
<1>5. QED
  BY <1>2, <1>3, <1>4, AllSides

LEMMA EmitStep ==
    ASSUME HandoverInv, ServerTypeOK', NEW n \in Messages, Emit(n)
    PROVE  HandoverInv'
<1>1. /\ pub[n] \in {"posted", "failed"}
      /\ pub' = [pub EXCEPT ![n] = IF @ = "posted" THEN "done" ELSE "undelivered"]
      /\ IF n \in Local /\ listening /\ ~live THEN runs' = [runs EXCEPT ![n] = @ + 1]
         ELSE runs' = runs
      /\ UNCHANGED <<sock, live, listening, ended, wire, target, side>>
  BY DEF Emit, Publishing, Deliver, sockVars
<1>2. ASSUME NEW m \in Messages
      PROVE  OnSide(m)'
  <2>1. /\ OnSide(m) /\ runs[m] \in Nat /\ (OnWire(m)' <=> OnWire(m))
        /\ side[m] \in {"none", "emitter", "socket", "both"}
    BY <1>1, <1>2, ByMessage DEF HandoverInv, ServerTypeOK, OnWire
  <2>2. CASE m = n
    <3>1. pub'[m] = IF pub[m] = "posted" THEN "done" ELSE "undelivered"
      BY <1>1, <2>2 DEF HandoverInv, ServerTypeOK
    <3>2. Emitted(m)' /\ ~Emitted(m) /\ (Taken(m)' <=> Taken(m)) /\ Underway(m)
      BY <1>1, <2>1, <2>2, <3>1 DEF Emitted, Taken, Underway
    <3>3. runs'[m] = IF m \in Local /\ listening /\ ~live THEN runs[m] + 1 ELSE runs[m]
      BY <1>1, <2>2 DEF HandoverInv, ServerTypeOK
    <3>4. Once(m \in Local /\ Emitted(m)) = 0 /\ Once(m \in Local /\ Emitted(m)') = Once(m \in Local)
      BY <3>2 DEF Once
    <3>5. Once(Taken(m)') = Once(Taken(m)) /\ Once(Taken(m)) \in Nat
      BY <3>2 DEF Once
    <3>6. runs'[m] <= Once(m \in Local /\ Emitted(m)') + Once(Taken(m)')
      BY <2>1, <3>3, <3>4, <3>5 DEF OnSide, Once
    <3>7. side[m] = "emitter" => ~live /\ runs[m] = 0
      BY <2>1, <3>2, <3>4 DEF OnSide
    <3>8. ended <=> ~listening
      BY DEF HandoverInv, EndInv
    <3>9. /\ side[m] = "emitter" => runs'[m] <= Once(m \in Local /\ Emitted(m)')
          /\ side[m] = "emitter" /\ m \in Local /\ ~ended => runs'[m] = Once(Emitted(m)')
      BY <3>2, <3>3, <3>4, <3>7, <3>8 DEF Once
    <3>10. side[m] = "socket" => runs'[m] = Once(Taken(m)')
      BY <2>1, <3>2, <3>3, <3>5 DEF OnSide
    <3>11. /\ OnWire(m)' => target'[m] /\ pub'[m] \in {"posted", "done"}
           /\ pub'[m] = "idle" <=> side'[m] = "none"
           /\ Underway(m)' => Underway(m)
      BY <1>1, <2>1, <2>2, <3>1, <3>2 DEF OnSide
    <3>12. QED
      BY <1>1, <2>1, <3>2, <3>6, <3>9, <3>10, <3>11 DEF OnSide
  <2>3. CASE m # n
    <3>1. pub'[m] = pub[m] /\ runs'[m] = runs[m]
      BY <1>1, <1>2, <2>3 DEF HandoverInv, ServerTypeOK
    <3>2. QED
      BY <1>1, <2>1, <3>1 DEF OnSide, Once, Emitted, Taken, Underway
  <2>4. QED
    BY <2>2, <2>3
<1>3. Distinct' /\ EndInv'
  BY <1>1, ByMessage DEF Distinct, EndInv
<1>4. QED
  BY <1>2, <1>3, AllSides

LEMMA ReadMessageStep ==
    ASSUME HandoverInv, ServerTypeOK', OnMessage, Head(wire) \in Messages
    PROVE  HandoverInv'
<1> DEFINE n == Head(wire)
<1>1. /\ sock = "open" /\ wire # << >> /\ wire' = Tail(wire)
      /\ UNCHANGED <<sock, listening, ended, pub, target, live, side>>
      /\ IF live THEN runs' = [runs EXCEPT ![n] = @ + 1] ELSE runs' = runs
  BY SubscribeAssumption DEF OnMessage, pubVars, Deliver, Messages
<1>2. /\ OnWire(n) /\ Distinct'
      /\ \A m \in Messages : OnWire(m)' <=> OnWire(m) /\ m # n
  BY <1>1, ReadStep DEF Distinct
<1> HIDE DEF n
<1>3. ASSUME NEW m \in Messages
      PROVE  OnSide(m)'
  <2>1. OnSide(m) /\ runs[m] \in Nat /\ side[m] \in {"none", "emitter", "socket", "both"}
    BY <1>3, ByMessage DEF HandoverInv, ServerTypeOK
  <2>2. CASE m = n
    <3>1. ~Taken(m) /\ Taken(m)' /\ Underway(m) /\ (Emitted(m)' <=> Emitted(m))
      BY <1>1, <1>2, <2>1, <2>2 DEF Taken, Underway, OnSide, Emitted
    <3>2. runs'[m] = IF live THEN runs[m] + 1 ELSE runs[m]
      BY <1>1, <2>2 DEF HandoverInv, ServerTypeOK
    <3>3. Once(Taken(m)) = 0 /\ Once(Taken(m)') = 1
      BY <3>1 DEF Once
    <3>4. /\ Once(m \in Local /\ Emitted(m)') = Once(m \in Local /\ Emitted(m))
          /\ Once(m \in Local /\ Emitted(m)) \in Nat
          /\ Once(Emitted(m)') = Once(Emitted(m))
      BY <3>1 DEF Once
    <3>5. /\ side[m] = "emitter" => ~live
          /\ side[m] = "socket" => live
          /\ pub[m] \in {"posted", "done"} /\ side[m] # "none"
      BY <1>2, <2>1, <2>2, <3>1 DEF OnSide
    <3>6. ~OnWire(m)' /\ (Underway(m)' => Underway(m))
      BY <1>1, <1>2, <2>2, <3>1 DEF Underway
    <3>7. /\ runs'[m] <= Once(m \in Local /\ Emitted(m)') + Once(Taken(m)')
          /\ side[m] = "emitter" => runs'[m] = runs[m]
          /\ side[m] = "socket" => runs'[m] = 1
      BY <2>1, <3>2, <3>3, <3>4, <3>5 DEF OnSide
    <3>8. /\ side[m] = "emitter" => runs'[m] <= Once(m \in Local /\ Emitted(m)')
          /\ side[m] = "emitter" /\ m \in Local /\ ~ended => runs'[m] = Once(Emitted(m)')
      BY <2>1, <3>4, <3>7 DEF OnSide
    <3>9. pub'[m] = pub[m] /\ target'[m] = target[m] /\ side'[m] = side[m] /\ live' = live /\ ended' = ended
      BY <1>1
    <3>10. /\ pub'[m] = "idle" <=> side'[m] = "none"
           /\ Underway(m)' /\ side'[m] = "emitter" => ~live'
           /\ Underway(m)' /\ side'[m] = "socket" => live'
      BY <3>5, <3>9
    <3>11. QED
      BY <3>3, <3>6, <3>7, <3>8, <3>9, <3>10 DEF OnSide
  <2>3. CASE m # n
    <3>1. (OnWire(m)' <=> OnWire(m)) /\ runs'[m] = runs[m]
      BY <1>1, <1>2, <1>3, <2>3 DEF HandoverInv, ServerTypeOK
    <3>2. QED
      BY <1>1, <2>1, <3>1 DEF OnSide, Once, Emitted, Taken, Underway
  <2>4. QED
    BY <2>2, <2>3
<1>4. EndInv'
  BY <1>1 DEF HandoverInv, EndInv
<1>5. QED
  BY <1>2, <1>3, <1>4, AllSides

LEMMA ReadControlStep ==
    ASSUME HandoverInv, ServerTypeOK', OnMessage, Head(wire) \notin Messages
    PROVE  HandoverInv'
<1>1. /\ sock = "open" /\ wire # << >> /\ wire' = Tail(wire)
      /\ UNCHANGED <<sock, listening, ended, pub, target, runs>>
      /\ ChangeSides \/ UNCHANGED <<live, side>>
  BY DEF OnMessage, pubVars
<1>2. Distinct' /\ \A m \in Messages : OnWire(m)' <=> OnWire(m)
  BY <1>1, ReadStep DEF Distinct
<1>3. EndInv'
  BY <1>1 DEF HandoverInv, EndInv
<1>4. CASE ChangeSides
  BY <1>1, <1>2, <1>3, <1>4, ChangeStep
<1>5. CASE UNCHANGED <<live, side>>
  BY <1>1, <1>2, <1>5, QuietStep
<1>6. QED
  BY <1>1, <1>4, <1>5

\* Every reachable state is well typed.
LEMMA ServerTypeStep == ServerTypeOK /\ [ServerNext]_serverVars => ServerTypeOK'
<1> SUFFICES ASSUME ServerTypeOK, [ServerNext]_serverVars PROVE ServerTypeOK'
  OBVIOUS
<1> USE DEF sockVars, tableVars, pubVars
<1>0. wire \in Seq(Frame) /\ runs \in [Messages -> Nat] /\ live \in BOOLEAN
  BY DEF ServerTypeOK, Frame
<1>a. ASSUME NEW n \in Messages, Deliver(n) \/ UNCHANGED runs
      PROVE  runs' \in [Messages -> Nat]
  BY <1>0, <1>a DEF Deliver
<1>1. ASSUME NEW n \in Messages, Query(n)
      PROVE  ServerTypeOK'
  BY <1>1 DEF Query, ServerTypeOK
<1>2. ASSUME NEW n \in Messages, Post(n)
      PROVE  ServerTypeOK'
  <2>1. n \in Frame
    BY DEF Frame
  <2>2. wire' \in Seq(Frame)
    BY <1>0, <1>2, <2>1, WireAppends DEF Post
  <2>3. /\ pub' \in [Messages -> {"idle", "queried", "posted", "failed", "done", "undelivered"}]
        /\ row' \in BOOLEAN
        /\ UNCHANGED <<sock, live, listening, ended, asked, indexed, target, runs, side>>
    BY <1>2 DEF Post, ServerTypeOK
  <2>4. QED
    BY <2>2, <2>3 DEF ServerTypeOK, Frame
<1>3. ASSUME NEW n \in Messages, Emit(n)
      PROVE  ServerTypeOK'
  <2>1. runs' \in [Messages -> Nat]
    BY <1>3, <1>a DEF Emit
  <2>2. pub' \in [Messages -> {"idle", "queried", "posted", "failed", "done", "undelivered"}]
    BY <1>3 DEF Emit, ServerTypeOK
  <2>3. UNCHANGED <<sock, live, listening, ended, asked, row, indexed, wire, target, side>>
    BY <1>3 DEF Emit
  <2>4. QED
    BY <2>1, <2>2, <2>3 DEF ServerTypeOK
<1>4. CASE SecretArrives \/ ServerOnOpen \/ Store \/ Disconnect \/ RowExpires \/ IndexCatchesUp
           \/ UNCHANGED serverVars
  BY <1>4 DEF SecretArrives, ServerOnOpen, Store, Disconnect, RowExpires, IndexCatchesUp,
     serverVars, ServerTypeOK
<1>5. CASE Confirm \/ Refuse
  <2>1. "subscribe_success" \in Frame /\ "error" \in Frame
    BY DEF Frame
  <2>2. wire' \in Seq(Frame)
    BY <1>0, <1>5, <2>1, WireAppends DEF Confirm, Refuse
  <2>3. QED
    BY <1>5, <2>2 DEF Confirm, Refuse, ServerTypeOK, Frame
<1>6. CASE OnMessage
  <2>1. wire' \in Seq(Frame)
    BY <1>0, <1>6, WireReads DEF OnMessage
  <2>2. runs' \in [Messages -> Nat] /\ live' \in BOOLEAN
    <3>1. UNCHANGED runs \/ \E n \in Messages : Deliver(n)
      BY <1>6 DEF OnMessage
    <3>2. runs' \in [Messages -> Nat]
      BY <1>0, <1>a, <3>1
    <3>3. live' \in BOOLEAN
      BY <1>0, <1>6 DEF OnMessage
    <3>4. QED
      BY <3>2, <3>3
  <2>3. side' \in [Messages -> {"none", "emitter", "socket", "both"}]
    BY <1>6 DEF OnMessage, ChangeSides, ServerTypeOK
  <2>4. UNCHANGED <<sock, listening, ended, asked, row, indexed, pub, target>>
    BY <1>6 DEF OnMessage
  <2>5. QED
    BY <2>1, <2>2, <2>3, <2>4 DEF ServerTypeOK, Frame
<1>7. CASE ServerOnClose \/ ServerUnsubscribe
  <2>1. side' \in [Messages -> {"none", "emitter", "socket", "both"}]
    BY <1>7 DEF ServerOnClose, ServerUnsubscribe, ChangeSides, ServerTypeOK
  <2>2. wire' \in Seq(Frame)
    <3>1. wire' = << >>
      BY <1>7 DEF ServerOnClose, ServerUnsubscribe
    <3>2. QED
      BY <3>1
  <2>3. QED
    BY <1>7, <2>1, <2>2 DEF ServerOnClose, ServerUnsubscribe, ServerTypeOK, Frame
<1>8. QED
  BY <1>1, <1>2, <1>3, <1>4, <1>5, <1>6, <1>7 DEF ServerNext

LEMMA HandoverStep == HandoverInv /\ [ServerNext]_serverVars => HandoverInv'
<1> SUFFICES ASSUME HandoverInv, [ServerNext]_serverVars PROVE HandoverInv'
  OBVIOUS
<1> USE DEF sockVars, tableVars, pubVars
<1>0. ServerTypeOK' /\ Distinct
  BY ServerTypeStep, ByMessage DEF HandoverInv
<1>1. CASE SecretArrives \/ ServerOnOpen \/ Store \/ Disconnect \/ RowExpires \/ IndexCatchesUp
           \/ UNCHANGED serverVars
  <2>1. /\ UNCHANGED <<live, listening, ended, wire, pub, target, runs, side>>
        /\ sock = "closed" => sock' = "closed"
    BY <1>1 DEF SecretArrives, ServerOnOpen, Store, Disconnect, RowExpires, IndexCatchesUp,
       serverVars
  <2>2. Distinct' /\ \A m \in Messages : OnWire(m)' <=> OnWire(m)
    BY <1>0, <2>1 DEF Distinct, OnWire
  <2>3. QED
    BY <1>0, <2>1, <2>2, QuietStep
<1>2. CASE Confirm \/ Refuse
  <2>1. /\ UNCHANGED <<sock, live, listening, ended, pub, target, runs, side>>
        /\ \/ wire' = wire
           \/ wire' = Append(wire, "subscribe_success")
           \/ wire' = Append(wire, "error")
    BY <1>2 DEF Confirm, Refuse
  <2>2. ASSUME NEW f \in {"subscribe_success", "error"}, wire' = Append(wire, f)
        PROVE  Distinct' /\ \A m \in Messages : OnWire(m)' <=> OnWire(m)
    <3>1. f \in Frame /\ f \notin Messages
      BY SubscribeAssumption DEF Frame, Messages
    <3>2. QED
      BY <2>2, <3>1, AppendStep DEF Distinct
  <2>3. CASE wire' = wire
    BY <1>0, <2>1, <2>3, QuietStep DEF Distinct, OnWire
  <2>4. QED
    BY <1>0, <2>1, <2>2, <2>3, QuietStep
<1>3. CASE OnMessage
  BY <1>0, <1>3, ReadMessageStep, ReadControlStep
<1>4. CASE ServerOnClose \/ ServerUnsubscribe
  <2>1. /\ ChangeSides /\ wire' = << >> /\ UNCHANGED <<pub, target, runs>>
        /\ ended => ended'
    BY <1>4 DEF ServerOnClose, ServerUnsubscribe
  <2>2. Distinct' /\ \A m \in Messages : ~OnWire(m)'
    BY <2>1, LostStep DEF Distinct
  <2>3. EndInv'
    BY <1>4 DEF ServerOnClose, ServerUnsubscribe, HandoverInv, EndInv
  <2>4. QED
    BY <1>0, <2>1, <2>2, <2>3, ChangeStep
<1>5. QED
  BY <1>0, <1>1, <1>2, <1>3, <1>4, QueryStep, PostStep, EmitStep DEF ServerNext

LEMMA HandoverCorrect == ServerSpec => []HandoverInv
<1>1. ServerInit => HandoverInv
  <2> SUFFICES ASSUME ServerInit PROVE HandoverInv
    OBVIOUS
  <2>1. wire = << >> /\ Len(wire) = 0 /\ wire \in Seq(Frame)
    BY DEF ServerInit
  <2>2. ServerTypeOK
    BY <2>1 DEF ServerInit, ServerTypeOK, Frame
  <2>3. WireInv
    BY <2>1 DEF WireInv, OnWire
  <2>4. SideInv
    BY <2>1 DEF ServerInit, SideInv, Underway, OnWire
  <2>5. RunsInv
    BY <2>1 DEF ServerInit, RunsInv, Once, Emitted, Taken
  <2>6. EndInv
    BY DEF ServerInit, EndInv
  <2>7. QED
    BY <2>2, <2>3, <2>4, <2>5, <2>6 DEF HandoverInv
<1>2. QED
  BY <1>1, HandoverStep, PTL DEF ServerSpec

\* The handler's two sources hand a message over without losing or doubling it: a
\* message of the subscriber's own process runs the handler exactly once unless the
\* subscription changed sides under it (serverSubscribe, localListener, onmessage).
THEOREM ExactlyOnceWhenSteady == ServerSpec => []OnceWhenSteady
<1>1. HandoverInv => OnceWhenSteady
  <2> SUFFICES ASSUME HandoverInv, NEW m \in Local, Finished(m), ~ended,
                      \/ side[m] = "emitter"
                      \/ side[m] = "socket" /\ target[m] /\ pub[m] = "done"
               PROVE  runs[m] = 1
    BY DEF OnceWhenSteady
  <2>1. m \in Messages
    BY DEF Messages
  <2>2. QED
    BY <2>1 DEF HandoverInv, RunsInv, Finished, Emitted, Taken, Once
<1>2. QED
  BY <1>1, HandoverCorrect, PTL

\* The handler runs twice for a message only if the subscription changed sides under
\* it and it is one of the subscriber's own process; it never runs three times.
THEOREM TwiceAtMost == ServerSpec => []TwiceOnlyAtHandover
<1>1. HandoverInv => TwiceOnlyAtHandover
  <2> SUFFICES ASSUME HandoverInv, NEW m \in Messages
               PROVE  runs[m] <= 2 /\ (runs[m] = 2 => m \in Local /\ side[m] = "both")
    BY DEF TwiceOnlyAtHandover
  <2>1. runs[m] \in Nat /\ side[m] \in {"none", "emitter", "socket", "both"}
    BY DEF HandoverInv, ServerTypeOK
  <2>2. /\ runs[m] <= Once(m \in Local /\ Emitted(m)) + Once(Taken(m))
        /\ side[m] = "emitter" => runs[m] <= Once(m \in Local /\ Emitted(m))
        /\ side[m] = "socket" => runs[m] = Once(Taken(m))
        /\ side[m] = "none" => pub[m] = "idle"
    BY DEF HandoverInv, RunsInv, SideInv
  <2>3. pub[m] = "idle" => runs[m] = 0
    BY <2>1, <2>2 DEF Emitted, Taken, Once
  <2>4. QED
    BY <2>1, <2>2, <2>3 DEF Once
<1>2. QED
  BY <1>1, HandoverCorrect, PTL

\* A caller that unsubscribes is not called again, whatever is on the wire and
\* whatever is published, if the token secret had arrived by then (unsubscribe).
THEOREM SilenceAfterEnd == ~EarlyUnsubscribe /\ ServerSpec => SilentAfterUnsubscribe
<1> SUFFICES ASSUME ~EarlyUnsubscribe PROVE ServerSpec => SilentAfterUnsubscribe
  OBVIOUS
<1>1. HandoverInv /\ [ServerNext]_serverVars => [ended => UNCHANGED runs]_serverVars
  <2> SUFFICES ASSUME HandoverInv, [ServerNext]_serverVars, ended PROVE runs' = runs
    OBVIOUS
  <2>1. sock = "closed" /\ ~listening
    BY DEF HandoverInv, EndInv
  <2>2. CASE UNCHANGED serverVars
    BY <2>2 DEF serverVars
  <2>3. CASE \E n \in Messages : Query(n) \/ Post(n) \/ Emit(n)
    BY <2>1, <2>3 DEF Query, Post, Emit
  <2>4. CASE SecretArrives \/ ServerOnOpen \/ Store \/ Confirm \/ Refuse \/ OnMessage
             \/ ServerOnClose \/ ServerUnsubscribe \/ Disconnect \/ RowExpires \/ IndexCatchesUp
    BY <2>1, <2>4 DEF SecretArrives, ServerOnOpen, Store, Confirm, Refuse, OnMessage,
       ServerOnClose, ServerUnsubscribe, Disconnect, RowExpires, IndexCatchesUp
  <2>5. QED
    BY <2>2, <2>3, <2>4 DEF ServerNext
<1>2. QED
  BY <1>1, HandoverCorrect, PTL DEF ServerSpec, SilentAfterUnsubscribe

-------------------------------------------------------------------------------
(* The client side: the invariant.                                         *)

\* What is under way for a connection: its socket, its reconnect timer, its
\* token refreshes, or nothing.
BySocket(k) == Attached(k) /\ ~k.timer /\ k.refreshing = {}
ByTimer(k) == ~Attached(k) /\ k.timer /\ k.refreshing = {}
ByRefresh(k) == ~Attached(k) /\ ~k.timer /\ k.refreshing # {}
Stalled(k) == ~Attached(k) /\ ~k.timer /\ k.refreshing = {}

\* The handlers at whose end the connection is rebuilt or given up.
Rebuilding(c) == \E e \in {"close", "refresh", "giveUp"} : calling = <<c, e>>

\* A connection in use has exactly one thing under way, or a handler that will
\* see to it; timer and refresh only while somebody subscribes.
WayInv(c) ==
    InUse(c) =>
        IF Rebuilding(c) THEN Stalled(conn[c])
        ELSE \/ BySocket(conn[c])
             \/ conn[c].subscriptions # {} /\ (ByTimer(conn[c]) \/ ByRefresh(conn[c]))

\* A connection exists once its creator is on one; a torn down one has neither
\* a socket nor a timer; its subscriptions are at home on it.
ConnectionInv(c) ==
    /\ conn[c].ws = "none" => ~conn[c].timer /\ conn[c].refreshing = {}
    /\ conn[c].ws # "none" => home[c] # None
    /\ home[c] # None => conn[home[c]].ws # "none"
    /\ conn[c].tornDown => ~Attached(conn[c]) /\ ~conn[c].timer
    /\ conn[c].asked # {} => conn[c].ws = "open"
    /\ \A s \in conn[c].subscriptions : home[s] = c

\* What the handler that is calling back may find at its end.
CallInv(c) ==
    /\ \A e \in Event : calling = <<c, e>> => conn[c].ws # "none"
    /\ calling = <<c, "close">> /\ conn[c].tornDown =>
          pool[conn[c].url] = None /\ "unsubscribe" \in Callbacks
    /\ calling = <<c, "refresh">> /\ conn[c].tornDown => conn[c].subscriptions = {}
    /\ \A ch \in Channels : calling = <<c, ch>> /\ InUse(c) => Attached(conn[c])

\* The pool holds the connections in use, each under its own endpoint.
PoolInv(c) == \A u \in Urls : pool[u] = c <=> InUse(c) /\ conn[c].url = u

ClientInv ==
    /\ TypeOK
    /\ \A c \in Subscribers : WayInv(c) /\ ConnectionInv(c) /\ CallInv(c) /\ PoolInv(c)

\* Whoever is still subscribed is registered or was told that it is down, and
\* a handler that ends subscriptions has told them before.
HeardInv(c) ==
    /\ \A s \in Subscribers : home[s] = c /\ heard[s] # "client" =>
          (s \in conn[c].subscriptions /\ InUse(c)) \/ heard[s] = "down"
    /\ calling = <<c, "giveUp">> => \A s \in conn[c].subscriptions : heard[s] = "down"
    /\ \A ch \in Channels : calling = <<c, ch>> =>
          \A s \in conn[c].subscriptions \cap On(ch) : heard[s] = "down"

ToldInv == \A c \in Subscribers : HeardInv(c)
-------------------------------------------------------------------------------
(* The client side: the records of a connection.                           *)

\* Nothing that decides what is under way has changed.
Alike(k, l) ==
    /\ l.ws = k.ws /\ l.timer = k.timer /\ l.refreshing = k.refreshing
    /\ l.tornDown = k.tornDown /\ l.url = k.url

\* Nothing is under way, and nobody will rebuild it.
Dead(k) == k.ws = "closed" /\ k.asked = {} /\ ~k.timer /\ k.tornDown

LEMMA CreatedRecord ==
    ASSUME NEW u \in Urls
    PROVE  /\ Created(u) \in Connection
           /\ Created(u).ws = "connecting" /\ ~Created(u).timer /\ ~Created(u).tornDown
           /\ Created(u).refreshing = {} /\ Created(u).asked = {}
           /\ Created(u).url = u /\ Created(u).subscriptions = {}
<1>1. 0 \in 0..MAX_RECONNECT
  BY ConnectionAssumption
<1>2. [ch \in Channels |-> "stale"] \in [Channels -> Token]
  BY DEF Token
<1>3. QED
  BY <1>1, <1>2 DEF Created, Connection, Token

LEMMA UnusedRecord ==
    /\ Unused \in Connection
    /\ Unused.ws = "none" /\ ~Unused.tornDown /\ ~Unused.timer
    /\ Unused.asked = {} /\ Unused.subscriptions = {} /\ Unused.refreshing = {}
<1> DEFINE u == CHOOSE x \in Urls : TRUE
<1>1. u \in Urls
  BY ConnectionAssumption
<1>2. Created(u) \in Connection
  BY <1>1, CreatedRecord
<1>3. Unused = [Created(u) EXCEPT !.ws = "none"]
  BY DEF Unused
<1> HIDE DEF u
<1>4. QED
  BY <1>1, <1>2, <1>3, CreatedRecord DEF Connection

\* What a teardown leaves: nothing under way, and nobody will rebuild it.
LEMMA TearDownRecord ==
    ASSUME NEW k \in Connection
    PROVE  /\ TearDown(k) \in Connection
           /\ [TearDown(k) EXCEPT !.resubscribePending = {}] \in Connection
           /\ \A t \in {TearDown(k), [TearDown(k) EXCEPT !.resubscribePending = {}]} :
                 Dead(t) /\ t.url = k.url /\ t.subscriptions = k.subscriptions
BY DEF TearDown, Connection, Dead

LEMMA SocketRecord ==
    ASSUME NEW k \in Connection
    PROVE  /\ ConstructSocket(k) \in Connection
           /\ ConstructSocket(k).ws = "connecting" /\ ~ConstructSocket(k).timer
           /\ ConstructSocket(k).refreshing = {}
           /\ ConstructSocket(k).asked = k.asked /\ ConstructSocket(k).url = k.url
           /\ ConstructSocket(k).tornDown = k.tornDown
           /\ ConstructSocket(k).subscriptions = k.subscriptions
BY DEF ConstructSocket, Connection

\* A subscription joins a connection.
Joined(k, s, token, ch) ==
    [k EXCEPT
        !.subscriptions = @ \cup {s},
        !.pendingEstablished = @ \cup {s},
        !.channelTokens[ch] = token,
        !.refreshers = IF s \in Refreshing THEN @ \cup {ch} ELSE @,
        !.asked = IF k.ws = "open" THEN @ \cup {<<ch, token>>} ELSE @]

LEMMA JoinedRecord ==
    ASSUME NEW k \in Connection, NEW s \in Subscribers, NEW token \in Token, NEW ch \in Channels
    PROVE  /\ Joined(k, s, token, ch) \in Connection
           /\ Alike(k, Joined(k, s, token, ch))
           /\ Joined(k, s, token, ch).subscriptions = k.subscriptions \cup {s}
           /\ k.ws # "open" => Joined(k, s, token, ch).asked = k.asked
<1>1. [k.channelTokens EXCEPT ![ch] = token] \in [Channels -> Token]
  BY DEF Connection
<1>2. <<ch, token>> \in Channels \X Token
  OBVIOUS
<1>3. QED
  BY <1>1, <1>2 DEF Connection, Joined, Alike

\* A subscription leaves its connection; nothing else changes for the others.
LEMMA LeftRecord ==
    ASSUME NEW k \in Connection, NEW S, NEW R \in SUBSET Channels
    PROVE  LET l == [k EXCEPT !.subscriptions = @ \ S, !.refreshers = R]
           IN  /\ l \in Connection /\ Alike(k, l) /\ l.asked = k.asked
               /\ l.subscriptions = k.subscriptions \ S
BY DEF Connection, Alike

\* The fields that no invariant is about.
LEMMA OtherFields ==
    ASSUME NEW k \in Connection, NEW l \in Connection,
           NEW S \in SUBSET Subscribers, NEW R \in SUBSET Channels, NEW n \in 0..MAX_RECONNECT,
           \/ l = [k EXCEPT !.pendingEstablished = S]
           \/ l = [k EXCEPT !.resubscribePending = R, !.attempts = n]
    PROVE  Alike(k, l) /\ l.asked = k.asked /\ l.subscriptions = k.subscriptions
BY DEF Connection, Alike

-------------------------------------------------------------------------------
(* The client side: what each action does to the connections.              *)

\* Only connection c changes, and stays one.
OnlyConn(c) ==
    /\ conn' \in [Subscribers -> Connection]
    /\ \A d \in Subscribers \ {c} : conn'[d] = conn[d]

LEMMA BecomeEffect ==
    ASSUME TypeOK, NEW c \in Subscribers, NEW l \in Connection, Become(c, l)
    PROVE  OnlyConn(c) /\ conn'[c] = l
BY DEF TypeOK, Become, OnlyConn

LEMMA TellEffect ==
    ASSUME TypeOK, NEW S, NEW what \in {"nothing", "down", "up", "client"}, Tell(S, what)
    PROVE  /\ heard' \in [Subscribers -> {"nothing", "down", "up", "client"}]
           /\ \A s \in Subscribers : heard'[s] = IF s \in S THEN what ELSE heard[s]
BY DEF TypeOK, Tell

LEMMA SettleEffect ==
    ASSUME TypeOK, NEW S, NEW how \in {"resolved", "rejected"}, SettlePromises(S, how)
    PROVE  promise' \in [Subscribers -> {"none", "pending", "resolved", "rejected"}]
BY DEF TypeOK, SettlePromises

LEMMA ReleaseEffect ==
    ASSUME TypeOK, NEW c \in Subscribers, Release(c)
    PROVE  /\ pool' \in [Urls -> Subscribers \cup {None}]
           /\ \A u \in Urls : pool'[u] = IF pool[u] = c THEN None ELSE pool[u]
BY DEF TypeOK, Release

LEMMA SubscribeEffect ==
    ASSUME TypeOK, NEW s \in Subscribers, NEW u \in Urls, NEW token \in Token,
           Subscribe(s, u, token)
    PROVE  \E c \in Subscribers, k \in Connection :
              /\ c = IF pool[u] = None THEN s ELSE pool[u]
              /\ k = IF pool[u] = None THEN Created(u) ELSE conn[c]
              /\ OnlyConn(c) /\ Alike(k, conn'[c])
              /\ conn'[c].subscriptions = k.subscriptions \cup {s}
              /\ k.ws # "open" => conn'[c].asked = k.asked
              /\ home[s] = None
              /\ pool' = [pool EXCEPT ![u] = c] /\ home' = [home EXCEPT ![s] = c]
              /\ promise' \in [Subscribers -> {"none", "pending", "resolved", "rejected"}]
              /\ UNCHANGED <<heard, calling>>
<1> DEFINE c == IF pool[u] = None THEN s ELSE pool[u]
           k == IF pool[u] = None THEN Created(u) ELSE conn[c]
           ch == ChannelOf[s]
           l == Joined(k, s, token, ch)
<1>1. c \in Subscribers
  BY DEF TypeOK
<1>2. k \in Connection
  BY <1>1, CreatedRecord DEF TypeOK
<1>3. ch \in Channels
  BY ConnectionAssumption
<1>4. /\ Become(c, l)
      /\ home[s] = None
      /\ pool' = [pool EXCEPT ![u] = c] /\ home' = [home EXCEPT ![s] = c]
      /\ promise' = [promise EXCEPT ![s] = "pending"]
      /\ UNCHANGED <<heard, calling>>
  BY DEF Subscribe, Joined
<1> HIDE DEF c, k, ch
<1>5. /\ l \in Connection /\ Alike(k, l)
      /\ l.subscriptions = k.subscriptions \cup {s}
      /\ k.ws # "open" => l.asked = k.asked
  BY <1>2, <1>3, JoinedRecord
<1> HIDE DEF l
<1>6. OnlyConn(c) /\ conn'[c] = l
  BY <1>1, <1>4, <1>5, BecomeEffect
<1>7. promise' \in [Subscribers -> {"none", "pending", "resolved", "rejected"}]
  BY <1>4 DEF TypeOK
<1>8. Alike(k, conn'[c])
  BY <1>5, <1>6
<1>9. c = (IF pool[u] = None THEN s ELSE pool[u]) /\ k = (IF pool[u] = None THEN Created(u) ELSE conn[c])
  BY DEF c, k
<1>10. QED
  BY <1>1, <1>2, <1>4, <1>5, <1>6, <1>7, <1>8, <1>9

LEMMA UnsubscribeEffect ==
    ASSUME TypeOK, NEW s \in Subscribers, Unsubscribe(s)
    PROVE  \E c \in Subscribers :
              /\ home[s] = c
              /\ OnlyConn(c)
              /\ conn'[c].subscriptions = conn[c].subscriptions \ {s}
              /\ conn'[c].url = conn[c].url
              /\ \/ /\ conn'[c].subscriptions # {}
                    /\ Alike(conn[c], conn'[c]) /\ conn'[c].asked = conn[c].asked
                    /\ pool' = pool
                 \/ /\ conn'[c].subscriptions = {} /\ Dead(conn'[c])
                    /\ pool' \in [Urls -> Subscribers \cup {None}]
                    /\ \A u \in Urls : pool'[u] = IF pool[u] = c THEN None ELSE pool[u]
              /\ heard' \in [Subscribers -> {"nothing", "down", "up", "client"}]
              /\ \A x \in Subscribers : heard'[x] = IF x = s THEN "client" ELSE heard[x]
              /\ UNCHANGED <<home, promise, calling>>
<1> DEFINE c == home[s]
           k == [conn[c] EXCEPT !.subscriptions = @ \ {s}]
           R == IF s \in conn[c].subscriptions
                THEN conn[c].refreshers \cap SubscribedChannels(k) ELSE conn[c].refreshers
           l == [k EXCEPT !.refreshers =
                        IF s \in conn[c].subscriptions
                        THEN @ \cap SubscribedChannels(k) ELSE @]
<1>1. c \in Subscribers
  BY DEF TypeOK, Unsubscribe
<1>2. conn[c] \in Connection
  BY <1>1 DEF TypeOK
<1>3. /\ \/ l.subscriptions # {} /\ Become(c, l) /\ pool' = pool
         \/ l.subscriptions = {} /\ Become(c, TearDown(l)) /\ Release(c)
      /\ Tell({s}, "client")
      /\ UNCHANGED <<home, promise, calling>>
      /\ l \in Connection /\ Alike(conn[c], l) /\ l.asked = conn[c].asked
      /\ l.subscriptions = conn[c].subscriptions \ {s}
  <2>1. k \in Connection /\ k.refreshers = conn[c].refreshers
        /\ Alike(conn[c], k) /\ k.asked = conn[c].asked
        /\ k.subscriptions = conn[c].subscriptions \ {s}
    BY <1>2 DEF Connection, Alike
  <2>2. R \in SUBSET Channels
    BY <1>2 DEF Connection
  <2>a. /\ \/ k.subscriptions # {} /\ Become(c, l) /\ pool' = pool
           \/ k.subscriptions = {} /\ Become(c, TearDown(l)) /\ Release(c)
        /\ Tell({s}, "client")
        /\ UNCHANGED <<home, promise, calling>>
    BY DEF Unsubscribe
  <2>b. l = [k EXCEPT !.refreshers = R]
    BY <2>1
  <2> HIDE DEF c, k, R, l
  <2>3. /\ l \in Connection /\ Alike(k, l) /\ l.asked = k.asked
        /\ l.subscriptions = k.subscriptions
    BY <2>1, <2>2, <2>b DEF Connection, Alike
  <2>4. QED
    BY <2>1, <2>3, <2>a DEF Alike
<1>4. home[s] = c
  OBVIOUS
<1> HIDE DEF c, k, R, l
<1>5. /\ heard' \in [Subscribers -> {"nothing", "down", "up", "client"}]
      /\ \A x \in Subscribers : heard'[x] = IF x = s THEN "client" ELSE heard[x]
  BY <1>3, TellEffect
<1>6. CASE l.subscriptions # {} /\ Become(c, l) /\ pool' = pool
  <2>1. OnlyConn(c) /\ conn'[c] = l
    BY <1>1, <1>3, <1>6, BecomeEffect
  <2>2. l.url = conn[c].url
    BY <1>3 DEF Alike
  <2>3. QED
    BY <1>1, <1>3, <1>4, <1>5, <1>6, <2>1, <2>2
<1>7. CASE l.subscriptions = {} /\ Become(c, TearDown(l)) /\ Release(c)
  <2>1. /\ TearDown(l) \in Connection /\ Dead(TearDown(l))
        /\ TearDown(l).url = l.url /\ TearDown(l).subscriptions = l.subscriptions
    BY <1>3, TearDownRecord DEF Dead
  <2>2. OnlyConn(c) /\ conn'[c] = TearDown(l)
    BY <1>1, <1>7, <2>1, BecomeEffect
  <2>3. l.url = conn[c].url
    BY <1>3 DEF Alike
  <2>4. /\ pool' \in [Urls -> Subscribers \cup {None}]
        /\ \A u \in Urls : pool'[u] = IF pool[u] = c THEN None ELSE pool[u]
    BY <1>1, <1>7, ReleaseEffect
  <2>5. QED
    BY <1>1, <1>3, <1>4, <1>5, <1>7, <2>1, <2>2, <2>3, <2>4
<1>8. QED
  BY <1>3, <1>6, <1>7

-------------------------------------------------------------------------------
(* The client side: an action changes one connection.                      *)

NotBoth == ~({"subscribe", "unsubscribe"} \subseteq Callbacks)

\* Only connection c's handler starts or ends; the handler of another one that
\* was torn down under it finds its endpoint's key as free as before.
OnlyCalls(c) ==
    /\ calling' \in {Idle} \cup (Subscribers \X Event)
    /\ \A d \in Subscribers \ {c}, e \in Event :
          /\ calling' = <<d, e>> <=> calling = <<d, e>>
          /\ calling = <<d, "close">> /\ conn[d].tornDown => pool'[conn[d].url] = None

OnlyPool(c) ==
    /\ pool' \in [Urls -> Subscribers \cup {None}]
    /\ \A d \in Subscribers \ {c}, u \in Urls : pool'[u] = d <=> pool[u] = d

\* Nobody leaves the connection it is on.
Settled ==
    /\ home' \in [Subscribers -> Subscribers \cup {None}]
    /\ \A s \in Subscribers : home[s] # None => home'[s] = home[s]

\* An action on connection c; what it does to c is left to the invariants.
ActsOn(c) ==
    /\ OnlyConn(c) /\ OnlyCalls(c) /\ OnlyPool(c) /\ Settled
    /\ \A s \in Subscribers : home'[s] \in {c, home[s]}
    /\ conn'[c].ws # "none"
    /\ promise' \in [Subscribers -> {"none", "pending", "resolved", "rejected"}]
    /\ heard' \in [Subscribers -> {"nothing", "down", "up", "client"}]

LEMMA OneAtATime ==
    ASSUME NEW c \in Subscribers, NEW d \in Subscribers, NEW e, NEW f
    PROVE  /\ <<c, e>> # Idle
           /\ <<c, e>> = <<d, f>> => c = d /\ e = f
BY ConnectionAssumption DEF Idle

LEMMA Events ==
    /\ {"close", "refresh", "giveUp"} \subseteq Event
    /\ Channels \subseteq Event
    /\ \A ch \in Channels : ch \notin {"close", "refresh", "giveUp"}
BY ConnectionAssumption DEF Event

\* A connection with a subscription stays one.
LEMMA HomesKept ==
    ASSUME NEW c \in Subscribers, ActsOn(c), ClientInv, NEW d \in Subscribers
    PROVE  home'[d] # None => conn'[home'[d]].ws # "none"
<1>1. CASE home'[d] = c
  BY <1>1 DEF ActsOn
<1>2. CASE home'[d] # c
  <2>1. home'[d] = home[d]
    BY <1>2 DEF ActsOn
  <2>2. home'[d] # None => home[d] \in Subscribers \ {c}
    BY <1>2, <2>1 DEF ActsOn, Settled
  <2>3. home[d] # None => conn[home[d]].ws # "none"
    BY DEF ClientInv, ConnectionInv
  <2>4. home'[d] # None => conn'[home[d]] = conn[home[d]]
    BY <2>2 DEF ActsOn, OnlyConn
  <2>5. QED
    BY <2>1, <2>3, <2>4
<1>3. QED
  BY <1>1, <1>2

LEMMA OthersWay ==
    ASSUME NEW c \in Subscribers, ActsOn(c), ClientInv,
           NEW d \in Subscribers \ {c}
    PROVE  WayInv(d)' /\ ConnectionInv(d)' /\ CallInv(d)' /\ PoolInv(d)'
<1>1. conn'[d] = conn[d]
  BY DEF ActsOn, OnlyConn
<1>2. InUse(d)' <=> InUse(d)
  BY <1>1 DEF InUse
<1>3. WayInv(d)'
  <2>1. Rebuilding(d)' <=> Rebuilding(d)
    BY Events DEF ActsOn, OnlyCalls, Rebuilding
  <2>2. QED
    BY <1>1, <1>2, <2>1 DEF ClientInv, WayInv, Stalled, BySocket, ByTimer, ByRefresh, Attached
<1>4. ConnectionInv(d)'
  <2>1. home[d] # None => home'[d] = home[d]
    BY DEF ActsOn, Settled
  <2>2. home'[d] # None => conn'[home'[d]].ws # "none"
    BY HomesKept
  <2>3. \A s \in conn[d].subscriptions : home'[s] = d
    <3> TAKE s \in conn[d].subscriptions
    <3>1. s \in Subscribers
      BY DEF ClientInv, TypeOK, Connection
    <3>2. home[s] = d
      BY DEF ClientInv, ConnectionInv
    <3>3. d # None
      BY ConnectionAssumption
    <3>4. QED
      BY <3>1, <3>2, <3>3 DEF ActsOn, Settled
  <2>4. ConnectionInv(d)
    BY DEF ClientInv
  <2>5. QED
    BY <1>1, <2>1, <2>2, <2>3, <2>4 DEF ConnectionInv, Attached
<1>5. CallInv(d)'
  <2>1. CallInv(d)
    BY DEF ClientInv
  <2>2. \A e \in Event : calling' = <<d, e>> <=> calling = <<d, e>>
    BY DEF ActsOn, OnlyCalls
  <2>3. calling = <<d, "close">> /\ conn[d].tornDown => pool'[conn[d].url] = None
    BY Events DEF ActsOn, OnlyCalls
  <2>4. \A e \in Event : calling' = <<d, e>> => conn'[d].ws # "none"
    BY <1>1, <2>1, <2>2 DEF CallInv
  <2>5. calling' = <<d, "close">> /\ conn'[d].tornDown =>
          pool'[conn'[d].url] = None /\ "unsubscribe" \in Callbacks
    BY <1>1, <2>1, <2>2, <2>3, Events DEF CallInv
  <2>6. calling' = <<d, "refresh">> /\ conn'[d].tornDown => conn'[d].subscriptions = {}
    BY <1>1, <2>1, <2>2, Events DEF CallInv
  <2>7. \A ch \in Channels : calling' = <<d, ch>> /\ InUse(d)' => Attached(conn[d])'
    BY <1>1, <1>2, <2>1, <2>2, Events DEF CallInv, Attached
  <2>8. QED
    BY <2>4, <2>5, <2>6, <2>7 DEF CallInv
<1>6. PoolInv(d)'
  BY <1>1, <1>2 DEF ClientInv, PoolInv, ActsOn, OnlyPool
<1>7. QED
  BY <1>3, <1>4, <1>5, <1>6

\* It is enough to look at the connection acted on.
LEMMA ActLifts ==
    ASSUME NEW c \in Subscribers, ActsOn(c), ClientInv,
           WayInv(c)', ConnectionInv(c)', CallInv(c)', PoolInv(c)'
    PROVE  ClientInv'
<1>1. TypeOK'
  BY DEF ActsOn, OnlyConn, OnlyCalls, OnlyPool, Settled, TypeOK
<1>2. QED
  BY <1>1, OthersWay DEF ClientInv

LEMMA HearingLifts ==
    ASSUME NEW c \in Subscribers, ActsOn(c), ClientInv, ToldInv, HeardInv(c)',
           \A s \in Subscribers : home[s] # c /\ home'[s] # c => heard'[s] = heard[s]
    PROVE  ToldInv'
<1> SUFFICES ASSUME NEW d \in Subscribers \ {c}
             PROVE  HeardInv(d)'
  BY DEF ToldInv
<1>1. conn'[d] = conn[d] /\ (InUse(d)' <=> InUse(d))
  BY DEF ActsOn, OnlyConn, InUse
<1>2. \A s \in Subscribers : home'[s] = d => home[s] = d /\ heard'[s] = heard[s]
  BY ConnectionAssumption DEF ActsOn, Settled
<1>3. \A s \in conn[d].subscriptions : s \in Subscribers /\ home[s] = d /\ home'[s] = d
  BY ConnectionAssumption DEF ClientInv, TypeOK, Connection, ConnectionInv, ActsOn, Settled
<1>4. \A s \in conn[d].subscriptions : heard'[s] = heard[s]
  BY <1>2, <1>3
<1>5. HeardInv(d)
  BY DEF ToldInv
<1>6. \A e \in Event : calling' = <<d, e>> <=> calling = <<d, e>>
  BY DEF ActsOn, OnlyCalls
<1>7. \A s \in Subscribers : home'[s] = d /\ heard'[s] # "client" =>
          (s \in conn'[d].subscriptions /\ InUse(d)') \/ heard'[s] = "down"
  BY <1>1, <1>2, <1>5 DEF HeardInv
<1>8. calling' = <<d, "giveUp">> => \A s \in conn'[d].subscriptions : heard'[s] = "down"
  BY <1>1, <1>4, <1>5, <1>6, Events DEF HeardInv
<1>9. \A ch \in Channels : calling' = <<d, ch>> =>
          \A s \in conn'[d].subscriptions \cap On(ch) : heard'[s] = "down"
  BY <1>1, <1>4, <1>5, <1>6, Events DEF HeardInv
<1>10. QED
  BY <1>7, <1>8, <1>9 DEF HeardInv

LocalInv(c) == WayInv(c) /\ ConnectionInv(c) /\ CallInv(c) /\ PoolInv(c)

\* What is told, is told to the subscriptions of c.
Elsewhere(c) ==
    \A s \in Subscribers : home[s] # c /\ home'[s] # c => heard'[s] = heard[s]

\* The handler that is calling back, if any, is one of connection c.
MyCalls(c) == calling \in {Idle} \cup ({c} \X Event)

LEMMA MyHandler ==
    ASSUME NEW c \in Subscribers, MyCalls(c), MyCalls(c)'
    PROVE  OnlyCalls(c)
<1>1. calling' \in {Idle} \cup (Subscribers \X Event)
  BY DEF MyCalls
<1>2. ASSUME NEW d \in Subscribers \ {c}, NEW e \in Event
      PROVE  calling # <<d, e>> /\ calling' # <<d, e>>
  BY ConnectionAssumption DEF MyCalls, Idle
<1>3. QED
  BY <1>1, <1>2, Events DEF OnlyCalls

LEMMA SamePool ==
    ASSUME TypeOK, pool' = pool, NEW c \in Subscribers
    PROVE  OnlyPool(c)
BY DEF TypeOK, OnlyPool

LEMMA ReleasedPool ==
    ASSUME NEW c \in Subscribers, pool' \in [Urls -> Subscribers \cup {None}],
           \A u \in Urls : pool'[u] = IF pool[u] = c THEN None ELSE pool[u]
    PROVE  OnlyPool(c)
BY ConnectionAssumption DEF OnlyPool

\* An action that leaves everybody at home.
LEMMA ActsRule ==
    ASSUME TypeOK, NEW c \in Subscribers, OnlyConn(c), OnlyCalls(c), OnlyPool(c),
           conn'[c].ws # "none", home' = home,
           promise' \in [Subscribers -> {"none", "pending", "resolved", "rejected"}],
           heard' \in [Subscribers -> {"nothing", "down", "up", "client"}]
    PROVE  ActsOn(c)
BY DEF ActsOn, Settled, TypeOK

LEMMA ConnectionRule ==
    ASSUME ClientInv, NEW c \in Subscribers, ActsOn(c), home'[c] # None,
           conn'[c].tornDown => ~Attached(conn'[c]) /\ ~conn'[c].timer,
           conn'[c].asked # {} => conn'[c].ws = "open",
           \A s \in conn'[c].subscriptions : home'[s] = c
    PROVE  ConnectionInv(c)'
<1>1. home'[c] # None => conn'[home'[c]].ws # "none"
  BY HomesKept
<1>2. conn'[c].ws # "none"
  BY DEF ActsOn
<1>3. QED
  BY <1>1, <1>2 DEF ConnectionInv, Attached

\* Outside of every handler nothing is left to be found.
LEMMA IdleCalls ==
    ASSUME NEW c \in Subscribers, calling' = Idle
    PROVE  CallInv(c)' /\ ~Rebuilding(c)'
<1>1. \A e : calling' # <<c, e>>
  BY OneAtATime
<1>2. ~Rebuilding(c)'
  BY <1>1 DEF Rebuilding
<1>3. \A e \in Event : calling' = <<c, e>> => conn'[c].ws # "none"
  BY <1>1
<1>4. CallInv(c)'
  BY <1>1, <1>3 DEF CallInv
<1>5. QED
  BY <1>2, <1>4

\* A teardown that releases the key.
LEMMA Ended ==
    ASSUME ClientInv, NEW c \in Subscribers, ActsOn(c), Dead(conn'[c]),
           home' = home, conn[c].ws # "none", calling' = Idle,
           conn'[c].subscriptions \subseteq conn[c].subscriptions,
           \A u \in Urls : pool'[u] = IF pool[u] = c THEN None ELSE pool[u]
    PROVE  LocalInv(c)'
<1>1. home[c] # None /\ \A s \in conn[c].subscriptions : home[s] = c
  BY DEF ClientInv, ConnectionInv
<1>2. ConnectionInv(c)'
  BY <1>1, ConnectionRule DEF Dead, Attached
<1>3. ~InUse(c)'
  BY DEF Dead, InUse
<1>4. WayInv(c)'
  BY <1>3 DEF WayInv
<1>5. PoolInv(c)'
  BY <1>3, ConnectionAssumption DEF PoolInv
<1>6. QED
  BY <1>2, <1>4, <1>5, IdleCalls DEF LocalInv

\* A change of what no invariant is about, or of who subscribes.
LEMMA Kept ==
    ASSUME ClientInv, NEW c \in Subscribers, ActsOn(c), Alike(conn[c], conn'[c]),
           pool' = pool, calling' = calling,
           conn'[c].asked # {} => conn'[c].ws = "open",
           conn'[c].subscriptions # {} \/ conn'[c].subscriptions = conn[c].subscriptions,
           \A s \in conn'[c].subscriptions : home'[s] = c,
           conn[c].tornDown => conn'[c].subscriptions \subseteq conn[c].subscriptions
    PROVE  LocalInv(c)'
<1>1. home'[c] # None
  <2>1. conn[c].ws # "none"
    BY DEF ActsOn, Alike
  <2>2. QED
    BY <2>1 DEF ClientInv, ConnectionInv, ActsOn, Settled
<1>2. Attached(conn'[c]) <=> Attached(conn[c])
  BY DEF Attached, Alike
<1>3. ConnectionInv(c)'
  BY <1>1, <1>2, ConnectionRule DEF ClientInv, ConnectionInv, Alike
<1>4. InUse(c)' <=> InUse(c)
  BY DEF InUse, Alike
<1>5. WayInv(c)'
  BY <1>2, <1>4 DEF ClientInv, WayInv, Rebuilding, BySocket, ByTimer, ByRefresh, Stalled, Alike, Attached
<1>6. PoolInv(c)'
  BY <1>4 DEF ClientInv, PoolInv, Alike
<1>7. CallInv(c)'
  <2>1. CallInv(c) /\ conn'[c].url = conn[c].url /\ conn'[c].ws = conn[c].ws
        /\ conn'[c].tornDown = conn[c].tornDown
    BY DEF ClientInv, Alike
  <2>2. \A ch \in Channels : calling' = <<c, ch>> /\ InUse(c)' => Attached(conn[c])'
    BY <1>2, <1>4, <2>1 DEF CallInv, Attached
  <2>3. calling' = <<c, "refresh">> /\ conn'[c].tornDown => conn'[c].subscriptions = {}
    BY <2>1 DEF CallInv
  <2>4. QED
    BY <2>1, <2>2, <2>3 DEF CallInv
<1>8. QED
  BY <1>3, <1>5, <1>6, <1>7 DEF LocalInv

\* What an action on connection c does, as far as the invariants see it.
Acted(c) ==
    /\ ActsOn(c) /\ LocalInv(c)' /\ Elsewhere(c)
    /\ "subscribe" \notin Callbacks /\ HeardInv(c) => HeardInv(c)'

\* Outside of every handler only the first part of HeardInv says anything.
LEMMA HeardIdle ==
    ASSUME NEW c \in Subscribers, calling' = Idle,
           \A s \in Subscribers : home'[s] = c /\ heard'[s] # "client" =>
              (s \in conn'[c].subscriptions /\ InUse(c)') \/ heard'[s] = "down"
    PROVE  HeardInv(c)'
<1>1. \A e : calling' # <<c, e>>
  BY OneAtATime
<1>2. QED
  BY <1>1 DEF HeardInv

LEMMA HeardKept ==
    ASSUME NEW c \in Subscribers, Alike(conn[c], conn'[c]),
           conn'[c].subscriptions = conn[c].subscriptions,
           UNCHANGED <<home, heard, calling>>
    PROVE  HeardInv(c) => HeardInv(c)'
<1>1. InUse(c)' <=> InUse(c)
  BY DEF InUse, Alike
<1>2. QED
  BY <1>1 DEF HeardInv

-------------------------------------------------------------------------------
(* The client side: the application's calls.                               *)

LEMMA SubscribeActs ==
    ASSUME ClientInv, NotBoth,
           NEW s \in Subscribers, NEW u \in Urls, NEW token \in Token, Subscribe(s, u, token)
    PROVE  \E c \in Subscribers : Acted(c)
<1>0. TypeOK
  BY DEF ClientInv
<1>1. PICK c \in Subscribers, k \in Connection :
              /\ c = IF pool[u] = None THEN s ELSE pool[u]
              /\ k = IF pool[u] = None THEN Created(u) ELSE conn[c]
              /\ OnlyConn(c) /\ Alike(k, conn'[c])
              /\ conn'[c].subscriptions = k.subscriptions \cup {s}
              /\ k.ws # "open" => conn'[c].asked = k.asked
              /\ home[s] = None
              /\ pool' = [pool EXCEPT ![u] = c] /\ home' = [home EXCEPT ![s] = c]
              /\ promise' \in [Subscribers -> {"none", "pending", "resolved", "rejected"}]
              /\ UNCHANGED <<heard, calling>>
  BY <1>0, SubscribeEffect
<1>2. calling = Idle \/ "subscribe" \in Callbacks
  BY DEF Subscribe, MayCall
<1>3. conn[s].ws = "none"
  BY <1>1 DEF ClientInv, ConnectionInv
<1>4. ASSUME pool[u] # None
      PROVE  /\ c = pool[u] /\ k = conn[c] /\ InUse(c) /\ conn[c].url = u
             /\ pool' = pool /\ c # s
  <2>1. c = pool[u] /\ k = conn[c]
    BY <1>1, <1>4
  <2>2. InUse(c) /\ conn[c].url = u
    BY <2>1 DEF ClientInv, PoolInv
  <2>3. pool' = pool
    BY <1>0, <1>1, <2>1 DEF TypeOK
  <2>4. QED
    BY <1>3, <2>1, <2>2, <2>3 DEF InUse
<1>5. ASSUME pool[u] = None
      PROVE  /\ c = s /\ BySocket(conn'[s]) /\ conn'[s].ws = "connecting" /\ ~conn'[s].tornDown
             /\ conn'[s].asked = {} /\ conn'[s].url = u /\ conn'[s].subscriptions = {s}
  <2>1. c = s /\ k = Created(u)
    BY <1>1, <1>5
  <2>2. QED
    BY <1>1, <2>1, CreatedRecord DEF Alike, BySocket, Attached
<1>6. ActsOn(c)
  <2>1. OnlyPool(c)
    BY <1>0, <1>1, <1>4, ConnectionAssumption DEF OnlyPool, TypeOK
  <2>2. OnlyCalls(c)
    <3>1. calling' \in {Idle} \cup (Subscribers \X Event)
      BY <1>0, <1>1 DEF TypeOK
    <3>2. ASSUME NEW d \in Subscribers \ {c}, calling = <<d, "close">>, conn[d].tornDown
          PROVE  FALSE
      <4>1. "unsubscribe" \in Callbacks
        BY <3>2 DEF ClientInv, CallInv
      <4>2. "subscribe" \in Callbacks
        BY <1>2, <3>2, OneAtATime
      <4>3. QED
        BY <4>1, <4>2 DEF NotBoth
    <3>3. QED
      BY <1>1, <3>1, <3>2 DEF OnlyCalls
  <2>3. Settled /\ \A x \in Subscribers : home'[x] \in {c, home[x]}
    BY <1>0, <1>1 DEF Settled, TypeOK
  <2>4. conn'[c].ws # "none"
    BY <1>1, <1>4, <1>5 DEF Alike, InUse
  <2>5. QED
    BY <1>0, <1>1, <2>1, <2>2, <2>3, <2>4 DEF ActsOn, TypeOK
<1>7. home'[s] = c /\ \A x \in Subscribers \ {s} : home'[x] = home[x]
  BY <1>0, <1>1 DEF TypeOK
<1>8. Elsewhere(c)
  BY <1>1 DEF Elsewhere
<1>9. CASE pool[u] # None
  <2>1. \A x \in conn[c].subscriptions : x \in Subscribers /\ home[x] = c
    BY <1>0 DEF ClientInv, ConnectionInv, TypeOK, Connection
  <2>2. \A x \in conn'[c].subscriptions : home'[x] = c
    BY <1>1, <1>4, <1>7, <1>9, <2>1
  <2>3. conn[c].asked # {} => conn[c].ws = "open"
    BY DEF ClientInv, ConnectionInv
  <2>4. LocalInv(c)'
    BY <1>1, <1>4, <1>6, <1>9, <2>2, <2>3, Kept DEF Alike, InUse
  <2>5. ASSUME "subscribe" \notin Callbacks, HeardInv(c)
        PROVE  HeardInv(c)'
    <3>1. calling' = Idle
      BY <1>1, <1>2, <2>5
    <3>2. InUse(c)'
      BY <1>1, <1>4, <1>9 DEF InUse, Alike
    <3>3. ASSUME NEW x \in Subscribers, home'[x] = c, heard'[x] # "client"
          PROVE  x \in conn'[c].subscriptions \/ heard'[x] = "down"
      BY <1>1, <1>4, <1>7, <1>9, <2>5, <3>3 DEF HeardInv
    <3>4. QED
      BY <3>1, <3>2, <3>3, HeardIdle
  <2>6. QED
    BY <1>6, <1>8, <2>4, <2>5 DEF Acted
<1>10. CASE pool[u] = None
  <2>1. \A e \in Event : calling # <<s, e>>
    BY <1>3 DEF ClientInv, CallInv
  <2>2. ~Rebuilding(s)'
    BY <1>1, <2>1, Events DEF Rebuilding
  <2>3. InUse(s)'
    BY <1>5, <1>10 DEF InUse
  <2>4. WayInv(s)'
    BY <1>5, <1>10, <2>2 DEF WayInv
  <2>5. ConnectionInv(s)'
    <3>1. home'[s] = s /\ s # None
      BY <1>5, <1>7, <1>10, ConnectionAssumption
    <3>2. QED
      BY <1>5, <1>6, <1>10, <3>1, ConnectionRule
  <2>6. CallInv(s)'
    BY <1>1, <2>1, Events DEF CallInv
  <2>7. PoolInv(s)'
    <3>1. \A v \in Urls : pool[v] # s
      BY <1>3 DEF ClientInv, PoolInv, InUse
    <3>2. \A v \in Urls : pool'[v] = IF v = u THEN s ELSE pool[v]
      BY <1>0, <1>1, <1>5, <1>10 DEF TypeOK
    <3>3. QED
      BY <1>5, <1>10, <2>3, <3>1, <3>2 DEF PoolInv
  <2>8. ASSUME "subscribe" \notin Callbacks
        PROVE  HeardInv(s)'
    <3>1. calling' = Idle
      BY <1>1, <1>2, <2>8
    <3>2. \A x \in Subscribers \ {s} : home[x] # s
      BY <1>3, ConnectionAssumption DEF ClientInv, ConnectionInv
    <3>3. \A x \in Subscribers : home'[x] = s => x \in conn'[s].subscriptions
      BY <1>5, <1>7, <1>10, <3>2
    <3>4. QED
      BY <2>3, <3>1, <3>3, HeardIdle
  <2>9. QED
    BY <1>5, <1>6, <1>8, <1>10, <2>4, <2>5, <2>6, <2>7, <2>8 DEF Acted, LocalInv
<1>11. QED
  BY <1>9, <1>10

LEMMA UnsubscribeActs ==
    ASSUME ClientInv, NEW s \in Subscribers, Unsubscribe(s)
    PROVE  \E c \in Subscribers : Acted(c)
<1>0. TypeOK
  BY DEF ClientInv
<1>1. PICK c \in Subscribers :
              /\ home[s] = c
              /\ OnlyConn(c)
              /\ conn'[c].subscriptions = conn[c].subscriptions \ {s}
              /\ conn'[c].url = conn[c].url
              /\ \/ /\ conn'[c].subscriptions # {}
                    /\ Alike(conn[c], conn'[c]) /\ conn'[c].asked = conn[c].asked
                    /\ pool' = pool
                 \/ /\ conn'[c].subscriptions = {} /\ Dead(conn'[c])
                    /\ pool' \in [Urls -> Subscribers \cup {None}]
                    /\ \A u \in Urls : pool'[u] = IF pool[u] = c THEN None ELSE pool[u]
              /\ heard' \in [Subscribers -> {"nothing", "down", "up", "client"}]
              /\ \A x \in Subscribers : heard'[x] = IF x = s THEN "client" ELSE heard[x]
              /\ UNCHANGED <<home, promise, calling>>
  BY <1>0, UnsubscribeEffect
<1>2. conn[c].ws # "none" /\ home[c] # None
  BY <1>1, ConnectionAssumption DEF ClientInv, ConnectionInv
<1>3. \A x \in conn[c].subscriptions : home[x] = c
  BY DEF ClientInv, ConnectionInv
<1>4. Elsewhere(c)
  BY <1>1 DEF Elsewhere
<1>5. OnlyPool(c)
  BY <1>0, <1>1, SamePool, ReleasedPool
<1>6. OnlyCalls(c)
  <2>1. calling' \in {Idle} \cup (Subscribers \X Event)
    BY <1>0, <1>1 DEF TypeOK
  <2>2. ASSUME NEW d \in Subscribers, calling = <<d, "close">>, conn[d].tornDown
        PROVE  pool'[conn[d].url] = None
    <3>1. pool[conn[d].url] = None
      BY <2>2 DEF ClientInv, CallInv
    <3>2. conn[d].url \in Urls
      BY <1>0 DEF TypeOK, Connection
    <3>3. QED
      BY <1>1, <3>1, <3>2
  <2>3. QED
    BY <1>1, <2>1, <2>2 DEF OnlyCalls
<1>7. conn'[c].ws # "none"
  BY <1>1, <1>2 DEF Alike, Dead
<1>8. ActsOn(c)
  BY <1>0, <1>1, <1>5, <1>6, <1>7, ActsRule DEF TypeOK
<1>9. CASE /\ conn'[c].subscriptions # {}
           /\ Alike(conn[c], conn'[c]) /\ conn'[c].asked = conn[c].asked
           /\ pool' = pool
  <2>1. conn[c].asked # {} => conn[c].ws = "open"
    BY DEF ClientInv, ConnectionInv
  <2>2. LocalInv(c)'
    BY <1>1, <1>3, <1>8, <1>9, <2>1, Kept DEF Alike
  <2>3. HeardInv(c) => HeardInv(c)'
    <3>1. InUse(c)' <=> InUse(c)
      BY <1>9 DEF InUse, Alike
    <3>2. \A x \in conn'[c].subscriptions : x \in conn[c].subscriptions /\ x \in Subscribers /\ x # s
      BY <1>0, <1>1 DEF TypeOK, Connection
    <3>3. \A x \in conn'[c].subscriptions : heard'[x] = heard[x]
      BY <1>1, <3>2
    <3>4. HeardInv(c) => \A x \in Subscribers : home'[x] = c /\ heard'[x] # "client" =>
              (x \in conn'[c].subscriptions /\ InUse(c)') \/ heard'[x] = "down"
      BY <1>1, <3>1 DEF HeardInv
    <3>5. QED
      BY <1>1, <3>2, <3>3, <3>4 DEF HeardInv
  <2>4. QED
    BY <1>4, <1>8, <2>2, <2>3 DEF Acted
<1>10. CASE /\ conn'[c].subscriptions = {} /\ Dead(conn'[c])
            /\ \A u \in Urls : pool'[u] = IF pool[u] = c THEN None ELSE pool[u]
  <2>1. ~InUse(c)'
    BY <1>10 DEF Dead, InUse
  <2>2. WayInv(c)'
    BY <2>1 DEF WayInv
  <2>3. ConnectionInv(c)'
    BY <1>1, <1>2, <1>8, <1>10, ConnectionRule DEF Dead, Attached
  <2>4. PoolInv(c)'
    BY <1>10, <2>1, ConnectionAssumption DEF PoolInv
  <2>5. CallInv(c)'
    <3>1. \A e \in Event : calling' = <<c, e>> => conn'[c].ws # "none"
      BY <1>7
    <3>2. ASSUME calling = <<c, "close">>
          PROVE  pool'[conn'[c].url] = None /\ "unsubscribe" \in Callbacks
      <4>1. "unsubscribe" \in Callbacks
        BY <3>2, OneAtATime DEF Unsubscribe, MayCall
      <4>2. conn[c].url \in Urls
        BY <1>0 DEF TypeOK, Connection
      <4>3. pool[conn[c].url] \in {c, None}
        <5>1. CASE InUse(c)
          BY <4>2, <5>1 DEF ClientInv, PoolInv
        <5>2. CASE ~InUse(c)
          BY <1>2, <3>2, <5>2 DEF InUse, ClientInv, CallInv
        <5>3. QED
          BY <5>1, <5>2
      <4>4. QED
        BY <1>1, <1>10, <4>1, <4>2, <4>3
    <3>3. QED
      BY <1>1, <1>10, <2>1, <3>1, <3>2 DEF CallInv
  <2>6. HeardInv(c) => HeardInv(c)'
    BY <1>1, <1>10, <2>1 DEF HeardInv
  <2>7. QED
    BY <1>4, <1>8, <2>2, <2>3, <2>4, <2>5, <2>6 DEF Acted, LocalInv
<1>11. QED
  BY <1>1, <1>9, <1>10

-------------------------------------------------------------------------------
(* The client side: reconnection.                                          *)

\* A step on c alone that leaves the pool and everybody's home as they are.
LEMMA LocalActs ==
    ASSUME ClientInv, NEW c \in Subscribers, OnlyConn(c), conn'[c].ws # "none",
           MyCalls(c), MyCalls(c)', pool' = pool, home' = home,
           promise' \in [Subscribers -> {"none", "pending", "resolved", "rejected"}],
           heard' \in [Subscribers -> {"nothing", "down", "up", "client"}]
    PROVE  ActsOn(c)
<1>1. TypeOK
  BY DEF ClientInv
<1>2. QED
  BY <1>1, SamePool, MyHandler, ActsRule

LEMMA ReleasingActs ==
    ASSUME ClientInv, NEW c \in Subscribers, OnlyConn(c), conn'[c].ws # "none",
           MyCalls(c), MyCalls(c)', Release(c), home' = home,
           promise' \in [Subscribers -> {"none", "pending", "resolved", "rejected"}],
           heard' \in [Subscribers -> {"nothing", "down", "up", "client"}]
    PROVE  /\ ActsOn(c)
           /\ \A u \in Urls : pool'[u] = IF pool[u] = c THEN None ELSE pool[u]
<1>1. TypeOK
  BY DEF ClientInv
<1>2. QED
  BY <1>1, ReleaseEffect, ReleasedPool, MyHandler, ActsRule

\* A teardown at the end of a handler, or with the last answer of an outage.
LEMMA TearDownActs ==
    ASSUME ClientInv, NEW c \in Subscribers, NEW k \in Connection, k.url = conn[c].url,
           k.subscriptions \subseteq conn[c].subscriptions, conn[c].ws # "none",
           \/ Become(c, TearDown(k))
           \/ Become(c, [TearDown(k) EXCEPT !.resubscribePending = {}]),
           Release(c), MyCalls(c), calling' = Idle, home' = home,
           promise' \in [Subscribers -> {"none", "pending", "resolved", "rejected"}],
           heard' \in [Subscribers -> {"nothing", "down", "up", "client"}],
           \A s \in Subscribers : home[s] = c /\ heard'[s] # "client" /\ HeardInv(c) => heard'[s] = "down",
           Elsewhere(c)
    PROVE  Acted(c)
<1>1. TypeOK
  BY DEF ClientInv
<1>2. /\ OnlyConn(c) /\ Dead(conn'[c]) /\ conn'[c].url = k.url
      /\ conn'[c].subscriptions = k.subscriptions
  <2>1. PICK t \in Connection :
          /\ Become(c, t)
          /\ Dead(t) /\ t.url = k.url /\ t.subscriptions = k.subscriptions
    BY TearDownRecord
  <2>2. OnlyConn(c) /\ conn'[c] = t
    BY <1>1, <2>1, BecomeEffect
  <2>3. QED
    BY <2>1, <2>2
<1>3. conn'[c].ws # "none"
  BY <1>2 DEF Dead
<1>4. MyCalls(c)'
  BY DEF MyCalls
<1>5. /\ ActsOn(c)
      /\ \A u \in Urls : pool'[u] = IF pool[u] = c THEN None ELSE pool[u]
  BY <1>2, <1>3, <1>4, ReleasingActs
<1>6. LocalInv(c)'
  BY <1>2, <1>5, Ended
<1>7. HeardInv(c) => HeardInv(c)'
  BY HeardIdle
<1>8. QED
  BY <1>5, <1>6, <1>7 DEF Acted

\* Who is not registered has been told.
LEMMA Unregistered ==
    ASSUME NEW c \in Subscribers, HeardInv(c), conn[c].subscriptions = {} \/ ~InUse(c)
    PROVE  \A s \in Subscribers : home[s] = c /\ heard[s] # "client" => heard[s] = "down"
BY DEF HeardInv

LEMMA ScheduleActs ==
    ASSUME ClientInv, NEW c \in Subscribers,
           calling = <<c, "close">> \/ calling = <<c, "refresh">>,
           conn[c].tornDown => conn[c].subscriptions = {},
           ScheduleReconnect(c, conn[c]), home' = home
    PROVE  Acted(c)
<1>0. TypeOK /\ conn[c] \in Connection
  BY DEF ClientInv, TypeOK
<1>1. MyCalls(c) /\ conn[c].ws # "none" /\ Rebuilding(c)
  BY Events DEF MyCalls, ClientInv, CallInv, Rebuilding
<1>2. home[c] # None /\ \A s \in conn[c].subscriptions : s \in Subscribers /\ home[s] = c
  BY <1>0, <1>1 DEF ClientInv, ConnectionInv, Connection
<1>3. InUse(c) => Stalled(conn[c])
  BY <1>1 DEF ClientInv, WayInv
<1>4. CASE /\ conn[c].subscriptions = {}
           /\ Become(c, [TearDown(conn[c]) EXCEPT !.resubscribePending = {}])
           /\ Release(c) /\ calling' = Idle /\ UNCHANGED <<promise, heard>>
  <2>1. \A s \in Subscribers : home[s] = c /\ heard'[s] # "client" /\ HeardInv(c) => heard'[s] = "down"
    BY <1>4, Unregistered
  <2>2. Elsewhere(c)
    BY <1>4 DEF Elsewhere
  <2>3. QED
    BY <1>0, <1>1, <1>4, <2>1, <2>2, TearDownActs DEF TypeOK
<1>5. CASE /\ conn[c].subscriptions # {}
           /\ SettlePromises(conn[c].pendingEstablished, "rejected")
           /\ Become(c, [conn[c] EXCEPT !.pendingEstablished = {}])
           /\ Tell(conn[c].subscriptions, "down")
           /\ calling' = <<c, "giveUp">> /\ UNCHANGED pool
  <2> DEFINE l == [conn[c] EXCEPT !.pendingEstablished = {}]
  <2>1. l \in Connection /\ Alike(conn[c], l) /\ l.asked = conn[c].asked
        /\ l.subscriptions = conn[c].subscriptions
    BY <1>0, OtherFields DEF Connection
  <2>2. Become(c, l)
    BY <1>5
  <2> HIDE DEF l
  <2>3. OnlyConn(c) /\ conn'[c] = l
    BY <1>0, <2>1, <2>2, BecomeEffect
  <2>4. /\ heard' \in [Subscribers -> {"nothing", "down", "up", "client"}]
        /\ \A s \in Subscribers : heard'[s] = IF s \in conn[c].subscriptions THEN "down" ELSE heard[s]
    BY <1>0, <1>5, TellEffect
  <2>5. promise' \in [Subscribers -> {"none", "pending", "resolved", "rejected"}]
    BY <1>0, <1>5, SettleEffect
  <2>6. MyCalls(c)'
    BY <1>5, Events DEF MyCalls
  <2>7. ActsOn(c)
    BY <1>1, <1>5, <2>1, <2>3, <2>4, <2>5, <2>6, LocalActs DEF Alike
  <2>8. InUse(c)
    BY <1>1, <1>5 DEF InUse
  <2>9. WayInv(c)'
    <3>1. Rebuilding(c)'
      BY <1>5 DEF Rebuilding
    <3>2. Stalled(conn'[c])
      BY <1>3, <2>1, <2>3, <2>8 DEF Stalled, Attached, Alike
    <3>3. QED
      BY <3>1, <3>2 DEF WayInv, Stalled, Attached
  <2>10. ConnectionInv(c)'
    <3>1. conn[c].asked # {} => conn[c].ws = "open"
      BY DEF ClientInv, ConnectionInv
    <3>2. ~conn'[c].tornDown
      BY <1>5, <2>1, <2>3 DEF Alike
    <3>3. QED
      BY <1>2, <2>1, <2>3, <2>7, <3>1, <3>2, ConnectionRule DEF Alike
  <2>11. CallInv(c)'
    <3>1. calling' # <<c, "close">> /\ calling' # <<c, "refresh">>
          /\ \A ch \in Channels : calling' # <<c, ch>>
      BY <1>5, Events
    <3>2. conn'[c].ws # "none"
      BY <2>7 DEF ActsOn
    <3>3. QED
      BY <3>1, <3>2 DEF CallInv
  <2>12. PoolInv(c)'
    BY <1>5, <2>1, <2>3 DEF ClientInv, PoolInv, InUse, Alike
  <2>13. Elsewhere(c)
    BY <1>2, <2>4 DEF Elsewhere
  <2>14. HeardInv(c) => HeardInv(c)'
    <3>1. \A s \in conn'[c].subscriptions : heard'[s] = "down"
      BY <1>2, <2>1, <2>3, <2>4
    <3>2. InUse(c)'
      BY <2>1, <2>3, <2>8 DEF InUse, Alike
    <3>3. HeardInv(c) => \A s \in Subscribers : home'[s] = c /\ heard'[s] # "client" =>
              (s \in conn'[c].subscriptions /\ InUse(c)') \/ heard'[s] = "down"
      BY <2>1, <2>3, <2>4, <3>2 DEF HeardInv
    <3>4. QED
      BY <3>1, <3>3 DEF HeardInv
  <2>15. QED
    BY <2>7, <2>9, <2>10, <2>11, <2>12, <2>13, <2>14 DEF Acted, LocalInv
<1>6. CASE /\ conn[c].subscriptions # {} /\ conn[c].attempts < MAX_RECONNECT
           /\ Become(c, [conn[c] EXCEPT !.attempts = @ + 1, !.timer = TRUE])
           /\ calling' = Idle /\ UNCHANGED <<pool, promise, heard>>
  <2> DEFINE l == [conn[c] EXCEPT !.attempts = @ + 1, !.timer = TRUE]
  <2>0. conn[c].attempts + 1 \in 0..MAX_RECONNECT
    BY <1>0, <1>6, ConnectionAssumption DEF Connection
  <2>1. /\ l \in Connection /\ l.ws = conn[c].ws /\ l.timer /\ l.url = conn[c].url
        /\ l.refreshing = conn[c].refreshing /\ l.tornDown = conn[c].tornDown
        /\ l.asked = conn[c].asked /\ l.subscriptions = conn[c].subscriptions
    BY <1>0, <2>0 DEF Connection
  <2>2. Become(c, l)
    BY <1>6
  <2> HIDE DEF l
  <2>3. OnlyConn(c) /\ conn'[c] = l
    BY <1>0, <2>1, <2>2, BecomeEffect
  <2>4. MyCalls(c)'
    BY <1>6 DEF MyCalls
  <2>5. ActsOn(c)
    BY <1>0, <1>1, <1>6, <2>1, <2>3, <2>4, LocalActs DEF TypeOK
  <2>6. InUse(c) /\ Stalled(conn[c])
    BY <1>1, <1>3, <1>6 DEF InUse
  <2>7. InUse(c)' /\ ByTimer(conn'[c])
    BY <2>1, <2>3, <2>6 DEF InUse, ByTimer, Stalled, Attached
  <2>8. WayInv(c)'
    BY <1>6, <2>1, <2>3, <2>7, IdleCalls DEF WayInv, ByTimer, Attached
  <2>9. ConnectionInv(c)'
    <3>1. conn[c].asked # {} => conn[c].ws = "open"
      BY DEF ClientInv, ConnectionInv
    <3>2. ~conn'[c].tornDown
      BY <2>7 DEF InUse
    <3>3. QED
      BY <1>2, <2>1, <2>3, <2>5, <3>1, <3>2, ConnectionRule
  <2>10. PoolInv(c)'
    BY <1>6, <2>1, <2>3, <2>6, <2>7 DEF ClientInv, PoolInv
  <2>11. HeardInv(c) => HeardInv(c)'
    <3>1. HeardInv(c) => \A s \in Subscribers : home'[s] = c /\ heard'[s] # "client" =>
              (s \in conn'[c].subscriptions /\ InUse(c)') \/ heard'[s] = "down"
      BY <1>6, <2>1, <2>3, <2>7 DEF HeardInv
    <3>2. QED
      BY <1>6, <3>1, HeardIdle
  <2>12. QED
    BY <1>6, <2>5, <2>8, <2>9, <2>10, <2>11, IdleCalls DEF Acted, LocalInv, Elsewhere
<1>7. QED
  BY <1>4, <1>5, <1>6 DEF ScheduleReconnect

LEMMA RefreshFailsActs ==
    ASSUME ClientInv, NEW c \in Subscribers, RefreshFails(c)
    PROVE  Acted(c)
<1>1. calling = <<c, "refresh">> /\ ScheduleReconnect(c, conn[c]) /\ home' = home
  BY DEF RefreshFails
<1>2. conn[c].tornDown => conn[c].subscriptions = {}
  BY <1>1 DEF ClientInv, CallInv
<1>3. QED
  BY <1>1, <1>2, ScheduleActs

LEMMA GiveUpActs ==
    ASSUME ClientInv, NEW c \in Subscribers, GiveUp(c)
    PROVE  Acted(c)
<1>0. TypeOK /\ conn[c] \in Connection
  BY DEF ClientInv, TypeOK
<1>1. /\ calling = <<c, "giveUp">>
      /\ Become(c, [TearDown(conn[c]) EXCEPT !.resubscribePending = {}])
      /\ Release(c) /\ calling' = Idle /\ UNCHANGED <<home, promise, heard>>
  BY DEF GiveUp
<1>2. MyCalls(c) /\ conn[c].ws # "none"
  BY <1>1, Events DEF MyCalls, ClientInv, CallInv
<1>3. \A s \in Subscribers : home[s] = c /\ heard'[s] # "client" /\ HeardInv(c) => heard'[s] = "down"
  BY <1>1 DEF HeardInv
<1>4. Elsewhere(c)
  BY <1>1 DEF Elsewhere
<1>5. QED
  BY <1>0, <1>1, <1>2, <1>3, <1>4, TearDownActs DEF TypeOK

LEMMA IdleWay ==
    ASSUME ClientInv, NEW c \in Subscribers, InUse(c), calling = Idle
    PROVE  BySocket(conn[c]) \/ (conn[c].subscriptions # {} /\ (ByTimer(conn[c]) \/ ByRefresh(conn[c])))
<1>1. ~Rebuilding(c)
  BY OneAtATime DEF Rebuilding
<1>2. QED
  BY <1>1 DEF ClientInv, WayInv

\* Outside of every handler a connection in use goes from one thing under way
\* to the next.
LEMMA OnTheWay ==
    ASSUME ClientInv, NEW c \in Subscribers, InUse(c), calling = Idle, OnlyConn(c),
           conn'[c].ws # "none", ~conn'[c].tornDown,
           conn'[c].subscriptions = conn[c].subscriptions,
           \/ BySocket(conn'[c])
           \/ conn[c].subscriptions # {} /\ (ByTimer(conn'[c]) \/ ByRefresh(conn'[c])),
           conn'[c].asked # {} => conn'[c].ws = "open",
           OnlyPool(c), PoolInv(c)', UNCHANGED <<home, promise, heard, calling>>
    PROVE  Acted(c)
<1>0. TypeOK
  BY DEF ClientInv
<1>1. MyCalls(c) /\ MyCalls(c)'
  BY DEF MyCalls
<1>2. ActsOn(c)
  BY <1>0, <1>1, MyHandler, ActsRule DEF TypeOK
<1>3. InUse(c)'
  BY DEF InUse
<1>4. WayInv(c)'
  BY IdleCalls DEF WayInv, BySocket, ByTimer, ByRefresh, Attached
<1>5. home[c] # None /\ \A s \in conn[c].subscriptions : home[s] = c
  BY DEF ClientInv, ConnectionInv, InUse
<1>6. ConnectionInv(c)'
  BY <1>2, <1>5, ConnectionRule
<1>7. HeardInv(c) => HeardInv(c)'
  <2>1. HeardInv(c) => \A s \in Subscribers : home'[s] = c /\ heard'[s] # "client" =>
            (s \in conn'[c].subscriptions /\ InUse(c)') \/ heard'[s] = "down"
    BY <1>3 DEF HeardInv
  <2>2. QED
    BY <2>1, HeardIdle
<1>8. QED
  BY <1>2, <1>4, <1>6, <1>7, IdleCalls DEF Acted, LocalInv, Elsewhere

\* The pool is as it was, and so is the connection's endpoint.
LEMMA PoolKept ==
    ASSUME ClientInv, NEW c \in Subscribers, pool' = pool, conn'[c].url = conn[c].url,
           InUse(c)' <=> InUse(c)
    PROVE  OnlyPool(c) /\ PoolInv(c)'
<1>1. TypeOK
  BY DEF ClientInv
<1>2. PoolInv(c)
  BY DEF ClientInv
<1>3. PoolInv(c)'
  BY <1>2 DEF PoolInv
<1>4. QED
  BY <1>1, <1>3, SamePool

LEMMA OpenSocketActs ==
    ASSUME ClientInv, NEW c \in Subscribers, OpenSocket(c)
    PROVE  Acted(c)
<1>0. TypeOK /\ conn[c] \in Connection
  BY DEF ClientInv, TypeOK
<1> DEFINE k == [conn[c] EXCEPT !.timer = FALSE]
           todo == SubscribedChannels(k) \cap k.refreshers
<1>1. /\ calling = Idle /\ conn[c].timer
      /\ Become(c, IF todo = {} THEN ConstructSocket(k) ELSE [k EXCEPT !.refreshing = todo])
      /\ UNCHANGED <<pool, home, promise, heard, calling>>
  BY DEF OpenSocket
<1>2. InUse(c) /\ ByTimer(conn[c]) /\ conn[c].subscriptions # {} /\ conn[c].asked = {}
  <2>1. InUse(c)
    BY <1>0, <1>1 DEF ClientInv, ConnectionInv, InUse, Connection
  <2>2. ByTimer(conn[c]) /\ conn[c].subscriptions # {}
    BY <1>1, <2>1, IdleWay DEF BySocket, ByTimer, ByRefresh
  <2>3. QED
    BY <2>1, <2>2 DEF ClientInv, ConnectionInv, ByTimer, Attached
<1>3. /\ k \in Connection /\ k.ws = conn[c].ws /\ k.asked = {} /\ ~k.timer /\ k.refreshing = {}
      /\ k.url = conn[c].url /\ k.tornDown = conn[c].tornDown
      /\ k.subscriptions = conn[c].subscriptions
  BY <1>0, <1>2 DEF Connection, ByTimer
<1>4. todo \in SUBSET Channels
  BY <1>3 DEF Connection
<1> HIDE DEF k, todo
<1> DEFINE l == IF todo = {} THEN ConstructSocket(k) ELSE [k EXCEPT !.refreshing = todo]
<1>5. /\ l \in Connection /\ l.ws # "none" /\ l.asked = {}
      /\ l.url = conn[c].url /\ ~l.tornDown
      /\ l.subscriptions = conn[c].subscriptions
      /\ BySocket(l) \/ ByRefresh(l)
  <2>1. CASE todo = {}
    <3>1. l = ConstructSocket(k)
      BY <2>1
    <3>2. QED
      BY <1>2, <1>3, <3>1, SocketRecord DEF BySocket, Attached, InUse
  <2>2. CASE todo # {}
    <3>1. l = [k EXCEPT !.refreshing = todo]
      BY <2>2
    <3>2. QED
      BY <1>2, <1>3, <1>4, <2>2, <3>1 DEF Connection, ByRefresh, ByTimer, Attached, InUse
  <2>3. QED
    BY <2>1, <2>2
<1>6. Become(c, l)
  BY <1>1
<1> HIDE DEF l
<1>7. OnlyConn(c) /\ conn'[c] = l
  BY <1>0, <1>5, <1>6, BecomeEffect
<1>8. OnlyPool(c) /\ PoolInv(c)'
  BY <1>1, <1>2, <1>5, <1>7, PoolKept DEF InUse
<1>9. QED
  BY <1>1, <1>2, <1>5, <1>7, <1>8, OnTheWay

LEMMA RefreshActs ==
    ASSUME ClientInv, NEW c \in Subscribers, NEW good \in SUBSET Channels, NEW u \in Urls,
           RefreshSettles(c, good, u)
    PROVE  Acted(c)
<1>0. TypeOK /\ conn[c] \in Connection
  BY DEF ClientInv, TypeOK
<1> DEFINE k == [conn[c] EXCEPT !.refreshing = {}]
           applied == good \cap SubscribedChannels(k)
           rekey == u # k.url /\ pool[u] = None
           T == [ch \in Channels |-> IF ch \in applied THEN "fresh" ELSE k.channelTokens[ch]]
           fresh == [k EXCEPT
                !.connectToken = "fresh",
                !.url = IF rekey THEN u ELSE @,
                !.channelTokens = [ch \in Channels |->
                    IF ch \in applied THEN "fresh" ELSE @[ch]]]
<1>1. /\ calling = Idle /\ conn[c].refreshing # {}
      /\ \/ ~Wanted(c) /\ Become(c, k) /\ UNCHANGED <<pool, heard, calling>>
         \/ /\ Wanted(c) /\ Become(c, ConstructSocket(fresh))
            /\ pool' = (IF rekey THEN [pool EXCEPT ![k.url] = None, ![u] = c] ELSE pool)
            /\ UNCHANGED <<heard, calling>>
         \/ /\ Wanted(c) /\ Become(c, k) /\ Tell(k.subscriptions, "down")
            /\ calling' = <<c, "refresh">> /\ UNCHANGED pool
      /\ UNCHANGED <<home, promise>>
  BY DEF RefreshSettles
<1>2. conn[c].ws # "none"
  BY <1>1 DEF ClientInv, ConnectionInv
<1>3. InUse(c) => /\ ByRefresh(conn[c]) /\ conn[c].subscriptions # {} /\ conn[c].asked = {}
                  /\ Wanted(c)
  <2>1. SUFFICES ASSUME InUse(c)
                 PROVE  /\ ByRefresh(conn[c]) /\ conn[c].subscriptions # {} /\ conn[c].asked = {}
                        /\ Wanted(c)
    OBVIOUS
  <2>2. ByRefresh(conn[c]) /\ conn[c].subscriptions # {}
    BY <1>1, <2>1, IdleWay DEF BySocket, ByTimer, ByRefresh
  <2>3. conn[c].asked = {}
    BY <2>2 DEF ClientInv, ConnectionInv, ByRefresh, Attached
  <2>4. Owns(c)
    BY <1>0, <2>1 DEF ClientInv, PoolInv, Owns, Connection
  <2>5. QED
    BY <2>1, <2>2, <2>3, <2>4 DEF Wanted, InUse
<1>4. /\ k \in Connection /\ k.ws = conn[c].ws /\ k.asked = conn[c].asked
      /\ k.timer = conn[c].timer /\ k.refreshing = {}
      /\ k.url = conn[c].url /\ k.tornDown = conn[c].tornDown
      /\ k.subscriptions = conn[c].subscriptions
  BY <1>0 DEF Connection
<1>5. applied \in SUBSET Channels
  OBVIOUS
<1>6. fresh = [k EXCEPT !.connectToken = "fresh", !.url = IF rekey THEN u ELSE k.url,
                        !.channelTokens = T]
  BY <1>4 DEF Connection
<1>7. home[c] # None /\ \A s \in conn[c].subscriptions : s \in Subscribers /\ home[s] = c
  BY <1>0, <1>2 DEF ClientInv, ConnectionInv, Connection
<1>8. MyCalls(c)
  BY <1>1 DEF MyCalls
<1> HIDE DEF k, applied
<1>9. T \in [Channels -> Token]
  BY <1>4 DEF Connection, Token
<1> HIDE DEF T
<1>10. /\ fresh \in Connection /\ fresh.ws = k.ws /\ fresh.asked = k.asked
       /\ fresh.url = (IF rekey THEN u ELSE k.url) /\ fresh.tornDown = k.tornDown
       /\ fresh.subscriptions = k.subscriptions
  BY <1>4, <1>6, <1>9 DEF Connection, Token
<1> HIDE DEF fresh
<1>11. CASE ~Wanted(c) /\ Become(c, k) /\ UNCHANGED <<pool, heard, calling>>
  <2>1. conn[c].tornDown
    BY <1>2, <1>3, <1>11 DEF InUse
  <2>2. OnlyConn(c) /\ conn'[c] = k
    BY <1>0, <1>4, <1>11, BecomeEffect
  <2>3. ActsOn(c)
    BY <1>0, <1>1, <1>2, <1>4, <1>8, <1>11, <2>2, LocalActs DEF TypeOK, MyCalls
  <2>4. ~InUse(c) /\ ~InUse(c)'
    BY <1>4, <2>1, <2>2 DEF InUse
  <2>5. WayInv(c)'
    BY <2>4 DEF WayInv
  <2>6. ConnectionInv(c)'
    BY <1>1, <1>2, <1>4, <1>7, <2>2, <2>3, ConnectionRule DEF ClientInv, ConnectionInv, Attached
  <2>7. PoolInv(c)'
    BY <1>4, <1>11, <2>2, <2>4, PoolKept
  <2>8. HeardInv(c) => HeardInv(c)'
    BY <1>1, <1>4, <1>11, <2>2, <2>4 DEF HeardInv
  <2>9. QED
    BY <1>1, <1>11, <2>3, <2>5, <2>6, <2>7, <2>8, IdleCalls DEF Acted, LocalInv, Elsewhere
<1>12. CASE /\ Wanted(c) /\ Become(c, ConstructSocket(fresh))
            /\ pool' = (IF rekey THEN [pool EXCEPT ![k.url] = None, ![u] = c] ELSE pool)
            /\ UNCHANGED <<heard, calling>>
  <2>1. InUse(c)
    BY <1>2, <1>12 DEF Wanted, InUse
  <2>2. /\ ConstructSocket(fresh) \in Connection /\ BySocket(ConstructSocket(fresh))
        /\ ConstructSocket(fresh).ws = "connecting" /\ ConstructSocket(fresh).asked = {}
        /\ ConstructSocket(fresh).url = (IF rekey THEN u ELSE k.url)
        /\ ~ConstructSocket(fresh).tornDown
        /\ ConstructSocket(fresh).subscriptions = conn[c].subscriptions
    BY <1>3, <1>4, <1>10, <2>1, SocketRecord DEF BySocket, Attached, InUse
  <2>3. OnlyConn(c) /\ conn'[c] = ConstructSocket(fresh)
    BY <1>0, <1>12, <2>2, BecomeEffect
  <2>4. InUse(c)'
    BY <2>2, <2>3 DEF InUse
  <2>5. OnlyPool(c) /\ PoolInv(c)'
    <3>1. CASE rekey
      <4>1. k.url \in Urls /\ pool[k.url] = c /\ \A v \in Urls : pool[v] = c => v = k.url
        BY <1>4, <2>1 DEF ClientInv, PoolInv, Connection
      <4>2. \A v \in Urls : pool'[v] = IF v = u THEN c ELSE IF v = k.url THEN None ELSE pool[v]
        BY <1>0, <1>12, <3>1, <4>1 DEF TypeOK
      <4>3. pool' \in [Urls -> Subscribers \cup {None}]
        BY <1>0, <1>12, <3>1 DEF TypeOK
      <4>4. OnlyPool(c)
        BY <3>1, <4>1, <4>2, <4>3, ConnectionAssumption DEF OnlyPool
      <4>5. PoolInv(c)'
        BY <2>2, <2>3, <2>4, <3>1, <4>1, <4>2, ConnectionAssumption DEF PoolInv
      <4>6. QED
        BY <4>4, <4>5
    <3>2. CASE ~rekey
      BY <1>4, <1>12, <2>1, <2>2, <2>3, <2>4, <3>2, PoolKept
    <3>3. QED
      BY <3>1, <3>2
  <2>6. QED
    BY <1>1, <1>12, <2>1, <2>2, <2>3, <2>5, OnTheWay
<1>13. CASE /\ Wanted(c) /\ Become(c, k) /\ Tell(k.subscriptions, "down")
            /\ calling' = <<c, "refresh">> /\ UNCHANGED pool
  <2>1. InUse(c)
    BY <1>2, <1>13 DEF Wanted, InUse
  <2>2. OnlyConn(c) /\ conn'[c] = k
    BY <1>0, <1>4, <1>13, BecomeEffect
  <2>3. /\ heard' \in [Subscribers -> {"nothing", "down", "up", "client"}]
        /\ \A s \in Subscribers : heard'[s] = IF s \in conn[c].subscriptions THEN "down" ELSE heard[s]
    BY <1>0, <1>4, <1>13, TellEffect
  <2>4. MyCalls(c)'
    BY <1>13, Events DEF MyCalls
  <2>5. ActsOn(c)
    BY <1>0, <1>1, <1>2, <1>4, <1>8, <1>13, <2>2, <2>3, <2>4, LocalActs DEF TypeOK
  <2>6. InUse(c)' /\ Stalled(conn'[c]) /\ conn'[c].asked = {}
    BY <1>3, <1>4, <2>1, <2>2 DEF InUse, Stalled, ByRefresh, Attached
  <2>7. WayInv(c)'
    <3>1. Rebuilding(c)'
      BY <1>13 DEF Rebuilding
    <3>2. QED
      BY <2>6, <3>1 DEF WayInv, Stalled, Attached
  <2>8. ConnectionInv(c)'
    BY <1>1, <1>4, <1>7, <2>2, <2>5, <2>6, ConnectionRule DEF InUse
  <2>9. CallInv(c)'
    <3>1. calling' # <<c, "close">> /\ \A ch \in Channels : calling' # <<c, ch>>
      BY <1>13, Events
    <3>2. QED
      BY <2>6, <3>1 DEF CallInv, InUse
  <2>10. PoolInv(c)'
    BY <1>4, <1>13, <2>1, <2>2, <2>6, PoolKept
  <2>11. Elsewhere(c)
    BY <1>7, <2>3 DEF Elsewhere
  <2>12. HeardInv(c) => HeardInv(c)'
    <3>1. HeardInv(c) => \A s \in Subscribers : home'[s] = c /\ heard'[s] # "client" =>
              (s \in conn'[c].subscriptions /\ InUse(c)') \/ heard'[s] = "down"
      BY <1>1, <1>4, <2>2, <2>3, <2>6 DEF HeardInv
    <3>2. calling' # <<c, "giveUp">> /\ \A ch \in Channels : calling' # <<c, ch>>
      BY <1>13, Events
    <3>3. QED
      BY <3>1, <3>2 DEF HeardInv
  <2>13. QED
    BY <2>5, <2>7, <2>8, <2>9, <2>10, <2>11, <2>12 DEF Acted, LocalInv
<1>14. QED
  BY <1>1, <1>11, <1>12, <1>13

-------------------------------------------------------------------------------
(* The client side: the socket's events.                                   *)

LEMMA OnOpenActs ==
    ASSUME ClientInv, NEW c \in Subscribers, OnOpen(c)
    PROVE  Acted(c)
<1>0. TypeOK /\ conn[c] \in Connection
  BY DEF ClientInv, TypeOK
<1> DEFINE chs == SubscribedChannels(conn[c])
           A == {<<ch, conn[c].channelTokens[ch]>> : ch \in chs}
           R == IF conn[c].again THEN chs ELSE conn[c].resubscribePending
           l == [conn[c] EXCEPT !.ws = "open", !.keepAlive = TRUE, !.asked = A,
                                !.resubscribePending = R]
<1>1. /\ calling = Idle /\ conn[c].ws = "connecting"
      /\ Become(c, [conn[c] EXCEPT !.ws = "open", !.keepAlive = TRUE, !.asked = A,
            !.resubscribePending = IF conn[c].again THEN chs ELSE @])
      /\ UNCHANGED <<pool, home, promise, heard, calling>>
  BY DEF OnOpen
<1>2. Become(c, l)
  BY <1>0, <1>1 DEF Connection
<1>3. chs \in SUBSET Channels
  BY <1>0, ConnectionAssumption DEF SubscribedChannels, Connection
<1> HIDE DEF chs
<1>4. A \in SUBSET (Channels \X Token)
  BY <1>0, <1>3 DEF Connection
<1>5. R \in SUBSET Channels
  BY <1>0, <1>3 DEF Connection
<1> HIDE DEF A, R
<1>6. /\ l \in Connection /\ l.ws = "open" /\ l.timer = conn[c].timer
      /\ l.refreshing = conn[c].refreshing /\ l.tornDown = conn[c].tornDown
      /\ l.url = conn[c].url /\ l.subscriptions = conn[c].subscriptions
  BY <1>0, <1>4, <1>5 DEF Connection
<1> HIDE DEF l
<1>7. OnlyConn(c) /\ conn'[c] = l
  BY <1>0, <1>2, <1>6, BecomeEffect
<1>8. InUse(c) /\ BySocket(conn[c])
  <2>1. ~conn[c].tornDown
    BY <1>1 DEF ClientInv, ConnectionInv, Attached
  <2>2. InUse(c)
    BY <1>1, <2>1 DEF InUse
  <2>3. QED
    BY <1>1, <2>2, IdleWay DEF BySocket, ByTimer, ByRefresh, Attached
<1>9. InUse(c)' /\ BySocket(conn'[c])
  BY <1>6, <1>7, <1>8 DEF InUse, BySocket, Attached
<1>10. OnlyPool(c) /\ PoolInv(c)'
  BY <1>1, <1>6, <1>7, <1>8, <1>9, PoolKept
<1>11. QED
  BY <1>1, <1>6, <1>7, <1>8, <1>9, <1>10, OnTheWay DEF InUse

\* The two outcomes of an answered resubscribe.
LEMMA SettleResubscribeEffect ==
    ASSUME NEW c \in Subscribers, NEW k \in Connection, NEW ch \in Channels,
           SettleResubscribe(c, k, ch)
    PROVE  \E l \in Connection :
              /\ Alike(k, l) /\ l.asked = k.asked /\ l.subscriptions = k.subscriptions
              /\ \/ k.subscriptions = {} /\ Become(c, TearDown(l)) /\ Release(c)
                 \/ Become(c, l) /\ pool' = pool
<1> DEFINE left == k.resubscribePending \ {ch}
           over == ch \in k.resubscribePending /\ left = {}
           n == IF over THEN 0 ELSE k.attempts
           l == [k EXCEPT !.resubscribePending = left, !.attempts = n]
<1>1. left \in SUBSET Channels /\ n \in 0..MAX_RECONNECT
  BY ConnectionAssumption DEF Connection
<1>2. [k EXCEPT !.resubscribePending = left, !.attempts = IF over THEN 0 ELSE @] = l
  BY DEF Connection
<1>3. \/ l.subscriptions = {} /\ Become(c, TearDown(l)) /\ Release(c)
      \/ Become(c, l) /\ pool' = pool
  BY <1>2 DEF SettleResubscribe
<1> HIDE DEF left, n
<1>4. l \in Connection
  BY <1>1 DEF Connection
<1>5. Alike(k, l) /\ l.asked = k.asked /\ l.subscriptions = k.subscriptions
  BY <1>1, <1>4, OtherFields
<1>6. QED
  BY <1>3, <1>4, <1>5

LEMMA SubscribeSuccessActs ==
    ASSUME ClientInv, NEW c \in Subscribers, NEW ch \in Channels, SubscribeSuccess(c, ch)
    PROVE  Acted(c)
<1>0. TypeOK /\ conn[c] \in Connection
  BY DEF ClientInv, TypeOK
<1> DEFINE k == [conn[c] EXCEPT !.asked = @ \ {<<ch, "fresh">>}]
           m == [k EXCEPT !.pendingEstablished = @ \ On(ch)]
<1>1. /\ calling = Idle /\ <<ch, "fresh">> \in conn[c].asked
      /\ SettlePromises(k.pendingEstablished \cap On(ch), "resolved")
      /\ Tell(Recovered(k, ch), "up")
      /\ SettleResubscribe(c, m, ch)
      /\ UNCHANGED <<home, calling>>
  BY DEF SubscribeSuccess
<1>2. k \in Connection /\ Alike(conn[c], k) /\ k.subscriptions = conn[c].subscriptions
      /\ k.asked \subseteq conn[c].asked
  BY <1>0 DEF Connection, Alike
<1> HIDE DEF k
<1>3. m \in Connection /\ Alike(k, m) /\ m.subscriptions = k.subscriptions /\ m.asked = k.asked
  BY <1>2 DEF Connection, Alike
<1> HIDE DEF m
<1>4. Alike(conn[c], m) /\ m.subscriptions = conn[c].subscriptions /\ m.asked \subseteq conn[c].asked
  BY <1>2, <1>3 DEF Alike
<1>5. conn[c].ws = "open"
  BY <1>1 DEF ClientInv, ConnectionInv
<1>6. InUse(c)
  BY <1>5 DEF ClientInv, ConnectionInv, InUse, Attached
<1>7. PICK l \in Connection :
              /\ Alike(m, l) /\ l.asked = m.asked /\ l.subscriptions = m.subscriptions
              /\ \/ m.subscriptions = {} /\ Become(c, TearDown(l)) /\ Release(c)
                 \/ Become(c, l) /\ pool' = pool
  BY <1>1, <1>3, SettleResubscribeEffect
<1>8. Alike(conn[c], l)
  BY <1>4, <1>7 DEF Alike
<1>9. home[c] # None /\ \A s \in conn[c].subscriptions : s \in Subscribers /\ home[s] = c
  BY <1>0, <1>5 DEF ClientInv, ConnectionInv, Connection
<1>10. Recovered(k, ch) \subseteq conn[c].subscriptions
  BY <1>2 DEF Recovered
<1>11. /\ heard' \in [Subscribers -> {"nothing", "down", "up", "client"}]
       /\ \A s \in Subscribers : heard'[s] = IF s \in Recovered(k, ch) THEN "up" ELSE heard[s]
  BY <1>0, <1>1, TellEffect
<1>12. promise' \in [Subscribers -> {"none", "pending", "resolved", "rejected"}]
  BY <1>0, <1>1, SettleEffect
<1>13. Elsewhere(c)
  BY <1>9, <1>10, <1>11 DEF Elsewhere
<1>14. MyCalls(c) /\ MyCalls(c)'
  BY <1>1 DEF MyCalls
<1>15. CASE m.subscriptions = {} /\ Become(c, TearDown(l)) /\ Release(c)
  <2>1. conn[c].subscriptions = {} /\ Recovered(k, ch) = {}
    BY <1>4, <1>10, <1>15
  <2>2. \A s \in Subscribers : home[s] = c /\ heard'[s] # "client" /\ HeardInv(c) => heard'[s] = "down"
    BY <1>11, <2>1, Unregistered
  <2>3. l.url = conn[c].url /\ l.subscriptions = conn[c].subscriptions
    BY <1>4, <1>7, <1>8 DEF Alike
  <2>4. QED
    BY <1>1, <1>5, <1>11, <1>12, <1>13, <1>14, <1>15, <2>2, <2>3, TearDownActs
<1>16. CASE Become(c, l) /\ pool' = pool
  <2>1. OnlyConn(c) /\ conn'[c] = l
    BY <1>0, <1>16, BecomeEffect
  <2>2. conn'[c].ws # "none"
    BY <1>5, <1>8, <2>1 DEF Alike
  <2>3. ActsOn(c)
    BY <1>1, <1>11, <1>12, <1>14, <1>16, <2>1, <2>2, LocalActs
  <2>4. LocalInv(c)'
    BY <1>1, <1>4, <1>5, <1>7, <1>8, <1>9, <1>16, <2>1, <2>3, Kept DEF Alike
  <2>5. HeardInv(c) => HeardInv(c)'
    <3>1. InUse(c)'
      BY <1>6, <1>8, <2>1 DEF InUse, Alike
    <3>2. HeardInv(c) => \A s \in Subscribers : home'[s] = c /\ heard'[s] # "client" =>
              (s \in conn'[c].subscriptions /\ InUse(c)') \/ heard'[s] = "down"
      BY <1>1, <1>4, <1>7, <1>10, <1>11, <2>1, <3>1 DEF HeardInv
    <3>3. QED
      BY <1>1, <3>2, HeardIdle
  <2>6. QED
    BY <1>13, <2>3, <2>4, <2>5 DEF Acted
<1>17. QED
  BY <1>7, <1>15, <1>16

LEMMA SubscribeErrorActs ==
    ASSUME ClientInv, NEW c \in Subscribers, NEW ch \in Channels, SubscribeError(c, ch)
    PROVE  Acted(c)
<1>0. TypeOK /\ conn[c] \in Connection
  BY DEF ClientInv, TypeOK
<1> DEFINE k == [conn[c] EXCEPT !.asked = @ \ {<<ch, "stale">>}]
           l == [k EXCEPT !.pendingEstablished = @ \ On(ch)]
<1>1. /\ calling = Idle /\ <<ch, "stale">> \in conn[c].asked
      /\ SettlePromises(k.pendingEstablished \cap On(ch), "rejected")
      /\ Tell(k.subscriptions \cap On(ch), "down")
      /\ Become(c, l) /\ calling' = <<c, ch>> /\ UNCHANGED <<pool, home>>
  BY DEF SubscribeError
<1>2. k \in Connection /\ Alike(conn[c], k) /\ k.subscriptions = conn[c].subscriptions
      /\ k.asked \subseteq conn[c].asked
  BY <1>0 DEF Connection, Alike
<1> HIDE DEF k
<1>3. l \in Connection /\ Alike(k, l) /\ l.subscriptions = k.subscriptions /\ l.asked = k.asked
  BY <1>2 DEF Connection, Alike
<1> HIDE DEF l
<1>4. Alike(conn[c], l) /\ l.subscriptions = conn[c].subscriptions /\ l.asked \subseteq conn[c].asked
  BY <1>2, <1>3 DEF Alike
<1>5. conn[c].ws = "open"
  BY <1>1 DEF ClientInv, ConnectionInv
<1>6. InUse(c) /\ BySocket(conn[c])
  <2>1. InUse(c)
    BY <1>5 DEF ClientInv, ConnectionInv, InUse, Attached
  <2>2. QED
    BY <1>1, <1>5, <2>1, IdleWay DEF BySocket, ByTimer, ByRefresh, Attached
<1>7. OnlyConn(c) /\ conn'[c] = l
  BY <1>0, <1>1, <1>3, BecomeEffect
<1>8. home[c] # None /\ \A s \in conn[c].subscriptions : s \in Subscribers /\ home[s] = c
  BY <1>0, <1>5 DEF ClientInv, ConnectionInv, Connection
<1>9. /\ heard' \in [Subscribers -> {"nothing", "down", "up", "client"}]
      /\ \A s \in Subscribers : heard'[s] =
            IF s \in conn[c].subscriptions \cap On(ch) THEN "down" ELSE heard[s]
  BY <1>0, <1>1, <1>2, TellEffect
<1>10. promise' \in [Subscribers -> {"none", "pending", "resolved", "rejected"}]
  BY <1>0, <1>1, SettleEffect
<1>11. MyCalls(c) /\ MyCalls(c)'
  BY <1>1, Events DEF MyCalls
<1>12. InUse(c)' /\ BySocket(conn'[c]) /\ conn'[c].ws = "open"
  BY <1>4, <1>5, <1>6, <1>7 DEF InUse, BySocket, Attached, Alike
<1>13. ActsOn(c)
  BY <1>1, <1>7, <1>9, <1>10, <1>11, <1>12, LocalActs DEF InUse
<1>14. calling' # <<c, "close">> /\ calling' # <<c, "refresh">> /\ calling' # <<c, "giveUp">>
  BY <1>1, Events
<1>15. WayInv(c)'
  <2>1. ~Rebuilding(c)'
    BY <1>14 DEF Rebuilding
  <2>2. QED
    BY <1>12, <2>1 DEF WayInv, BySocket, Attached
<1>16. ConnectionInv(c)'
  BY <1>1, <1>4, <1>7, <1>8, <1>12, <1>13, ConnectionRule DEF InUse
<1>17. CallInv(c)'
  BY <1>12, <1>14 DEF CallInv, InUse, Attached
<1>18. PoolInv(c)'
  BY <1>1, <1>4, <1>6, <1>7, <1>12, PoolKept DEF Alike
<1>19. Elsewhere(c)
  BY <1>8, <1>9 DEF Elsewhere
<1>20. HeardInv(c) => HeardInv(c)'
  <2>1. HeardInv(c) => \A s \in Subscribers : home'[s] = c /\ heard'[s] # "client" =>
            (s \in conn'[c].subscriptions /\ InUse(c)') \/ heard'[s] = "down"
    BY <1>1, <1>4, <1>7, <1>9, <1>12 DEF HeardInv
  <2>2. \A s \in conn'[c].subscriptions \cap On(ch) : heard'[s] = "down"
    BY <1>4, <1>7, <1>8, <1>9
  <2>3. \A x \in Channels : calling' = <<c, x>> => x = ch
    BY <1>1
  <2>4. QED
    BY <1>14, <2>1, <2>2, <2>3 DEF HeardInv
<1>21. QED
  BY <1>13, <1>15, <1>16, <1>17, <1>18, <1>19, <1>20 DEF Acted, LocalInv

LEMMA DropChannelActs ==
    ASSUME ClientInv, NEW c \in Subscribers, NEW ch \in Channels, DropChannel(c, ch)
    PROVE  Acted(c)
<1>0. TypeOK /\ conn[c] \in Connection
  BY DEF ClientInv, TypeOK
<1> DEFINE k == [conn[c] EXCEPT !.subscriptions = @ \ On(ch), !.refreshers = @ \ {ch}]
<1>1. /\ calling = <<c, ch>> /\ SettleResubscribe(c, k, ch)
      /\ calling' = Idle /\ UNCHANGED <<home, promise, heard>>
  BY DEF DropChannel
<1>2. /\ k \in Connection /\ Alike(conn[c], k) /\ k.asked = conn[c].asked
      /\ k.subscriptions = conn[c].subscriptions \ On(ch)
  BY <1>0 DEF Connection, Alike
<1> HIDE DEF k
<1>3. conn[c].ws # "none" /\ (InUse(c) => Attached(conn[c]))
  BY <1>1, Events DEF ClientInv, CallInv
<1>4. InUse(c) => BySocket(conn[c])
  <2>1. ~Rebuilding(c)
    BY <1>1, Events DEF Rebuilding
  <2>2. QED
    BY <1>3, <2>1 DEF ClientInv, WayInv, BySocket, ByTimer, ByRefresh
<1>5. PICK l \in Connection :
              /\ Alike(k, l) /\ l.asked = k.asked /\ l.subscriptions = k.subscriptions
              /\ \/ k.subscriptions = {} /\ Become(c, TearDown(l)) /\ Release(c)
                 \/ Become(c, l) /\ pool' = pool
  BY <1>1, <1>2, SettleResubscribeEffect
<1>6. Alike(conn[c], l) /\ l.asked = conn[c].asked
      /\ l.subscriptions = conn[c].subscriptions \ On(ch)
  BY <1>2, <1>5 DEF Alike
<1>7. home[c] # None /\ \A s \in conn[c].subscriptions : home[s] = c
  BY <1>3 DEF ClientInv, ConnectionInv
<1>8. MyCalls(c) /\ MyCalls(c)'
  BY <1>1, Events DEF MyCalls
<1>9. Elsewhere(c)
  BY <1>1 DEF Elsewhere
\* Whom the drop leaves without a registration has been told.
<1>10. HeardInv(c) => \A s \in Subscribers : home[s] = c /\ heard[s] # "client" =>
            (s \in l.subscriptions /\ InUse(c)) \/ heard[s] = "down"
  BY <1>1, <1>6 DEF HeardInv
<1>11. CASE k.subscriptions = {} /\ Become(c, TearDown(l)) /\ Release(c)
  <2>1. l.subscriptions = {}
    BY <1>5, <1>11
  <2>2. \A s \in Subscribers : home[s] = c /\ heard'[s] # "client" /\ HeardInv(c) => heard'[s] = "down"
    BY <1>1, <1>10, <2>1
  <2>3. l.url = conn[c].url
    BY <1>6 DEF Alike
  <2>4. QED
    BY <1>0, <1>1, <1>3, <1>8, <1>9, <1>11, <2>1, <2>2, <2>3, TearDownActs DEF TypeOK
<1>12. CASE Become(c, l) /\ pool' = pool
  <2>1. OnlyConn(c) /\ conn'[c] = l
    BY <1>0, <1>12, BecomeEffect
  <2>2. conn'[c].ws # "none"
    BY <1>3, <1>6, <2>1 DEF Alike
  <2>3. ActsOn(c)
    BY <1>0, <1>1, <1>8, <1>12, <2>1, <2>2, LocalActs DEF TypeOK
  <2>4. InUse(c)' <=> InUse(c)
    BY <1>6, <2>1 DEF InUse, Alike
  <2>5. WayInv(c)'
    <3>1. InUse(c) => BySocket(conn'[c])
      BY <1>4, <1>6, <2>1 DEF BySocket, Attached, Alike
    <3>2. QED
      BY <1>1, <2>4, <3>1, IdleCalls DEF WayInv, BySocket, Attached
  <2>6. ConnectionInv(c)'
    <3>1. conn[c].tornDown => ~Attached(conn[c]) /\ ~conn[c].timer
      BY DEF ClientInv, ConnectionInv
    <3>2. conn[c].asked # {} => conn[c].ws = "open"
      BY DEF ClientInv, ConnectionInv
    <3>3. QED
      BY <1>1, <1>6, <1>7, <2>1, <2>3, <3>1, <3>2, ConnectionRule DEF Alike, Attached
  <2>7. PoolInv(c)'
    BY <1>6, <1>12, <2>1, <2>4, PoolKept DEF Alike
  <2>8. HeardInv(c) => HeardInv(c)'
    BY <1>1, <1>10, <2>1, <2>4, HeardIdle
  <2>9. QED
    BY <1>1, <1>9, <2>3, <2>5, <2>6, <2>7, <2>8, IdleCalls DEF Acted, LocalInv
<1>13. QED
  BY <1>5, <1>11, <1>12

LEMMA OnCloseActs ==
    ASSUME ClientInv, NEW c \in Subscribers, OnClose(c)
    PROVE  Acted(c)
<1>0. TypeOK /\ conn[c] \in Connection
  BY DEF ClientInv, TypeOK
<1> DEFINE l == [conn[c] EXCEPT !.ws = "closed", !.asked = {}, !.keepAlive = FALSE]
<1>1. /\ calling = Idle /\ Attached(conn[c]) /\ Become(c, l)
      /\ Tell(conn[c].subscriptions, "down")
      /\ calling' = <<c, "close">> /\ UNCHANGED <<pool, home, promise>>
  BY DEF OnClose
<1>2. /\ l \in Connection /\ l.ws = "closed" /\ l.asked = {} /\ l.timer = conn[c].timer
      /\ l.refreshing = conn[c].refreshing /\ l.tornDown = conn[c].tornDown
      /\ l.url = conn[c].url /\ l.subscriptions = conn[c].subscriptions
  BY <1>0 DEF Connection
<1> HIDE DEF l
<1>3. InUse(c) /\ BySocket(conn[c])
  <2>1. InUse(c)
    BY <1>1 DEF ClientInv, ConnectionInv, InUse, Attached
  <2>2. QED
    BY <1>1, <2>1, IdleWay DEF BySocket, ByTimer, ByRefresh
<1>4. OnlyConn(c) /\ conn'[c] = l
  BY <1>0, <1>1, <1>2, BecomeEffect
<1>5. home[c] # None /\ \A s \in conn[c].subscriptions : s \in Subscribers /\ home[s] = c
  BY <1>0, <1>3 DEF ClientInv, ConnectionInv, Connection, InUse
<1>6. /\ heard' \in [Subscribers -> {"nothing", "down", "up", "client"}]
      /\ \A s \in Subscribers : heard'[s] = IF s \in conn[c].subscriptions THEN "down" ELSE heard[s]
  BY <1>0, <1>1, TellEffect
<1>7. InUse(c)' /\ Stalled(conn'[c])
  BY <1>2, <1>3, <1>4 DEF InUse, Stalled, BySocket, Attached
<1>8. MyCalls(c) /\ MyCalls(c)'
  BY <1>1, Events DEF MyCalls
<1>9. ActsOn(c)
  BY <1>0, <1>1, <1>4, <1>6, <1>7, <1>8, LocalActs DEF TypeOK, InUse
<1>10. WayInv(c)'
  <2>1. Rebuilding(c)'
    BY <1>1 DEF Rebuilding
  <2>2. QED
    BY <1>7, <2>1 DEF WayInv, Stalled, Attached
<1>11. ConnectionInv(c)'
  BY <1>1, <1>2, <1>4, <1>5, <1>7, <1>9, ConnectionRule DEF InUse
<1>12. calling' # <<c, "refresh">> /\ calling' # <<c, "giveUp">>
       /\ \A ch \in Channels : calling' # <<c, ch>>
  BY <1>1, Events
<1>13. CallInv(c)'
  BY <1>7, <1>12 DEF CallInv, InUse
<1>14. PoolInv(c)'
  BY <1>1, <1>2, <1>3, <1>4, <1>7, PoolKept
<1>15. Elsewhere(c)
  BY <1>5, <1>6 DEF Elsewhere
<1>16. HeardInv(c) => HeardInv(c)'
  <2>1. HeardInv(c) => \A s \in Subscribers : home'[s] = c /\ heard'[s] # "client" =>
            (s \in conn'[c].subscriptions /\ InUse(c)') \/ heard'[s] = "down"
    BY <1>1, <1>2, <1>4, <1>6, <1>7 DEF HeardInv
  <2>2. QED
    BY <1>12, <2>1 DEF HeardInv
<1>17. QED
  BY <1>9, <1>10, <1>11, <1>13, <1>14, <1>15, <1>16 DEF Acted, LocalInv

LEMMA CloseEndsActs ==
    ASSUME ClientInv, NEW c \in Subscribers, CloseEnds(c)
    PROVE  Acted(c)
<1>0. TypeOK /\ conn[c] \in Connection
  BY DEF ClientInv, TypeOK
<1> DEFINE l == [conn[c] EXCEPT !.pendingEstablished = {}, !.tornDown = TRUE]
<1>1. /\ calling = <<c, "close">> /\ home' = home
      /\ \/ /\ conn[c].tornDown \/ conn[c].subscriptions = {}
            /\ SettlePromises(conn[c].pendingEstablished, "rejected")
            /\ Become(c, l) /\ pool' = [pool EXCEPT ![conn[c].url] = None]
            /\ calling' = Idle /\ heard' = heard
         \/ /\ ~conn[c].tornDown /\ conn[c].subscriptions # {}
            /\ ScheduleReconnect(c, conn[c])
  BY DEF CloseEnds
<1>2. CASE ~conn[c].tornDown /\ ScheduleReconnect(c, conn[c])
  BY <1>1, <1>2, ScheduleActs
<1>3. CASE /\ conn[c].tornDown \/ conn[c].subscriptions = {}
           /\ SettlePromises(conn[c].pendingEstablished, "rejected")
           /\ Become(c, l) /\ pool' = [pool EXCEPT ![conn[c].url] = None]
           /\ calling' = Idle /\ heard' = heard
  <2>1. /\ l \in Connection /\ l.tornDown /\ l.ws = conn[c].ws /\ l.timer = conn[c].timer
        /\ l.asked = conn[c].asked /\ l.url = conn[c].url
        /\ l.subscriptions = conn[c].subscriptions
    BY <1>0 DEF Connection
  <2>2. OnlyConn(c) /\ conn'[c] = l
    BY <1>0, <1>3, <2>1, BecomeEffect
  <2> HIDE DEF l
  <2>3. conn[c].ws # "none" /\ Rebuilding(c)
    BY <1>1, Events DEF ClientInv, CallInv, Rebuilding
  <2>4. ~Attached(conn[c]) /\ ~conn[c].timer
    BY <2>3 DEF ClientInv, WayInv, ConnectionInv, InUse, Stalled
  \* The key is free already, or this connection holds it.
  <2>5. conn[c].url \in Urls /\ pool[conn[c].url] \in {c, None}
    <3>1. conn[c].url \in Urls
      BY <1>0 DEF Connection
    <3>2. CASE InUse(c)
      BY <3>1, <3>2 DEF ClientInv, PoolInv
    <3>3. CASE ~InUse(c)
      BY <1>1, <2>3, <3>1, <3>3 DEF InUse, ClientInv, CallInv
    <3>4. QED
      BY <3>1, <3>2, <3>3
  <2>6. pool' \in [Urls -> Subscribers \cup {None}]
        /\ \A u \in Urls : pool'[u] = IF u = conn[c].url THEN None ELSE pool[u]
    BY <1>0, <1>3, <2>5 DEF TypeOK
  <2>7. OnlyPool(c)
    BY <2>5, <2>6, ConnectionAssumption DEF OnlyPool
  <2>8. ~InUse(c)'
    BY <2>1, <2>2 DEF InUse
  <2>9. PoolInv(c)'
    <3>1. \A u \in Urls : pool[u] = c => u = conn[c].url
      BY DEF ClientInv, PoolInv
    <3>2. QED
      BY <2>6, <2>8, <3>1, ConnectionAssumption DEF PoolInv
  <2>10. MyCalls(c) /\ MyCalls(c)'
    BY <1>1, <1>3, Events DEF MyCalls
  <2>11. promise' \in [Subscribers -> {"none", "pending", "resolved", "rejected"}]
    BY <1>0, <1>3, SettleEffect
  <2>12. ActsOn(c)
    BY <1>0, <1>1, <1>3, <2>1, <2>2, <2>3, <2>7, <2>10, <2>11, MyHandler, ActsRule DEF TypeOK
  <2>13. WayInv(c)'
    BY <2>8 DEF WayInv
  <2>14. home[c] # None /\ \A s \in conn[c].subscriptions : home[s] = c
    BY <2>3 DEF ClientInv, ConnectionInv
  <2>15. ConnectionInv(c)'
    <3>1. conn[c].asked = {}
      BY <2>4 DEF ClientInv, ConnectionInv, Attached
    <3>2. QED
      BY <1>1, <2>1, <2>2, <2>4, <2>12, <2>14, <3>1, ConnectionRule DEF Attached
  <2>16. HeardInv(c) => HeardInv(c)'
    <3>1. conn[c].subscriptions = {} \/ ~InUse(c)
      BY <1>3 DEF InUse
    <3>2. HeardInv(c) => \A s \in Subscribers : home'[s] = c /\ heard'[s] # "client" => heard'[s] = "down"
      BY <1>1, <1>3, <3>1, Unregistered
    <3>3. QED
      BY <1>3, <3>2, HeardIdle
  <2>17. QED
    BY <1>3, <2>9, <2>12, <2>13, <2>15, <2>16, IdleCalls DEF Acted, LocalInv, Elsewhere
<1>4. QED
  BY <1>1, <1>2, <1>3

LEMMA ExpiryActs ==
    ASSUME ClientInv, NEW c \in Subscribers, Expiry(c)
    PROVE  Acted(c)
<1>0. TypeOK /\ conn[c] \in Connection
  BY DEF ClientInv, TypeOK
<1>1. PICK l \in Connection :
        /\ Become(c, l) /\ Alike(conn[c], l) /\ l.asked = conn[c].asked
        /\ l.subscriptions = conn[c].subscriptions
  <2>1. CASE ConnectTokenExpires(c)
    <3> DEFINE l == [conn[c] EXCEPT !.connectToken = "stale"]
    <3>1. l \in Connection /\ Alike(conn[c], l) /\ l.asked = conn[c].asked
          /\ l.subscriptions = conn[c].subscriptions
      BY <1>0 DEF Connection, Token, Alike
    <3>2. QED
      BY <2>1, <3>1 DEF ConnectTokenExpires
  <2>2. ASSUME NEW ch \in Channels, ChannelTokenExpires(c, ch)
        PROVE  \E l \in Connection :
                 /\ Become(c, l) /\ Alike(conn[c], l) /\ l.asked = conn[c].asked
                 /\ l.subscriptions = conn[c].subscriptions
    <3> DEFINE l == [conn[c] EXCEPT !.channelTokens[ch] = "stale"]
    <3>1. [conn[c].channelTokens EXCEPT ![ch] = "stale"] \in [Channels -> Token]
      BY <1>0 DEF Connection, Token
    <3>2. l \in Connection /\ Alike(conn[c], l) /\ l.asked = conn[c].asked
          /\ l.subscriptions = conn[c].subscriptions
      BY <1>0, <3>1 DEF Connection, Alike
    <3>3. QED
      BY <2>2, <3>2 DEF ChannelTokenExpires
  <2>3. QED
    BY <2>1, <2>2 DEF Expiry
<1>2. InUse(c) /\ UNCHANGED <<pool, home, promise, heard, calling>>
  BY DEF Expiry, ConnectTokenExpires, ChannelTokenExpires
<1>3. OnlyConn(c) /\ conn'[c] = l
  BY <1>0, <1>1, BecomeEffect
<1>4. conn'[c].ws # "none"
  BY <1>1, <1>2, <1>3 DEF InUse, Alike
<1>5. OnlyCalls(c)
  <2>1. \A d \in Subscribers : calling = <<d, "close">> /\ conn[d].tornDown => pool[conn[d].url] = None
    BY DEF ClientInv, CallInv
  <2>2. QED
    BY <1>0, <1>2, <2>1 DEF OnlyCalls, TypeOK
<1>6. ActsOn(c)
  BY <1>0, <1>2, <1>3, <1>4, <1>5, SamePool, ActsRule DEF TypeOK
<1>7. LocalInv(c)'
  <2>1. conn[c].asked # {} => conn[c].ws = "open"
    BY DEF ClientInv, ConnectionInv
  <2>2. \A s \in conn[c].subscriptions : home[s] = c
    BY DEF ClientInv, ConnectionInv
  <2>3. QED
    BY <1>1, <1>2, <1>3, <1>6, <2>1, <2>2, Kept DEF Alike
<1>8. HeardInv(c) => HeardInv(c)'
  BY <1>1, <1>2, <1>3, HeardKept
<1>9. QED
  BY <1>2, <1>6, <1>7, <1>8 DEF Acted, Elsewhere

-------------------------------------------------------------------------------
(* The client side: the theorems.                                          *)

LEMMA NextActs ==
    ASSUME ClientInv, NotBoth, Next
    PROVE  \E c \in Subscribers : Acted(c)
<1>1. PICK c \in Subscribers :
        \/ Application(c) \/ OpenSocket(c) \/ Refresh(c) \/ OnOpen(c)
        \/ Answer(c) \/ OnClose(c) \/ Returns(c) \/ Expiry(c)
  BY DEF Next
<1>2. CASE Application(c)
  BY <1>2, SubscribeActs, UnsubscribeActs DEF Application
<1>3. CASE OpenSocket(c) \/ OnOpen(c) \/ OnClose(c) \/ Expiry(c)
  BY <1>3, OpenSocketActs, OnOpenActs, OnCloseActs, ExpiryActs
<1>4. CASE Refresh(c)
  BY <1>4, RefreshActs DEF Refresh
<1>5. CASE Answer(c)
  BY <1>5, SubscribeSuccessActs, SubscribeErrorActs DEF Answer
<1>6. CASE Returns(c)
  BY <1>6, CloseEndsActs, RefreshFailsActs, GiveUpActs, DropChannelActs DEF Returns
<1>7. QED
  BY <1>1, <1>2, <1>3, <1>4, <1>5, <1>6

LEMMA ClientInit == Init => ClientInv /\ ToldInv
<1> SUFFICES ASSUME Init PROVE ClientInv /\ ToldInv
  OBVIOUS
<1>1. \A c \in Subscribers : conn[c] = Unused /\ home[c] = None /\ heard[c] = "nothing"
  BY DEF Init
<1>2. \A c \in Subscribers : \A e : calling # <<c, e>>
  BY OneAtATime DEF Init
<1>3. TypeOK
  BY UnusedRecord DEF Init, TypeOK
<1>4. ASSUME NEW c \in Subscribers
      PROVE  WayInv(c) /\ ConnectionInv(c) /\ CallInv(c) /\ PoolInv(c) /\ HeardInv(c)
  <2>1. ~InUse(c)
    BY <1>1, UnusedRecord DEF InUse
  <2>2. WayInv(c)
    BY <2>1 DEF WayInv
  <2>3. ConnectionInv(c)
    BY <1>1, UnusedRecord DEF ConnectionInv, Attached
  <2>4. CallInv(c)
    BY <1>2 DEF CallInv
  <2>5. PoolInv(c)
    BY <2>1, ConnectionAssumption DEF PoolInv, Init
  <2>6. HeardInv(c)
    BY <1>1, <1>2, ConnectionAssumption DEF HeardInv
  <2>7. QED
    BY <2>2, <2>3, <2>4, <2>5, <2>6
<1>5. QED
  BY <1>3, <1>4 DEF ClientInv, ToldInv

LEMMA ClientStutter ==
    ASSUME UNCHANGED vars
    PROVE  (ClientInv => ClientInv') /\ (ToldInv => ToldInv')
BY DEF vars, ClientInv, ToldInv, TypeOK, WayInv, ConnectionInv, CallInv, PoolInv, HeardInv,
       InUse, Attached, Stalled, BySocket, ByTimer, ByRefresh, Rebuilding

LEMMA ClientStep == NotBoth /\ ClientInv /\ [Next]_vars => ClientInv'
<1> SUFFICES ASSUME NotBoth, ClientInv, Next PROVE ClientInv'
  BY ClientStutter
<1>1. PICK c \in Subscribers : Acted(c)
  BY NextActs
<1>2. QED
  BY <1>1, ActLifts DEF Acted, LocalInv

LEMMA ToldStep ==
    "subscribe" \notin Callbacks /\ ClientInv /\ ToldInv /\ [Next]_vars => ToldInv'
<1> SUFFICES ASSUME "subscribe" \notin Callbacks, ClientInv, ToldInv, Next PROVE ToldInv'
  BY ClientStutter
<1>1. PICK c \in Subscribers : Acted(c)
  BY NextActs DEF NotBoth
<1>2. HeardInv(c)'
  BY <1>1 DEF Acted, ToldInv
<1>3. QED
  BY <1>1, <1>2, HearingLifts DEF Acted, Elsewhere

LEMMA ClientCorrect == NotBoth /\ Spec => []ClientInv
<1> SUFFICES ASSUME NotBoth PROVE Spec => []ClientInv
  OBVIOUS
<1>1. ClientInv /\ [Next]_vars => ClientInv'
  BY ClientStep
<1>2. QED
  BY <1>1, ClientInit, PTL DEF Spec

\* A connection somebody subscribes to is never stuck and never doubled: between
\* two events exactly one of its socket, its reconnect timer and its token refresh is
\* under way, whatever the interleaving of closes, refreshes, answers and
\* application calls, if the application's callbacks do not both subscribe and
\* unsubscribe (constructSocket, scheduleReconnect, openSocket).
THEOREM ExactlyOneWay == NotBoth /\ Spec => []OneWayForward
<1> SUFFICES ASSUME NotBoth PROVE Spec => []OneWayForward
  OBVIOUS
<1>1. ClientInv => OneWayForward
  <2> SUFFICES ASSUME ClientInv, calling = Idle, NEW c \in Subscribers, InUse(c)
               PROVE  /\ Attached(conn[c]) \/ conn[c].timer \/ conn[c].refreshing # {}
                      /\ ~(Attached(conn[c]) /\ (conn[c].timer \/ conn[c].refreshing # {}))
                      /\ ~(conn[c].timer /\ conn[c].refreshing # {})
    BY DEF OneWayForward
  <2>1. QED
    BY IdleWay DEF BySocket, ByTimer, ByRefresh
<1>2. QED
  BY <1>1, ClientCorrect, PTL

\* Nobody is forgotten: a subscription its owner has not ended is registered on
\* the pooled connection of its endpoint or was last told that it is down, if the
\* application's callbacks do not subscribe (dispatch, onclose, giveUp).
THEOREM NobodyIsForgotten == "subscribe" \notin Callbacks /\ Spec => []NobodyForgotten
<1> SUFFICES ASSUME "subscribe" \notin Callbacks PROVE Spec => []NobodyForgotten
  OBVIOUS
<1>1. NotBoth
  BY DEF NotBoth
<1>2. ClientInv /\ ToldInv /\ [Next]_vars => ToldInv'
  BY ToldStep
<1>3. ClientInv /\ ToldInv => NobodyForgotten
  <2> SUFFICES ASSUME ClientInv, ToldInv, NEW s \in Subscribers, Active(s), heard[s] # "down"
               PROVE  s \in conn[home[s]].subscriptions /\ InUse(home[s]) /\ Owns(home[s])
    BY DEF NobodyForgotten
  <2>1. home[s] \in Subscribers /\ heard[s] # "client"
    BY DEF Active, ClientInv, TypeOK
  <2>2. s \in conn[home[s]].subscriptions /\ InUse(home[s])
    BY <2>1 DEF ToldInv, HeardInv
  <2>3. conn[home[s]].url \in Urls
    BY <2>1 DEF ClientInv, TypeOK, Connection
  <2>4. Owns(home[s])
    BY <2>1, <2>2, <2>3 DEF ClientInv, PoolInv, Owns
  <2>5. QED
    BY <2>2, <2>4
<1>4. Spec => []ClientInv
  BY <1>1, ClientCorrect
<1>5. QED
  BY <1>2, <1>3, <1>4, ClientInit, PTL DEF Spec

\* A stale connection never evicts the live owner of its endpoint's key, unless
\* callbacks both subscribe and unsubscribe; then TLC finds the eviction
\* (onclose, removeFromPool).
THEOREM OwnersAreNotEvicted == NotBoth /\ Spec => NoForeignEviction
<1> SUFFICES ASSUME NotBoth PROVE Spec => NoForeignEviction
  OBVIOUS
<1>1. ClientInv /\ ClientInv' /\ [Next]_vars =>
        [\A u \in Urls : pool[u] # None /\ pool'[u] = None =>
            conn'[pool[u]].tornDown \/ pool'[conn'[pool[u]].url] = pool[u]]_vars
  <2> SUFFICES ASSUME ClientInv, ClientInv', Next, NEW u \in Urls, pool[u] # None,
                      ~conn'[pool[u]].tornDown
               PROVE  pool'[conn'[pool[u]].url] = pool[u]
    OBVIOUS
  <2>1. PICK d \in Subscribers : pool[u] = d
    BY DEF ClientInv, TypeOK
  <2>2. conn[d].ws # "none"
    BY <2>1 DEF ClientInv, PoolInv, InUse
  <2>3. PICK c \in Subscribers : Acted(c)
    BY NextActs
  <2>4. conn'[d].ws # "none"
    BY <2>1, <2>2, <2>3 DEF Acted, ActsOn, OnlyConn
  <2>5. InUse(d)'
    BY <2>1, <2>4 DEF InUse
  <2>6. conn'[d].url \in Urls
    BY <2>1 DEF ClientInv, TypeOK, Connection
  <2>7. QED
    BY <2>1, <2>5, <2>6 DEF ClientInv, PoolInv
<1>2. Spec => []ClientInv
  BY ClientCorrect
<1>3. QED
  BY <1>1, <1>2, PTL DEF Spec, NoForeignEviction

================================================================================
