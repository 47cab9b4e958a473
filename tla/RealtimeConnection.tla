-------------------------- MODULE RealtimeConnection --------------------------
(***************************************************************************)
(* The browser's side of Realtime on AWS (bb-realtime/src/                *)
(* aws-middleware.ts): subscriptions that share one WebSocket per         *)
(* endpoint, its reconnection after a drop, the refresh of expired tokens *)
(* before the socket is rebuilt, and the teardown of the connection.      *)
(*                                                                         *)
(* Every subscription s stands for one call of subscribe(); the           *)
(* connection that call creates, if the pool has none for the endpoint,   *)
(* is named after s.  An event handler that calls back into the           *)
(* application stops half way (`calling`) and ends in a step of its own:  *)
(* in between the application makes the calls of Callbacks.               *)
(*                                                                         *)
(* API Gateway and the Lambda behind it are modelled from how the code    *)
(* uses them: $connect needs a connect token that has not expired, a      *)
(* subscribe frame is answered by a success, or by an error when its      *)
(* channel token has expired, and a socket may close at any time.         *)
(***************************************************************************)
EXTENDS Naturals

CONSTANTS
    Subscribers,        \* the calls of subscribe()
    Channels,
    ChannelOf,          \* the channel of each
    Refreshing,         \* the calls that pass a `refresh`
    Urls,               \* API Gateway endpoints
    MAX_RECONNECT,      \* reconnect attempts within one outage
    Callbacks,          \* what the application calls from its callbacks
    None

ASSUME ConnectionAssumption ==
    /\ ChannelOf \in [Subscribers -> Channels]
    /\ Refreshing \subseteq Subscribers
    /\ Urls # {}
    /\ MAX_RECONNECT \in Nat
    /\ Callbacks \subseteq {"subscribe", "unsubscribe"}
    /\ None \notin Subscribers
    /\ {"close", "refresh", "giveUp"} \cap Channels = {}

VARIABLES
    conn,       \* the Connection each call created
    pool,       \* connections: the connection of each endpoint
    home,       \* the connection each subscription is on
    promise,    \* its `established`
    heard,      \* the last of its callbacks
    calling     \* the event handler that is calling back, and its connection

vars == <<conn, pool, home, promise, heard, calling>>

Token == {"fresh", "stale"}
Event == {"close", "refresh", "giveUp"} \cup Channels
Idle == <<None, "idle">>

\* `intentionalClose` is always set together with tornDown, and a socket
\* whose handlers are detached counts as closed.
Connection == [
    ws: {"none", "connecting", "open", "closed"},
    again: BOOLEAN,                 \* isReconnect of the current socket
    asked: SUBSET (Channels \X Token),  \* subscribe frames not yet answered
    keepAlive: BOOLEAN,
    timer: BOOLEAN,                 \* reconnectTimer
    refreshing: SUBSET Channels,    \* refreshes in flight
    resubscribePending: SUBSET Channels,
    attempts: 0..MAX_RECONNECT,     \* reconnectAttempts
    tornDown: BOOLEAN,
    url: Urls,
    connectToken: Token,
    channelTokens: [Channels -> Token],
    subscriptions: SUBSET Subscribers,
    pendingEstablished: SUBSET Subscribers,
    refreshers: SUBSET Channels ]

TypeOK ==
    /\ conn \in [Subscribers -> Connection]
    /\ pool \in [Urls -> Subscribers \cup {None}]
    /\ home \in [Subscribers -> Subscribers \cup {None}]
    /\ promise \in [Subscribers -> {"none", "pending", "resolved", "rejected"}]
    /\ heard \in [Subscribers -> {"nothing", "down", "up", "client"}]
    /\ calling \in {Idle} \cup (Subscribers \X Event)

Attached(k) == k.ws \in {"connecting", "open"}
On(ch) == {s \in Subscribers : ChannelOf[s] = ch}
SubscribedChannels(k) == {ChannelOf[s] : s \in k.subscriptions}
Owns(c) == pool[conn[c].url] = c

\* What getOrCreateConnection makes; its first socket is already connecting.
Created(u) == [
    ws |-> "connecting", again |-> FALSE, asked |-> {}, keepAlive |-> FALSE,
    timer |-> FALSE, refreshing |-> {}, resubscribePending |-> {},
    attempts |-> 0, tornDown |-> FALSE, url |-> u, connectToken |-> "fresh",
    channelTokens |-> [ch \in Channels |-> "stale"], subscriptions |-> {},
    pendingEstablished |-> {}, refreshers |-> {} ]

Unused == [Created(CHOOSE u \in Urls : TRUE) EXCEPT !.ws = "none"]

Become(c, k) == conn' = [conn EXCEPT ![c] = k]
Tell(S, what) == heard' = [s \in Subscribers |-> IF s \in S THEN what ELSE heard[s]]
SettlePromises(S, how) ==
    promise' = [s \in Subscribers |->
                    IF s \in S /\ promise[s] = "pending" THEN how ELSE promise[s]]

\* A deliberate teardown: timers cleared, the socket detached and closed.
TearDown(k) ==
    [k EXCEPT !.ws = "closed", !.asked = {}, !.keepAlive = FALSE,
              !.timer = FALSE, !.tornDown = TRUE]

\* Only the owner of a key drops it from the pool.
Release(c) == pool' = [u \in Urls |-> IF pool[u] = c THEN None ELSE pool[u]]

-------------------------------------------------------------------------------
(* The application.                                                        *)

MayCall(what) == calling = Idle \/ what \in Callbacks

Subscribe(s, u, token) ==
    /\ MayCall("subscribe")
    /\ home[s] = None
    /\ LET new == pool[u] = None
           c == IF new THEN s ELSE pool[u]
           k == IF new THEN Created(u) ELSE conn[c]
           ch == ChannelOf[s]
       IN /\ Become(c, [k EXCEPT
                !.subscriptions = @ \cup {s},
                !.pendingEstablished = @ \cup {s},
                !.channelTokens[ch] = token,
                !.refreshers = IF s \in Refreshing THEN @ \cup {ch} ELSE @,
                !.asked = IF k.ws = "open" THEN @ \cup {<<ch, token>>} ELSE @])
          /\ pool' = [pool EXCEPT ![u] = c]
          /\ home' = [home EXCEPT ![s] = c]
    /\ promise' = [promise EXCEPT ![s] = "pending"]
    /\ UNCHANGED <<heard, calling>>

Unsubscribe(s) ==
    /\ MayCall("unsubscribe")
    /\ home[s] # None /\ heard[s] # "client"
    /\ LET c == home[s]
           k == [conn[c] EXCEPT !.subscriptions = @ \ {s}]
           kept == [k EXCEPT !.refreshers =
                        IF s \in conn[c].subscriptions
                        THEN @ \cap SubscribedChannels(k) ELSE @]
       IN \/ /\ k.subscriptions # {}
             /\ Become(c, kept)
             /\ UNCHANGED pool
          \/ /\ k.subscriptions = {}
             /\ Become(c, TearDown(kept))
             /\ Release(c)
    /\ Tell({s}, "client")
    /\ UNCHANGED <<home, promise, calling>>

-------------------------------------------------------------------------------
(* Reconnection.                                                           *)

\* Called by the end of a close and of a refresh that failed.
ScheduleReconnect(c, k) ==
    \/ /\ k.subscriptions = {}
       /\ Become(c, [TearDown(k) EXCEPT !.resubscribePending = {}])
       /\ Release(c)
       /\ calling' = Idle
       /\ UNCHANGED <<promise, heard>>
    \/ /\ k.subscriptions # {} /\ k.attempts >= MAX_RECONNECT
       /\ SettlePromises(k.pendingEstablished, "rejected")
       /\ Become(c, [k EXCEPT !.pendingEstablished = {}])
       /\ Tell(k.subscriptions, "down")
       /\ calling' = <<c, "giveUp">>
       /\ UNCHANGED pool
    \/ /\ k.subscriptions # {} /\ k.attempts < MAX_RECONNECT
       /\ Become(c, [k EXCEPT !.attempts = @ + 1, !.timer = TRUE])
       /\ calling' = Idle
       /\ UNCHANGED <<pool, promise, heard>>

GiveUp(c) ==
    /\ calling = <<c, "giveUp">>
    /\ Become(c, [TearDown(conn[c]) EXCEPT !.resubscribePending = {}])
    /\ Release(c)
    /\ calling' = Idle
    /\ UNCHANGED <<home, promise, heard>>

ConstructSocket(k) ==
    [k EXCEPT !.ws = "connecting", !.again = TRUE, !.timer = FALSE, !.refreshing = {}]

\* The reconnect timer fires: openSocket(conn, true).
OpenSocket(c) ==
    /\ calling = Idle
    /\ conn[c].timer
    /\ LET k == [conn[c] EXCEPT !.timer = FALSE]
           todo == SubscribedChannels(k) \cap k.refreshers
       IN Become(c, IF todo = {} THEN ConstructSocket(k)
                    ELSE [k EXCEPT !.refreshing = todo])
    /\ UNCHANGED <<pool, home, promise, heard, calling>>

\* A connection that may still be rebuilt when its refreshes have settled.
Wanted(c) == ~conn[c].tornDown /\ Owns(c) /\ conn[c].subscriptions # {}

\* Every refresh in flight has settled (a hung one by its deadline): those of
\* `good` with a descriptor for their own channel, which names endpoint u.
RefreshSettles(c, good, u) ==
    /\ calling = Idle
    /\ conn[c].refreshing # {}
    /\ LET k == [conn[c] EXCEPT !.refreshing = {}]
           applied == good \cap SubscribedChannels(k)
           rekey == u # k.url /\ pool[u] = None
           fresh == [k EXCEPT
                !.connectToken = "fresh",
                !.url = IF rekey THEN u ELSE @,
                !.channelTokens = [ch \in Channels |->
                    IF ch \in applied THEN "fresh" ELSE @[ch]]]
       IN \/ /\ ~Wanted(c)
             /\ good = {} /\ u = k.url
             /\ Become(c, k)
             /\ UNCHANGED <<pool, heard, calling>>
          \/ /\ Wanted(c) /\ applied # {}
             /\ Become(c, ConstructSocket(fresh))
             /\ pool' = IF rekey THEN [pool EXCEPT ![k.url] = None, ![u] = c] ELSE pool
             /\ UNCHANGED <<heard, calling>>
          \/ /\ Wanted(c) /\ applied = {}
             /\ good = {} /\ u = k.url
             /\ Become(c, k)
             /\ Tell(k.subscriptions, "down")
             /\ calling' = <<c, "refresh">>
             /\ UNCHANGED pool
    /\ UNCHANGED <<home, promise>>

\* Faulty: the subscribers are told, and nothing more is tried.
RefreshAbandons(c) ==
    /\ calling = <<c, "refresh">>
    /\ calling' = Idle
    /\ UNCHANGED <<conn, pool, home, promise, heard>>

RefreshFails(c) ==
    /\ calling = <<c, "refresh">>
    /\ ScheduleReconnect(c, conn[c])
    /\ UNCHANGED home

-------------------------------------------------------------------------------
(* The socket's events.                                                    *)

\* Faulty: an open socket counts as a recovery.
OnOpenForgives(c) ==
    /\ calling = Idle
    /\ conn[c].ws = "connecting" /\ conn[c].connectToken = "fresh"
    /\ LET chs == SubscribedChannels(conn[c])
       IN Become(c, [conn[c] EXCEPT
            !.ws = "open", !.keepAlive = TRUE, !.attempts = 0,
            !.asked = {<<ch, conn[c].channelTokens[ch]>> : ch \in chs},
            !.resubscribePending = IF conn[c].again THEN chs ELSE @])
    /\ UNCHANGED <<pool, home, promise, heard, calling>>

OnOpen(c) ==
    /\ calling = Idle
    /\ conn[c].ws = "connecting" /\ conn[c].connectToken = "fresh"
    /\ LET chs == SubscribedChannels(conn[c])
       IN Become(c, [conn[c] EXCEPT
            !.ws = "open", !.keepAlive = TRUE,
            !.asked = {<<ch, conn[c].channelTokens[ch]>> : ch \in chs},
            !.resubscribePending = IF conn[c].again THEN chs ELSE @])
    /\ UNCHANGED <<pool, home, promise, heard, calling>>

\* The resubscribe of channel ch is answered; with the last answer the outage
\* is over, and a connection that no channel survived is torn down.
SettleResubscribe(c, k, ch) ==
    LET left == k.resubscribePending \ {ch}
        over == ch \in k.resubscribePending /\ left = {}
        settled == [k EXCEPT !.resubscribePending = left,
                             !.attempts = IF over THEN 0 ELSE @]
    IN IF over /\ k.subscriptions = {}
       THEN Become(c, TearDown(settled)) /\ Release(c)
       ELSE Become(c, settled) /\ UNCHANGED pool

\* Faulty: the recovery of one channel is announced to every subscriber the
\* connection has had.
RecoveredAll(k, ch) ==
    IF ch \in k.resubscribePending THEN {s \in Subscribers : home[s] # None} ELSE {}

\* Whom a success of channel ch tells of the recovery: its own subscribers.
Recovered(k, ch) ==
    IF ch \in k.resubscribePending THEN k.subscriptions \cap On(ch) ELSE {}

SubscribeSuccess(c, ch) ==
    /\ calling = Idle
    /\ <<ch, "fresh">> \in conn[c].asked
    /\ LET k == [conn[c] EXCEPT !.asked = @ \ {<<ch, "fresh">>}]
       IN /\ SettlePromises(k.pendingEstablished \cap On(ch), "resolved")
          /\ Tell(Recovered(k, ch), "up")
          /\ SettleResubscribe(c, [k EXCEPT !.pendingEstablished = @ \ On(ch)], ch)
    /\ UNCHANGED <<home, calling>>

SubscribeError(c, ch) ==
    /\ calling = Idle
    /\ <<ch, "stale">> \in conn[c].asked
    /\ LET k == [conn[c] EXCEPT !.asked = @ \ {<<ch, "stale">>}]
       IN /\ SettlePromises(k.pendingEstablished \cap On(ch), "rejected")
          /\ Tell(k.subscriptions \cap On(ch), "down")
          /\ Become(c, [k EXCEPT !.pendingEstablished = @ \ On(ch)])
    /\ calling' = <<c, ch>>
    /\ UNCHANGED <<pool, home>>

DropChannel(c, ch) ==
    /\ calling = <<c, ch>>
    /\ SettleResubscribe(c, [conn[c] EXCEPT
            !.subscriptions = @ \ On(ch), !.refreshers = @ \ {ch}], ch)
    /\ calling' = Idle
    /\ UNCHANGED <<home, promise, heard>>

\* The socket closes: onerror and onclose tell every subscriber once.
OnClose(c) ==
    /\ calling = Idle
    /\ Attached(conn[c])
    /\ Become(c, [conn[c] EXCEPT !.ws = "closed", !.asked = {}, !.keepAlive = FALSE])
    /\ Tell(conn[c].subscriptions, "down")
    /\ calling' = <<c, "close">>
    /\ UNCHANGED <<pool, home, promise>>

\* ... and then reconnects, unless the client meant to close or nobody is left.
\* This teardown empties the key of the pool, whoever holds it.
CloseEnds(c) ==
    LET k == conn[c] IN
    /\ calling = <<c, "close">>
    /\ \/ /\ k.tornDown \/ k.subscriptions = {}
          /\ SettlePromises(k.pendingEstablished, "rejected")
          /\ Become(c, [k EXCEPT !.pendingEstablished = {}, !.tornDown = TRUE])
          /\ pool' = [pool EXCEPT ![k.url] = None]
          /\ calling' = Idle
          /\ UNCHANGED heard
       \/ /\ ~k.tornDown /\ k.subscriptions # {}
          /\ ScheduleReconnect(c, k)
    /\ UNCHANGED home

-------------------------------------------------------------------------------
(* The server's tokens expire (connect after 2 hours, channel after one).  *)

InUse(c) == conn[c].ws # "none" /\ ~conn[c].tornDown

ConnectTokenExpires(c) ==
    /\ InUse(c) /\ conn[c].connectToken = "fresh"
    /\ Become(c, [conn[c] EXCEPT !.connectToken = "stale"])
    /\ UNCHANGED <<pool, home, promise, heard, calling>>

ChannelTokenExpires(c, ch) ==
    /\ InUse(c) /\ conn[c].channelTokens[ch] = "fresh"
    /\ Become(c, [conn[c] EXCEPT !.channelTokens[ch] = "stale"])
    /\ UNCHANGED <<pool, home, promise, heard, calling>>

-------------------------------------------------------------------------------
Init ==
    /\ conn = [c \in Subscribers |-> Unused]
    /\ pool = [u \in Urls |-> None]
    /\ home = [s \in Subscribers |-> None]
    /\ promise = [s \in Subscribers |-> "none"]
    /\ heard = [s \in Subscribers |-> "nothing"]
    /\ calling = Idle

Application(s) ==
    \/ \E u \in Urls, token \in Token : Subscribe(s, u, token)
    \/ Unsubscribe(s)

Refresh(c) ==
    \E good \in SUBSET Channels, u \in Urls :
        good \subseteq conn[c].refreshing /\ RefreshSettles(c, good, u)

Answer(c) == \E ch \in Channels : SubscribeSuccess(c, ch) \/ SubscribeError(c, ch)

Returns(c) ==
    \/ CloseEnds(c) \/ RefreshFails(c) \/ GiveUp(c)
    \/ \E ch \in Channels : DropChannel(c, ch)

Expiry(c) == ConnectTokenExpires(c) \/ \E ch \in Channels : ChannelTokenExpires(c, ch)

Next ==
    \E c \in Subscribers :
        \/ Application(c) \/ OpenSocket(c) \/ Refresh(c) \/ OnOpen(c)
        \/ Answer(c) \/ OnClose(c) \/ Returns(c) \/ Expiry(c)

Spec == Init /\ [][Next]_vars

\* What moves a connection forward; at most one kind is due at a time.
Forward(c) ==
    \/ OpenSocket(c) \/ Refresh(c) \/ Answer(c)
    \/ conn[c].ws = "connecting" /\ (OnOpen(c) \/ OnClose(c))

\* The event loop runs what is due: timers fire, every refresh settles by its
\* deadline, a socket opens or fails, the server answers what it was asked.
\* Strong, because the callbacks of another connection come in between.
\* Nothing makes a socket stay up.
FairSpec ==
    /\ Spec
    /\ \A c \in Subscribers : SF_vars(Forward(c)) /\ WF_vars(Returns(c))

-------------------------------------------------------------------------------
(* Properties.                                                             *)

Active(s) == home[s] # None /\ heard[s] # "client"

\* A connection somebody still subscribes to is never stuck and never doubled:
\* between events exactly one of its socket, its reconnect timer and its token
\* refresh is under way (constructSocket, scheduleReconnect, openSocket).
OneWayForward ==
    calling = Idle =>
        \A c \in Subscribers : InUse(c) /\ conn[c].subscriptions # {} =>
            /\ Attached(conn[c]) \/ conn[c].timer \/ conn[c].refreshing # {}
            /\ ~(Attached(conn[c]) /\ (conn[c].timer \/ conn[c].refreshing # {}))
            /\ ~(conn[c].timer /\ conn[c].refreshing # {})

\* Nobody is forgotten: a subscription that was not ended by its owner is
\* still registered on the pooled connection of its endpoint, or the last it
\* heard is that it went down; an onReconnect is never a false recovery.
NobodyForgotten ==
    calling = Idle =>
        \A s \in Subscribers : Active(s) =>
            \/ s \in conn[home[s]].subscriptions /\ InUse(home[s]) /\ Owns(home[s])
            \/ heard[s] = "down"

\* Every `established` settles, unless its owner unsubscribes: an outage ends,
\* by recovery or by giving up, even when the socket keeps flapping.
EstablishedSettles ==
    \A s \in Subscribers :
        promise[s] = "pending" ~> promise[s] # "pending" \/ heard[s] = "client"

\* A stale connection never evicts the live owner of its endpoint's key
\* (aws-middleware.ts:582, "Delete-by-identity (BLOCKING)").
NoForeignEviction ==
    [][\A u \in Urls :
        pool[u] # None /\ pool'[u] = None => conn'[pool[u]].tornDown
                                             \/ pool'[conn'[pool[u]].url] = pool[u]]_vars
===============================================================================
