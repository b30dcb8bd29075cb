------------------------------ MODULE HubEvents ------------------------------
(***************************************************************************)
(* Events of a hub and the client that follows them over a websocket: the  *)
(* durable event log (hub/server/hub-event-log.ts), publication and the    *)
(* listeners (hub/server/hub-server-transport.ts), the socket adapter with *)
(* its replay from a cursor (hub/server/browser-websocket.ts) and the      *)
(* client's subscriptions, cursors and reconnection (hub/client/index.ts). *)
(* There is one client: clients share nothing but the log.  A connection   *)
(* may end for the client long before the hub's heartbeat notices.         *)
(*                                                                         *)
(* Granularity: one action is a synchronous stretch between two awaits, or *)
(* one frame taken from the wire.  The frames in flight on a connection    *)
(* are lost with it.  An append to the log that fails (the event goes out  *)
(* unnumbered, live only) is left out.                                     *)
(***************************************************************************)
EXTENDS Integers, FiniteSets, Sequences, SequencesExt

CONSTANTS
  Sessions,
  Global,      \* GLOBAL_SUBSCRIPTION_KEY
  Keys,        \* the subscription keys the client uses
  PageSize,    \* HUB_EVENT_REPLAY_PAGE_SIZE
  MaxPages,    \* HUB_EVENT_REPLAY_MAX_PAGES
  MaxEvents,   \* bound: events published about sessions
  MaxApprovals,\* bound: approvals requested
  MaxSockets,  \* bound: connections the client opens
  MaxPrunes    \* bound: sweeps of the log

\* The clients of the repository follow everything, or single sessions, not both.
ASSUME KeysAssumption == Global \in Keys => Keys = {Global}

ASSUME ConstantsAssumption ==
  /\ Global \notin Sessions
  /\ Keys \subseteq Sessions \cup {Global} /\ IsFiniteSet(Keys)
  /\ PageSize \in Nat \ {0}
  /\ MaxPages \in Nat \ {0}
  /\ {MaxEvents, MaxApprovals, MaxSockets, MaxPrunes} \subseteq Nat

Sockets == 1 .. MaxSockets

VARIABLES
  events,     \* what was published: session (or Global) and kind; the index is the
              \* event's eventId and, if it is in the log, its sequence
  log,        \* the rows of hub_events
  approvals,  \* pendingApprovals: the approval.requested events not yet answered
  peer,       \* socket -> the hub's end of it
  registered, \* the sockets whose registeredClientIds holds the client
  subs,       \* the subscriptions on the client's present socket, oldest first
  socket,     \* the client's present socket, 0 if it has none
  up,         \* frames on their way to the hub
  down,       \* frames on their way to the client
  counts,     \* the keys of subscriptionCounts
  cursor,     \* lastEventSequenceByKey, 0 if undefined
  first,      \* history: the first sequence the cursor had
  got,        \* history: key -> the events its listeners were called with
  cancelled,  \* history: the keys the application unsubscribed from, once each
  prunes      \* history: sweeps so far

hubVars == <<events, log, approvals, peer, registered, subs, prunes>>
clientVars == <<socket, counts, cursor, first, got, cancelled>>
vars == <<events, log, approvals, peer, registered, subs, socket, up, down, counts,
          cursor, first, got, cancelled, prunes>>

(***************************************************************************)
(* A subscription: mode "live" (no cursor was sent), "replay" (events are  *)
(* buffered while pages go out), "gated" (replay is over); last and seen   *)
(* are lastDelivered and deliveredEventIds; held: the adapter's            *)
(* subscriptions map has it; heard: the transport's listeners have it.     *)
(***************************************************************************)
Ids == 1 .. Len(events)
Frames ==
  [kind : {"event"}, id : Ids, sequence : 0 .. Len(events)] \cup [kind : {"reply"}]
Subs ==
  [key : Keys, mode : {"live", "replay", "gated"}, last : 0 .. Len(events),
   seen : SUBSET Ids, buffered : Seq(Frames), pages : 0 .. MaxPages,
   held : BOOLEAN, heard : BOOLEAN]

TypeOK ==
  /\ events \in Seq([session : Sessions \cup {Global}, kind : {"plain", "approval"}])
  /\ log \subseteq Ids
  /\ approvals \subseteq Ids
  /\ peer \in [Sockets -> {"unused", "open", "halfopen", "closed"}]
  /\ registered \subseteq Sockets
  /\ subs \in Seq(Subs)
  /\ socket \in 0 .. MaxSockets
  /\ up \in Seq([kind : {"register"}] \cup [kind : {"unsubscribe"}, key : Keys]
                  \cup [kind : {"subscribe"}, key : Keys, since : 0 .. Len(events)])
  /\ down \in Seq(Frames)
  /\ counts \subseteq Keys
  /\ cursor \in [Keys -> 0 .. Len(events)]
  /\ first \in [Keys -> 0 .. Len(events)]
  /\ got \in [Keys -> SUBSET Ids]
  /\ cancelled \subseteq Keys
  /\ prunes \in 0 .. MaxPrunes

Init ==
  /\ events = << >>
  /\ log = {}
  /\ approvals = {}
  /\ peer = [n \in Sockets |-> "unused"]
  /\ registered = {}
  /\ subs = << >>
  /\ socket = 0
  /\ up = << >>
  /\ down = << >>
  /\ counts = Keys
  /\ cursor = [k \in Keys |-> 0]
  /\ first = [k \in Keys |-> 0]
  /\ got = [k \in Keys |-> {}]
  /\ cancelled = {}
  /\ prunes = 0

Covers(k, s) == k = Global \/ k = s

\* The elements of a set of numbers in increasing order.
Sorted(S) == [j \in 1 .. Cardinality(S) |-> CHOOSE e \in S : Cardinality({d \in S : d <= e}) = j]

\* The elements of a sequence at the positions K, in their order.
At(q, K) ==
  [j \in 1 .. Cardinality(K) |-> q[CHOOSE i \in K : Cardinality({h \in K : h <= i}) = j]]

-----------------------------------------------------------------------------
(* Delivery to a subscription.                                             *)

\* Bug: what was replayed is not remembered by its eventId.
BugPasses(sub, f) == f.sequence = 0 \/ f.sequence > sub.last

\* deliver: the frames that go out ...
Passes(sub, f) == (f.sequence = 0 \/ f.sequence > sub.last) /\ f.id \notin sub.seen

\* ... and the subscription after the frames F: one that was left out moves the cursor too.
Delivered(sub, F) ==
  [sub EXCEPT !.last = Max({@} \cup {f.sequence : f \in F}), !.seen = @ \cup {f.id : f \in F}]

\* Bug: live events go out while pages still do.
BugHeard(sub, f) == [Delivered(sub, {f}) EXCEPT !.seen = {}]

\* The listener of a subscription: its frames, and the subscription afterwards.
Heard(sub, f) ==
  IF sub.mode = "replay" THEN [sub EXCEPT !.buffered = Append(@, f)]
  ELSE IF sub.mode = "gated" THEN [Delivered(sub, {f}) EXCEPT !.seen = {}] ELSE sub

\* It passes the frame on.
Emits(sub, f) == sub.mode = "live" \/ (sub.mode = "gated" /\ Passes(sub, f))

Event(e, sequence) == [kind |-> "event", id |-> e, sequence |-> sequence]
Numbered(e) == Event(e, e)

\* publish: the event is appended to the log and then fanned out, a copy for each listener
\* that passes it on.
Publish(s, kind, ss, replies) ==
  LET f == Numbered(Len(events) + 1)
      Hears(j) == ss[j].heard /\ Covers(ss[j].key, s)
  IN  /\ events' = Append(events, [session |-> s, kind |-> kind])
      /\ log' = log \cup {f.id}
      /\ subs' = [j \in DOMAIN ss |-> IF Hears(j) THEN Heard(ss[j], f) ELSE ss[j]]
      /\ down' = down \o [i \in 1 .. Cardinality({j \in DOMAIN ss : Hears(j) /\ Emits(ss[j], f)})
                            |-> f] \o replies

SessionEvents == {e \in Ids : events[e].session \in Sessions}

PublishEvent(s) ==
  /\ Cardinality(SessionEvents) < MaxEvents
  /\ Publish(s, "plain", subs, << >>)
  /\ UNCHANGED <<approvals, peer, registered, up, prunes, clientVars>>

\* requestToolApproval
RequestApproval(s) ==
  /\ Cardinality(SessionEvents) < MaxEvents
  /\ Cardinality({e \in Ids : events[e].kind = "approval"}) < MaxApprovals
  /\ Publish(s, "approval", subs, << >>)
  /\ approvals' = approvals \cup {Len(events) + 1}
  /\ UNCHANGED <<peer, registered, up, prunes, clientVars>>

\* handleApprovalRespond, from any client; approval.resolved is published.
RespondApproval(a) ==
  /\ a \in approvals
  /\ Cardinality(SessionEvents) < MaxEvents
  /\ approvals' = approvals \ {a}
  /\ Publish(events[a].session, "plain", subs, << >>)
  /\ UNCHANGED <<peer, registered, up, prunes, clientVars>>

\* The oldest rows go, by age, number or size; age may take them all.
Prune ==
  /\ prunes < MaxPrunes
  /\ prunes' = prunes + 1
  /\ \E oldest \in log : log' = {e \in log : e > oldest}
  /\ UNCHANGED <<events, approvals, peer, registered, subs, up, down, clientVars>>

-----------------------------------------------------------------------------
(* The adapter: frames from the client.                                    *)

\* listAfter, scoped to the subscription's key: the first rows past its cursor.
Page(sub) ==
  LET rows == {e \in log : e > sub.last /\ Covers(sub.key, events[e].session)}
  IN  {e \in rows : Cardinality({d \in rows : d <= e}) <= PageSize}

\* Bug: the loop counts one page too many and does not stop at an empty one.
BugReplayOver(sub) == sub.pages > MaxPages

ReplayOver(sub) == sub.pages = MaxPages \/ Page(sub) = {}

\* One round of the replay loop: a page, or at its end what was buffered meanwhile.
RoundFrames(sub) ==
  IF ReplayOver(sub)
  THEN At(sub.buffered, {i \in DOMAIN sub.buffered : Passes(sub, sub.buffered[i])})
  ELSE LET ids == Sorted({e \in Page(sub) : Passes(sub, Numbered(e))})
       IN  [j \in DOMAIN ids |-> Numbered(ids[j])]

Round(sub) ==
  IF ReplayOver(sub)
  THEN [Delivered(sub, Range(sub.buffered)) EXCEPT
          !.mode = "gated", !.buffered = << >>, !.seen = {}, !.pages = 0]
  ELSE [Delivered(sub, {Numbered(e) : e \in Page(sub)}) EXCEPT !.pages = @ + 1]

\* Bug: a subscription does not re-issue the approvals that are still open.
BugReissued(k) == << >>

\* pendingApprovalEvents: the envelopes as they were requested, without a sequence.
Reissued(k) ==
  LET open == Sorted({a \in approvals : Covers(k, events[a].session)})
  IN  [j \in DOMAIN open |-> Event(open[j], 0)]

\* stream.subscribe: live only without a cursor.
Subscription(k, since) ==
  [key |-> k, mode |-> IF since = 0 THEN "live" ELSE "replay", last |-> since,
   seen |-> {}, buffered |-> IF since = 0 THEN << >> ELSE Reissued(k), pages |-> 0,
   held |-> TRUE, heard |-> TRUE]

TakeFrame == up # << >> /\ up' = Tail(up)

\* A key that is subscribed already is left alone; a replay sends its first page at once.
HandleSubscribe ==
  /\ TakeFrame /\ Head(up).kind = "subscribe"
  /\ LET k == Head(up).key
         new == Subscription(k, Head(up).since)
     IN  IF \E j \in DOMAIN subs : subs[j].key = k /\ subs[j].held
         THEN UNCHANGED <<subs, down>>
         ELSE IF new.mode = "live"
         THEN subs' = Append(subs, new) /\ down' = down \o Reissued(k)
         ELSE subs' = Append(subs, Round(new)) /\ down' = down \o RoundFrames(new)
  /\ UNCHANGED <<events, log, approvals, peer, registered, prunes, clientVars>>

\* The listener goes; a replay under way goes on.
HandleUnsubscribe ==
  /\ TakeFrame /\ Head(up).kind = "unsubscribe"
  /\ subs' = [j \in DOMAIN subs |->
                IF subs[j].key = Head(up).key
                THEN [subs[j] EXCEPT !.held = FALSE, !.heard = FALSE] ELSE subs[j]]
  /\ UNCHANGED <<events, log, approvals, peer, registered, down, prunes, clientVars>>

\* client.register: hub.client.registered is published, then the reply is sent.
HandleRegister ==
  /\ TakeFrame /\ Head(up).kind = "register"
  /\ registered' = registered \cup {socket}
  /\ Publish(Global, "plain", subs, <<[kind |-> "reply"]>>)
  /\ UNCHANGED <<approvals, peer, prunes, clientVars>>

Replay(j) ==
  /\ j \in DOMAIN subs /\ subs[j].mode = "replay"
  /\ subs' = [subs EXCEPT ![j] = Round(@)]
  /\ down' = down \o RoundFrames(subs[j])
  /\ UNCHANGED <<events, log, approvals, peer, registered, up, prunes, clientVars>>

\* The subscriptions once client.unregister has deleted the client's listeners.
Deaf(ss) == [j \in DOMAIN ss |-> [ss[j] EXCEPT !.heard = FALSE]]

\* onClose: a socket the peer has left, or one the heartbeat takes for dead.  If the
\* client registered on it, the client is unregistered, whichever socket it uses now.
CloseSocket(n) ==
  /\ peer[n] = "halfopen" \/ (peer[n] = "open" /\ n < MaxSockets)
  /\ peer' = [peer EXCEPT ![n] = "closed"]
  /\ up' = IF n = socket THEN << >> ELSE up
  /\ registered' = registered \ {n}
  /\ LET rest == IF n = socket THEN << >> ELSE subs
     IN  IF n \in registered THEN Publish(Global, "plain", Deaf(rest), << >>)
         ELSE subs' = rest /\ UNCHANGED <<events, log, down>>
  /\ UNCHANGED <<approvals, prunes, clientVars>>

\* The daemon dies and is started again: only the log is durable.
RestartHub ==
  /\ socket < MaxSockets
  /\ \E n \in Sockets : peer[n] = "open"
  /\ peer' = [n \in Sockets |-> IF peer[n] = "unused" THEN "unused" ELSE "closed"]
  /\ registered' = {} /\ subs' = << >> /\ approvals' = {} /\ up' = << >>
  /\ UNCHANGED <<events, log, down, prunes, clientVars>>

-----------------------------------------------------------------------------
(* The client.                                                             *)

\* connect: the socket opens and the registration is sent.
Connect ==
  /\ socket = 0
  /\ \E n \in Sockets :
       /\ peer[n] = "unused" /\ \A m \in 1 .. (n - 1) : peer[m] # "unused"
       /\ socket' = n
       /\ peer' = [peer EXCEPT ![n] = "open"]
  /\ up' = <<[kind |-> "register"]>>
  /\ UNCHANGED <<events, log, approvals, registered, subs, down, counts, cursor, first, got,
                 cancelled, prunes>>

\* The client's end of the socket closes; the hub may not have noticed yet.
LoseSocket ==
  /\ socket # 0
  /\ peer[socket] = "closed" \/ socket < MaxSockets
  /\ socket' = 0
  /\ peer' = [peer EXCEPT ![socket] = IF @ = "open" THEN "halfopen" ELSE @]
  /\ up' = << >> /\ down' = << >> /\ subs' = << >>
  /\ UNCHANGED <<events, log, approvals, registered, counts, cursor, first, got, cancelled, prunes>>

\* sendFrame, if the connection is up: a frame to a hub that has left is lost.
Send(frames) == up' = IF socket # 0 /\ peer[socket] = "open" THEN up \o frames ELSE up

\* Bug: the cursor asks for the last event again.
BugSubscribeFrame(k) ==
  [kind |-> "subscribe", key |-> k, since |-> IF cursor[k] < 2 THEN cursor[k] ELSE cursor[k] - 1]

\* Bug: the cursor is not sent.
BugLiveOnly(k) == [kind |-> "subscribe", key |-> k, since |-> 0]

SubscribeFrame(k) == [kind |-> "subscribe", key |-> k, since |-> cursor[k]]

\* adjustSubscriptionCount, from no listener to one
Subscribe(k) ==
  /\ k \notin counts
  /\ counts' = counts \cup {k}
  /\ Send(<<SubscribeFrame(k)>>)
  /\ UNCHANGED <<hubVars, socket, down, cursor, first, got, cancelled>>

\* and back.
Unsubscribe(k) ==
  /\ k \in counts
  /\ k \notin cancelled
  /\ counts' = counts \ {k}
  /\ cancelled' = cancelled \cup {k}
  /\ Send(<<[kind |-> "unsubscribe", key |-> k]>>)
  /\ UNCHANGED <<hubVars, socket, down, cursor, first, got>>

\* The subscriptions are renewed.
TakeReply ==
  /\ socket # 0 /\ down # << >> /\ down' = Tail(down)
  /\ Head(down).kind = "reply"
  /\ \E keys \in SetToSeqs(counts) : Send([j \in DOMAIN keys |-> SubscribeFrame(keys[j])])
  /\ UNCHANGED <<hubVars, clientVars>>

Advanced(k, f) == IF f.sequence > cursor[k] THEN f.sequence ELSE cursor[k]

\* handleFrame: the cursors of the keys the event falls under move, their listeners run.
TakeEvent ==
  /\ socket # 0 /\ down # << >> /\ down' = Tail(down)
  /\ Head(down).kind = "event"
  /\ LET f == Head(down)
         hit == {k \in counts : Covers(k, events[f.id].session)}
     IN  /\ cursor' = [k \in Keys |-> IF k \in hit THEN Advanced(k, f) ELSE cursor[k]]
         /\ first' = [k \in Keys |-> IF k \in hit /\ first[k] = 0 THEN f.sequence ELSE first[k]]
         /\ got' = [k \in Keys |-> IF k \in hit THEN got[k] \cup {f.id} ELSE got[k]]
  /\ UNCHANGED <<hubVars, up, socket, counts, cancelled>>

-----------------------------------------------------------------------------
HandleFrame == HandleSubscribe \/ HandleUnsubscribe \/ HandleRegister
TakeMessage == TakeReply \/ TakeEvent

Next ==
  \/ \E s \in Sessions : PublishEvent(s) \/ RequestApproval(s)
  \/ \E a \in Ids : RespondApproval(a)
  \/ Prune
  \/ HandleFrame
  \/ \E j \in DOMAIN subs : Replay(j)
  \/ \E n \in Sockets : CloseSocket(n)
  \/ RestartHub
  \/ Connect \/ LoseSocket
  \/ \E k \in Keys : Subscribe(k) \/ Unsubscribe(k)
  \/ TakeMessage

Spec == Init /\ [][Next]_vars

\* The event loops run on, the reconnect timer fires while there are subscriptions, a
\* client sees that its hub is gone, and the heartbeat finds every socket left half open.
FairSpec ==
  /\ Spec
  /\ WF_vars(HandleFrame)
  /\ WF_vars(\E j \in DOMAIN subs : Replay(j))
  /\ WF_vars(counts # {} /\ Connect)
  /\ WF_vars(socket # 0 /\ peer[socket] = "closed" /\ LoseSocket)
  /\ WF_vars(\E n \in Sockets : peer[n] = "halfopen" /\ CloseSocket(n))
  /\ WF_vars(TakeMessage)

-----------------------------------------------------------------------------
(* Properties.                                                             *)

Wanted(k) == {e \in log : Covers(k, events[e].session)}

\* The replay leaves no gap: between the first event a client saw under a key and its
\* cursor, every event the log still has was handed to its listeners, over whatever
\* losses of the connection, restarts and interleavings of replay and live events.
\* (A key whose listeners were all removed and added again is left out: on one
\* connection the frames of its former subscription may meet those of the new one.)
NoGap ==
  \A k \in Keys \ cancelled : \A e \in Wanted(k) :
    first[k] # 0 /\ first[k] <= e /\ e <= cursor[k] => e \in got[k]

\* No duplicates and no disorder: the numbered events on their way to a listener are
\* ones it has not seen, in the order of the log.
InOrder ==
  \A k \in counts \ cancelled :
    LET Numbers(f) == f.kind = "event" /\ f.sequence # 0 /\ Covers(k, events[f.id].session)
    IN  \A i \in DOMAIN down : Numbers(down[i]) =>
          /\ down[i].sequence > cursor[k]
          /\ \A j \in 1 .. (i - 1) : Numbers(down[j]) => down[j].sequence < down[i].sequence

\* No event is on its way to a listener twice: an approval that is both replayed and re-issued
\* on one connection is shown once.  An approval that a later connection re-issues although an
\* earlier one has shown it is not meant: whoever reconnects has to be shown it again.
NoRepeat ==
  \A k \in counts \ cancelled : \A i, j \in DOMAIN down :
    /\ i < j /\ down[i].kind = "event" /\ down[j].kind = "event"
    /\ Covers(k, events[down[i].id].session)
    => down[i].id # down[j].id

\* What a listener is about to be handed is in order and new to it.
DeliveryInv == TypeOK /\ InOrder /\ NoRepeat

\* The client's subscription is in the adapter's map but has no listener in the hub.
Silenced(k) == \E j \in DOMAIN subs : subs[j].key = k /\ subs[j].held /\ ~subs[j].heard

CaughtUp(k) == first[k] # 0 => \A e \in Wanted(k) : e < first[k] \/ e \in got[k]

\* A client with a cursor is always caught up in the end: it reconnects and receives
\* what it missed, unless the close of an older socket has silenced the new one.
CatchesUp == \A k \in Keys : []<>(CaughtUp(k) \/ k \notin counts \/ k \in cancelled \/ Silenced(k))

\* An open approval reaches a subscribed client, even one that connects after the
\* request was published and has no cursor, unless its socket was silenced.
ApprovalReaches ==
  \A k \in Keys :
    []<>(\/ \A a \in approvals : Covers(k, events[a].session) => a \in got[k]
         \/ k \notin counts \/ k \in cancelled \/ Silenced(k))

\* hub-event-log.ts: "disconnect never implies data loss".
DisconnectLosesNothing ==
  \A k \in Keys : []<>(CaughtUp(k) \/ k \notin counts \/ k \in cancelled)
=============================================================================
