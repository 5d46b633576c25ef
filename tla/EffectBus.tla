----------------------------- MODULE EffectBus -----------------------------
(***************************************************************************)
(* The effect bus: publishers fan events out to the buffered channels of   *)
(* the subscribers, and a full channel loses an event rather than block.   *)
(*                                                                         *)
(* Subscribe, Unsubscribe and Close hold the write lock for their whole    *)
(* body, so each is one step that waits for the publishers.  Publish holds *)
(* the read lock, so publishers run beside each other: each select of its  *)
(* loop is a step.  Receivers take no lock.                                *)
(*                                                                         *)
(* As in TraceStore, a definition named ..._Something is a faulty variant  *)
(* of the one after it that no behaviour uses.                             *)
(***************************************************************************)
EXTENDS Naturals, Sequences

CONSTANTS
    Publishers,     \* goroutines that publish
    SubscriberIds,  \* the ids subscriptions are made under
    Channels,       \* the channels Subscribe can make
    BufferSize,     \* the capacity of a channel
    MaxEvents       \* bounds the events of one publisher

ASSUME BufferSizeAssumption == BufferSize \in Nat \ {0}
ASSUME MaxEventsAssumption == MaxEvents \in Nat

None == "none"

ASSUME ChannelsAssumption == None \notin Channels

VARIABLES
    subscribers,    \* id -> its channel, or None
    closed,         \* whether the bus is closed
    state,          \* channel -> "new", "open" or "closed"
    buffer,         \* channel -> the events in its buffer, oldest first
    received,       \* channel -> the events its receiver took from it
    pc,             \* publisher -> where it is in Publish
    todo,           \* publisher -> the channels it has not served yet
    current,        \* publisher -> the channel it is making room in, or None
    sent,           \* publisher -> the number of its events so far
    refused         \* the events that were dropped without entering the buffer

busVars     == <<subscribers, closed, state>>
channelVars == <<buffer, received>>
loopVars    == <<pc, todo, current, sent>>
vars        == <<busVars, channelVars, loopVars, refused>>

\* An event is named by its publisher and its number.
Event(p) == <<p, sent[p]>>

Init ==
    /\ subscribers = [id \in SubscriberIds |-> None]
    /\ closed = FALSE
    /\ state = [c \in Channels |-> "new"]
    /\ buffer = [c \in Channels |-> << >>]
    /\ received = [c \in Channels |-> << >>]
    /\ pc = [p \in Publishers |-> "idle"]
    /\ todo = [p \in Publishers |-> {}]
    /\ current = [p \in Publishers |-> None]
    /\ sent = [p \in Publishers |-> 0]
    /\ refused = {}

-----------------------------------------------------------------------------
(***************************************************************************)
(* Under the write lock.                                                   *)
(***************************************************************************)
WriteLockFree_Ignored == TRUE
WriteLockFree == \A p \in Publishers : pc[p] = "idle"

Subscribed == {subscribers[id] : id \in SubscriberIds} \ {None}

CloseAll(chans) == [c \in Channels |-> IF c \in chans THEN "closed" ELSE state[c]]

Subscribe_OldLeftOpen(id, c) ==
    /\ WriteLockFree
    /\ ~closed
    /\ state[c] = "new"
    /\ state' = [state EXCEPT ![c] = "open"]
    /\ subscribers' = [subscribers EXCEPT ![id] = c]
    /\ UNCHANGED <<closed, channelVars, loopVars, refused>>

\* Makes channel c; a subscription of the same id is closed and replaced.
Subscribe(id, c) ==
    /\ WriteLockFree
    /\ ~closed
    /\ state[c] = "new"
    /\ state' = [CloseAll({subscribers[id]}) EXCEPT ![c] = "open"]
    /\ subscribers' = [subscribers EXCEPT ![id] = c]
    /\ UNCHANGED <<closed, channelVars, loopVars, refused>>

\* On a closed bus the new channel is closed already.
SubscribeToClosed(c) ==
    /\ WriteLockFree
    /\ closed
    /\ state[c] = "new"
    /\ state' = [state EXCEPT ![c] = "closed"]
    /\ UNCHANGED <<subscribers, closed, channelVars, loopVars, refused>>

Unsubscribe(id) ==
    /\ WriteLockFree
    /\ subscribers[id] # None
    /\ state' = CloseAll({subscribers[id]})
    /\ subscribers' = [subscribers EXCEPT ![id] = None]
    /\ UNCHANGED <<closed, channelVars, loopVars, refused>>

Close ==
    /\ WriteLockFree
    /\ ~closed
    /\ closed' = TRUE
    /\ state' = CloseAll(Subscribed)
    /\ subscribers' = [id \in SubscriberIds |-> None]
    /\ UNCHANGED <<channelVars, loopVars, refused>>

-----------------------------------------------------------------------------
(***************************************************************************)
(* Publish, under the read lock.  The map of subscribers is ranged over in *)
(* any order.                                                              *)
(***************************************************************************)
StartPublish(p) ==
    /\ pc[p] = "idle"
    /\ sent[p] < MaxEvents
    /\ sent' = [sent EXCEPT ![p] = @ + 1]
    /\ IF closed
       THEN UNCHANGED <<pc, todo>>
       ELSE /\ pc' = [pc EXCEPT ![p] = "range"]
            /\ todo' = [todo EXCEPT ![p] = Subscribed]
    /\ UNCHANGED <<busVars, channelVars, current, refused>>

HasRoom(c) == Len(buffer[c]) < BufferSize

Enqueue(c, event) == buffer' = [buffer EXCEPT ![c] = Append(@, event)]

Served(p, c) ==
    /\ todo' = [todo EXCEPT ![p] = @ \ {c}]
    /\ current' = [current EXCEPT ![p] = None]
    /\ pc' = [pc EXCEPT ![p] = "range"]

\* The first select.
Send(p, c) ==
    /\ pc[p] = "range"
    /\ c \in todo[p]
    /\ HasRoom(c)
    /\ Enqueue(c, Event(p))
    /\ Served(p, c)
    /\ UNCHANGED <<busVars, received, sent, refused>>

FindFull_NoDefault(p, c) ==
    /\ pc[p] = "range"
    /\ c \in todo[p]
    /\ FALSE
    /\ UNCHANGED vars

FindFull(p, c) ==
    /\ pc[p] = "range"
    /\ c \in todo[p]
    /\ ~HasRoom(c)
    /\ pc' = [pc EXCEPT ![p] = "drain"]
    /\ current' = [current EXCEPT ![p] = c]
    /\ UNCHANGED <<busVars, channelVars, todo, sent, refused>>

Drain_Nothing(p) ==
    /\ pc[p] = "drain"
    /\ pc' = [pc EXCEPT ![p] = "resend"]
    /\ UNCHANGED <<busVars, channelVars, todo, current, sent, refused>>

\* What was drained goes back behind the others.
Drain_Requeued(p) ==
    /\ pc[p] = "drain"
    /\ buffer' = IF buffer[current[p]] = << >> THEN buffer
                 ELSE [buffer EXCEPT ![current[p]] = Append(Tail(@), Head(@))]
    /\ pc' = [pc EXCEPT ![p] = "resend"]
    /\ UNCHANGED <<busVars, received, todo, current, sent, refused>>

\* The second select: drop the oldest event, if the receiver left one.
Drain(p) ==
    /\ pc[p] = "drain"
    /\ buffer' = IF buffer[current[p]] = << >> THEN buffer
                 ELSE [buffer EXCEPT ![current[p]] = Tail(@)]
    /\ pc' = [pc EXCEPT ![p] = "resend"]
    /\ UNCHANGED <<busVars, received, todo, current, sent, refused>>

\* The third select.
Resend(p) ==
    /\ pc[p] = "resend"
    /\ HasRoom(current[p])
    /\ Enqueue(current[p], Event(p))
    /\ Served(p, current[p])
    /\ UNCHANGED <<busVars, received, sent, refused>>

GiveUp(p) ==
    /\ pc[p] = "resend"
    /\ ~HasRoom(current[p])
    /\ refused' = refused \cup {Event(p)}
    /\ Served(p, current[p])
    /\ UNCHANGED <<busVars, channelVars, sent>>

EndPublish(p) ==
    /\ pc[p] = "range"
    /\ todo[p] = {}
    /\ pc' = [pc EXCEPT ![p] = "idle"]
    /\ UNCHANGED <<busVars, channelVars, todo, current, sent, refused>>

-----------------------------------------------------------------------------
\* A receiver takes the oldest event; what a closed channel still holds can be
\* received.
Receive(c) ==
    /\ buffer[c] # << >>
    /\ received' = [received EXCEPT ![c] = Append(@, Head(buffer[c]))]
    /\ buffer' = [buffer EXCEPT ![c] = Tail(@)]
    /\ UNCHANGED <<busVars, loopVars, refused>>

PublisherStep(p) ==
    \/ \E c \in Channels : Send(p, c) \/ FindFull(p, c)
    \/ Drain(p)
    \/ Resend(p)
    \/ GiveUp(p)
    \/ EndPublish(p)

Next ==
    \/ \E id \in SubscriberIds, c \in Channels : Subscribe(id, c)
    \/ \E c \in Channels : SubscribeToClosed(c)
    \/ \E id \in SubscriberIds : Unsubscribe(id)
    \/ Close
    \/ \E p \in Publishers : StartPublish(p) \/ PublisherStep(p)
    \/ \E c \in Channels : Receive(c)

Spec == Init /\ [][Next]_vars

\* A publisher inside Publish keeps running; nobody has to receive.
FairSpec == Spec /\ \A p \in Publishers : WF_vars(PublisherStep(p))

-----------------------------------------------------------------------------
(***************************************************************************)
(* Type correctness.                                                       *)
(***************************************************************************)
TypeOK ==
    /\ subscribers \in [SubscriberIds -> Channels \cup {None}]
    /\ closed \in BOOLEAN
    /\ state \in [Channels -> {"new", "open", "closed"}]
    /\ buffer \in [Channels -> Seq(Publishers \X Nat)]
    /\ received \in [Channels -> Seq(Publishers \X Nat)]
    /\ pc \in [Publishers -> {"idle", "range", "drain", "resend"}]
    /\ todo \in [Publishers -> SUBSET Channels]
    /\ current \in [Publishers -> Channels \cup {None}]
    /\ sent \in [Publishers -> Nat]

\* Publish sends on channels it read from the map before; a send on a closed
\* channel panics.  Every channel a publisher has still to serve is open and
\* subscribed, whatever Subscribe, Unsubscribe and Close do meanwhile.
NoSendOnClosedChannel ==
    \A p \in Publishers :
      /\ \A c \in todo[p] : state[c] = "open" /\ c \in Subscribed
      /\ pc[p] \in {"drain", "resend"} => current[p] \in todo[p]

\* A receiver that still waits can be reached: every open channel is some
\* subscription's, no two subscriptions share one, and a closed bus has none.
OpenMeansSubscribed ==
    /\ \A c \in Channels : state[c] = "open" <=> c \in Subscribed
    /\ \A i, j \in SubscriberIds :
         subscribers[i] = subscribers[j] /\ subscribers[i] # None => i = j
    /\ closed => \A c \in Channels : state[c] # "open"

\* Two publishers that find room in one channel together do not overfill it.
BufferBounded == \A c \in Channels : Len(buffer[c]) <= BufferSize

\* Everything that came out of a channel or is in it, in order.
History(c) == received[c] \o buffer[c]

\* Events of one publisher arrive in order and at most once, whatever is dropped
\* and however other publishers interleave.
PublisherOrder ==
    \A c \in Channels : \A i, j \in DOMAIN History(c) :
      (i < j /\ History(c)[i][1] = History(c)[j][1]) => History(c)[i][2] < History(c)[j][2]

\* While one goroutine publishes, as the trace store does under its append lock, a
\* subscriber that is behind loses old events and never the newest: no event is turned
\* away, and once Publish has returned, the last thing a subscription got or has in its
\* buffer is the event just published.
NewestSurvives ==
    \A p \in Publishers : (\A q \in Publishers \ {p} : sent[q] = 0) =>
      /\ refused = {}
      /\ \A c \in Subscribed :
           (pc[p] = "idle" /\ History(c) # << >>) => History(c)[Len(History(c))] = Event(p)

\* Publish never blocks: it returns although nobody receives.
PublishReturns == \A p \in Publishers : pc[p] # "idle" ~> pc[p] = "idle"
=============================================================================
