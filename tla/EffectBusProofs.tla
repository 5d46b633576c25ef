--------------------------- MODULE EffectBusProofs ---------------------------
(***************************************************************************)
(* Proofs about the effect bus for every number of publishers,             *)
(* subscriptions, channels and events, and every buffer size, and about    *)
(* the memory behind the events for any batches.                           *)
(***************************************************************************)
EXTENDS EffectBus, EventMemory, SequenceTheorems, TLAPS

\* A publisher outside Publish has nobody left to serve: with the write lock free,
\* nobody holds a channel that Subscribe, Unsubscribe or Close is about to close.
IdleHasNothingToDo == \A p \in Publishers : pc[p] = "idle" => todo[p] = {}

\* The inductive invariant of the bus.
BusInv ==
    /\ TypeOK
    /\ NoSendOnClosedChannel
    /\ OpenMeansSubscribed
    /\ IdleHasNothingToDo
    /\ BufferBounded

\* NewEffectBus makes a bus that satisfies the invariant.
LEMMA InitBusInv ==
    Init => BusInv
  <1> SUFFICES ASSUME Init PROVE BusInv
    OBVIOUS
  <1>1. TypeOK
    <2>1. << >> \in Seq(Publishers \X Nat)
      OBVIOUS
    <2>2. /\ buffer \in [Channels -> Seq(Publishers \X Nat)]
          /\ received \in [Channels -> Seq(Publishers \X Nat)]
      BY <2>1 DEF Init
    <2> QED
      BY <2>2 DEF Init, TypeOK
  <1>2. NoSendOnClosedChannel /\ IdleHasNothingToDo
    BY DEF Init, NoSendOnClosedChannel, IdleHasNothingToDo
  <1>3. OpenMeansSubscribed
    BY ChannelsAssumption DEF Init, OpenMeansSubscribed, Subscribed
  <1>4. BufferBounded
    BY BufferSizeAssumption DEF Init, BufferBounded
  <1> QED
    BY <1>1, <1>2, <1>3, <1>4 DEF BusInv

\* The steps under the write lock leave buffers and publishers alone and run when
\* no publisher has anything left to serve.
LEMMA LockedStep ==
    ASSUME BusInv, WriteLockFree, UNCHANGED <<channelVars, loopVars>>
    PROVE  NoSendOnClosedChannel' /\ IdleHasNothingToDo' /\ BufferBounded'
  <1>1. \A p \in Publishers : pc[p] = "idle" /\ todo[p] = {}
    BY DEF BusInv, WriteLockFree, IdleHasNothingToDo
  <1>2. NoSendOnClosedChannel' /\ IdleHasNothingToDo'
    BY <1>1 DEF NoSendOnClosedChannel, IdleHasNothingToDo, loopVars
  <1>3. BufferBounded'
    BY DEF BusInv, BufferBounded, channelVars
  <1> QED
    BY <1>2, <1>3

\* Subscribe closes the channel it replaces before anybody can publish to it again.
LEMMA SubscribeBusInv ==
    ASSUME BusInv, NEW id \in SubscriberIds, NEW c \in Channels, Subscribe(id, c)
    PROVE  BusInv'
  <1>1. TypeOK'
    BY DEF BusInv, TypeOK, Subscribe, CloseAll, channelVars, loopVars
  <1>2. \A i \in SubscriberIds : subscribers'[i] = IF i = id THEN c ELSE subscribers[i]
    BY DEF BusInv, TypeOK, Subscribe
  <1>3. \A d \in Channels : state'[d] = IF d = c THEN "open"
                                       ELSE IF d = subscribers[id] THEN "closed" ELSE state[d]
    BY DEF BusInv, TypeOK, Subscribe, CloseAll
  <1>4. \A i \in SubscriberIds : subscribers[i] # c
    BY ChannelsAssumption DEF BusInv, OpenMeansSubscribed, Subscribed, Subscribe
  <1>5. \A d \in Channels : state[d] = "open" <=> \E i \in SubscriberIds : subscribers[i] = d
    BY ChannelsAssumption DEF BusInv, OpenMeansSubscribed, Subscribed
  <1>6. \A d \in Channels : state'[d] = "open" <=> \E i \in SubscriberIds : subscribers'[i] = d
    BY <1>2, <1>3, <1>4, <1>5, ChannelsAssumption DEF BusInv, OpenMeansSubscribed
  <1>7. OpenMeansSubscribed'
    BY <1>2, <1>4, <1>6, ChannelsAssumption DEF BusInv, OpenMeansSubscribed, Subscribed, Subscribe
  <1> QED
    BY <1>1, <1>7, LockedStep DEF BusInv, Subscribe

\* Unsubscribe closes the channel it takes out of the map.
LEMMA UnsubscribeBusInv ==
    ASSUME BusInv, NEW id \in SubscriberIds, Unsubscribe(id)
    PROVE  BusInv'
  <1>1. TypeOK'
    BY DEF BusInv, TypeOK, Unsubscribe, CloseAll, channelVars, loopVars
  <1>2. \A i \in SubscriberIds : subscribers'[i] = IF i = id THEN None ELSE subscribers[i]
    BY DEF BusInv, TypeOK, Unsubscribe
  <1>3. \A d \in Channels : state'[d] = IF d = subscribers[id] THEN "closed" ELSE state[d]
    BY DEF BusInv, TypeOK, Unsubscribe, CloseAll
  <1>4. OpenMeansSubscribed'
    BY <1>2, <1>3, ChannelsAssumption DEF BusInv, OpenMeansSubscribed, Subscribed, Unsubscribe
  <1> QED
    BY <1>1, <1>4, LockedStep DEF BusInv, Unsubscribe

\* Close closes every channel of the map, and SubscribeToClosed opens none.
LEMMA CloseBusInv ==
    ASSUME BusInv, Close \/ \E c \in Channels : SubscribeToClosed(c)
    PROVE  BusInv'
  <1>1. CASE Close
    <2>1. TypeOK'
      BY <1>1 DEF BusInv, TypeOK, Close, CloseAll, channelVars, loopVars
    <2>2. OpenMeansSubscribed'
      BY <1>1, ChannelsAssumption DEF BusInv, OpenMeansSubscribed, Subscribed, Close, CloseAll
    <2> QED
      BY <1>1, <2>1, <2>2, LockedStep DEF BusInv, Close
  <1>2. CASE \E c \in Channels : SubscribeToClosed(c)
    <2>1. PICK c \in Channels : SubscribeToClosed(c)
      BY <1>2
    <2>2. TypeOK'
      BY <2>1 DEF BusInv, TypeOK, SubscribeToClosed, channelVars, loopVars
    <2>3. OpenMeansSubscribed'
      BY <2>1, ChannelsAssumption DEF BusInv, TypeOK, OpenMeansSubscribed, Subscribed,
         SubscribeToClosed
    <2> QED
      BY <2>1, <2>2, <2>3, LockedStep DEF BusInv, SubscribeToClosed
  <1> QED
    BY <1>1, <1>2

\* The steps of a publisher leave the subscriptions alone.
LEMMA SameSubscriptions ==
    ASSUME BusInv, UNCHANGED busVars
    PROVE  OpenMeansSubscribed' /\ Subscribed' = Subscribed /\ state' = state
  BY DEF BusInv, OpenMeansSubscribed, Subscribed, busVars

\* Publish starts with the open channels of the map, or on a closed bus with none.
LEMMA StartPublishBusInv ==
    ASSUME BusInv, NEW p \in Publishers, StartPublish(p)
    PROVE  BusInv'
  <1>1. \A c \in Subscribed : c \in Channels /\ state[c] = "open"
    BY DEF BusInv, TypeOK, OpenMeansSubscribed, Subscribed
  <1>2. /\ sent' \in [Publishers -> Nat]
        /\ UNCHANGED <<busVars, channelVars, current>>
    BY DEF BusInv, TypeOK, StartPublish
  <1>3. OpenMeansSubscribed' /\ Subscribed' = Subscribed /\ state' = state
    BY <1>2, SameSubscriptions
  <1>4. BufferBounded'
    BY <1>2 DEF BusInv, BufferBounded, channelVars
  <1>5. CASE closed
    <2>1. UNCHANGED <<pc, todo>>
      BY <1>5 DEF StartPublish
    <2>2. TypeOK' /\ NoSendOnClosedChannel' /\ IdleHasNothingToDo'
      BY <1>2, <1>3, <2>1 DEF BusInv, TypeOK, NoSendOnClosedChannel, IdleHasNothingToDo,
                              busVars, channelVars
    <2> QED
      BY <1>3, <1>4, <2>2 DEF BusInv
  <1>6. CASE ~closed
    <2>1. /\ pc' = [pc EXCEPT ![p] = "range"]
          /\ todo' = [todo EXCEPT ![p] = Subscribed]
      BY <1>6 DEF StartPublish
    <2>2. todo' \in [Publishers -> SUBSET Channels] /\ todo'[p] = Subscribed
      BY <1>1, <2>1 DEF BusInv, TypeOK
    <2>3. TypeOK'
      BY <1>2, <2>1, <2>2 DEF BusInv, TypeOK, busVars, channelVars
    <2>4. \A q \in Publishers : q # p => pc'[q] = pc[q] /\ todo'[q] = todo[q]
      BY <2>1 DEF BusInv, TypeOK
    <2>5. pc'[p] = "range"
      BY <2>1 DEF BusInv, TypeOK
    <2>6. NoSendOnClosedChannel' /\ IdleHasNothingToDo'
      BY <1>1, <1>2, <1>3, <2>2, <2>4, <2>5 DEF BusInv, NoSendOnClosedChannel, IdleHasNothingToDo
    <2> QED
      BY <1>3, <1>4, <2>3, <2>6 DEF BusInv
  <1> QED
    BY <1>5, <1>6

\* What a publisher does with one channel keeps its buffer within bounds.
LEMMA EnqueueBounded ==
    ASSUME BusInv, NEW p \in Publishers, NEW c \in Channels, HasRoom(c), Enqueue(c, Event(p))
    PROVE  BufferBounded' /\ buffer' \in [Channels -> Seq(Publishers \X Nat)]
  <1>1. Event(p) \in Publishers \X Nat
    BY DEF BusInv, TypeOK, Event
  <1>2. buffer' = [buffer EXCEPT ![c] = Append(buffer[c], Event(p))]
    BY DEF Enqueue
  <1>3. /\ Append(buffer[c], Event(p)) \in Seq(Publishers \X Nat)
        /\ Len(Append(buffer[c], Event(p))) = Len(buffer[c]) + 1
        /\ Len(buffer[c]) \in Nat
    BY <1>1 DEF BusInv, TypeOK
  <1>4. buffer' \in [Channels -> Seq(Publishers \X Nat)]
    BY <1>2, <1>3 DEF BusInv, TypeOK
  <1>5. Len(buffer[c]) + 1 <= BufferSize
    BY <1>3, BufferSizeAssumption DEF HasRoom
  <1>6. \A d \in Channels : Len(buffer'[d]) <= BufferSize
    BY <1>2, <1>3, <1>5 DEF BusInv, TypeOK, BufferBounded
  <1> QED
    BY <1>4, <1>6 DEF BufferBounded

\* Draining one event, or receiving one, keeps the buffers within bounds.
LEMMA TailBounded ==
    ASSUME BusInv, NEW c \in Channels, buffer[c] # << >>,
           buffer' = [buffer EXCEPT ![c] = Tail(@)]
    PROVE  BufferBounded' /\ buffer' \in [Channels -> Seq(Publishers \X Nat)]
  <1>1. /\ Tail(buffer[c]) \in Seq(Publishers \X Nat)
        /\ Len(Tail(buffer[c])) = Len(buffer[c]) - 1
        /\ Len(buffer[c]) \in Nat
    BY DEF BusInv, TypeOK
  <1>2. buffer' \in [Channels -> Seq(Publishers \X Nat)]
    BY <1>1 DEF BusInv, TypeOK
  <1>3. \A d \in Channels : Len(buffer'[d]) <= BufferSize
    BY <1>1, BufferSizeAssumption DEF BusInv, TypeOK, BufferBounded
  <1> QED
    BY <1>2, <1>3 DEF BufferBounded

\* A channel that was served, or found full, was one of those to serve.
LEMMA LoopStep ==
    ASSUME BusInv, NEW p \in Publishers, UNCHANGED busVars,
           pc'[p] \in {"range", "drain", "resend"} \/ (pc'[p] = "idle" /\ todo'[p] = {}),
           pc' \in [Publishers -> {"idle", "range", "drain", "resend"}],
           \A q \in Publishers \ {p} :
             pc'[q] = pc[q] /\ todo'[q] = todo[q] /\ current'[q] = current[q],
           todo'[p] \subseteq todo[p],
           pc'[p] \in {"drain", "resend"} => current'[p] \in todo'[p]
    PROVE  NoSendOnClosedChannel' /\ IdleHasNothingToDo' /\ OpenMeansSubscribed'
  <1>1. OpenMeansSubscribed' /\ Subscribed' = Subscribed /\ state' = state
    BY SameSubscriptions
  <1>2. NoSendOnClosedChannel'
    BY <1>1 DEF BusInv, NoSendOnClosedChannel
  <1>3. IdleHasNothingToDo'
    BY DEF BusInv, IdleHasNothingToDo
  <1> QED
    BY <1>1, <1>2, <1>3

\* Going on to the next channel of the loop preserves the invariant.
LEMMA ServedBusInv ==
    ASSUME BusInv, NEW p \in Publishers, NEW c \in todo[p], Served(p, c),
           UNCHANGED <<busVars, received, sent>>, BufferBounded',
           buffer' \in [Channels -> Seq(Publishers \X Nat)]
    PROVE  BusInv'
  <1>1. TypeOK'
    BY DEF BusInv, TypeOK, Served, busVars
  <1>2. /\ pc'[p] = "range" /\ todo'[p] \subseteq todo[p]
        /\ \A q \in Publishers \ {p} :
             pc'[q] = pc[q] /\ todo'[q] = todo[q] /\ current'[q] = current[q]
    BY DEF BusInv, TypeOK, Served
  <1>3. NoSendOnClosedChannel' /\ IdleHasNothingToDo' /\ OpenMeansSubscribed'
    BY <1>1, <1>2, LoopStep DEF TypeOK
  <1> QED
    BY <1>1, <1>3 DEF BusInv

\* Every select of the loop of Publish preserves the invariant.
LEMMA PublisherBusInv ==
    ASSUME BusInv, NEW p \in Publishers, PublisherStep(p)
    PROVE  BusInv'
  <1>1. CASE \E c \in Channels : Send(p, c)
    <2>1. PICK c \in Channels : Send(p, c)
      BY <1>1
    <2>2. BufferBounded' /\ buffer' \in [Channels -> Seq(Publishers \X Nat)]
      BY <2>1, EnqueueBounded DEF Send
    <2> QED
      BY <2>1, <2>2, ServedBusInv DEF Send
  <1>2. CASE \E c \in Channels : FindFull(p, c)
    <2>1. PICK c \in Channels : FindFull(p, c)
      BY <1>2
    <2>2. TypeOK'
      BY <2>1 DEF BusInv, TypeOK, FindFull, busVars, channelVars
    <2>3. /\ pc'[p] = "drain" /\ todo' = todo /\ current'[p] \in todo[p]
          /\ \A q \in Publishers \ {p} : pc'[q] = pc[q] /\ current'[q] = current[q]
      BY <2>1 DEF BusInv, TypeOK, FindFull
    <2>4. NoSendOnClosedChannel' /\ IdleHasNothingToDo' /\ OpenMeansSubscribed'
      BY <2>1, <2>2, <2>3, LoopStep DEF TypeOK, FindFull
    <2>5. BufferBounded'
      BY <2>1 DEF BusInv, BufferBounded, FindFull, channelVars
    <2> QED
      BY <2>2, <2>4, <2>5 DEF BusInv
  <1>3. CASE Drain(p)
    <2>1. current[p] \in todo[p] /\ current[p] \in Channels
      BY <1>3 DEF BusInv, TypeOK, NoSendOnClosedChannel, Drain
    <2>2. BufferBounded' /\ buffer' \in [Channels -> Seq(Publishers \X Nat)]
      <3>1. CASE buffer[current[p]] = << >>
        BY <1>3, <3>1 DEF BusInv, TypeOK, BufferBounded, Drain
      <3>2. CASE buffer[current[p]] # << >>
        BY <1>3, <2>1, <3>2, TailBounded DEF Drain
      <3> QED
        BY <3>1, <3>2
    <2>3. TypeOK'
      BY <1>3, <2>2 DEF BusInv, TypeOK, Drain, busVars
    <2>4. /\ pc'[p] = "resend" /\ todo' = todo /\ current' = current
          /\ \A q \in Publishers \ {p} : pc'[q] = pc[q]
      BY <1>3 DEF BusInv, TypeOK, Drain
    <2>5. NoSendOnClosedChannel' /\ IdleHasNothingToDo' /\ OpenMeansSubscribed'
      BY <1>3, <2>1, <2>3, <2>4, LoopStep DEF TypeOK, Drain
    <2> QED
      BY <2>2, <2>3, <2>5 DEF BusInv
  <1>4. CASE Resend(p) \/ GiveUp(p)
    <2>1. current[p] \in todo[p] /\ current[p] \in Channels
      BY <1>4 DEF BusInv, TypeOK, NoSendOnClosedChannel, Resend, GiveUp
    <2>2. BufferBounded' /\ buffer' \in [Channels -> Seq(Publishers \X Nat)]
      <3>1. CASE Resend(p)
        BY <2>1, <3>1, EnqueueBounded DEF Resend
      <3>2. CASE GiveUp(p)
        BY <3>2 DEF BusInv, TypeOK, BufferBounded, GiveUp, channelVars
      <3> QED
        BY <1>4, <3>1, <3>2
    <2>3. Served(p, current[p]) /\ UNCHANGED <<busVars, received, sent>>
      BY <1>4 DEF Resend, GiveUp, channelVars
    <2> QED
      BY <2>1, <2>2, <2>3, ServedBusInv
  <1>5. CASE EndPublish(p)
    <2>1. TypeOK'
      BY <1>5 DEF BusInv, TypeOK, EndPublish, busVars, channelVars
    <2>2. /\ pc'[p] = "idle" /\ todo' = todo /\ todo[p] = {} /\ current' = current
          /\ \A q \in Publishers \ {p} : pc'[q] = pc[q]
      BY <1>5 DEF BusInv, TypeOK, EndPublish
    <2>3. NoSendOnClosedChannel' /\ IdleHasNothingToDo' /\ OpenMeansSubscribed'
      BY <1>5, <2>1, <2>2, LoopStep DEF TypeOK, EndPublish
    <2>4. BufferBounded'
      BY <1>5 DEF BusInv, BufferBounded, EndPublish, channelVars
    <2> QED
      BY <2>1, <2>3, <2>4 DEF BusInv
  <1> QED
    BY <1>1, <1>2, <1>3, <1>4, <1>5 DEF PublisherStep

\* A receiver, who takes no lock, preserves the invariant.
LEMMA ReceiveBusInv ==
    ASSUME BusInv, NEW c \in Channels, Receive(c)
    PROVE  BusInv'
  <1>1. BufferBounded' /\ buffer' \in [Channels -> Seq(Publishers \X Nat)]
    BY TailBounded DEF Receive
  <1>2. received' \in [Channels -> Seq(Publishers \X Nat)]
    <2>1. Append(received[c], Head(buffer[c])) \in Seq(Publishers \X Nat)
      BY DEF BusInv, TypeOK, Receive
    <2> QED
      BY <2>1 DEF BusInv, TypeOK, Receive
  <1>3. TypeOK'
    BY <1>1, <1>2 DEF BusInv, TypeOK, Receive, busVars, loopVars
  <1>4. OpenMeansSubscribed' /\ Subscribed' = Subscribed /\ state' = state
    BY SameSubscriptions DEF Receive
  <1>5. NoSendOnClosedChannel' /\ IdleHasNothingToDo'
    BY <1>4 DEF BusInv, NoSendOnClosedChannel, IdleHasNothingToDo, Receive, loopVars
  <1> QED
    BY <1>1, <1>3, <1>4, <1>5 DEF BusInv

\* Every step of the bus preserves the invariant.
LEMMA NextBusInv ==
    ASSUME BusInv, [Next]_vars
    PROVE  BusInv'
  <1>1. CASE UNCHANGED vars
    <2>1. UNCHANGED <<busVars, channelVars, loopVars>>
      BY <1>1 DEF vars
    <2>2. OpenMeansSubscribed' /\ Subscribed' = Subscribed /\ state' = state
      BY <2>1, SameSubscriptions
    <2>3. NoSendOnClosedChannel' /\ IdleHasNothingToDo' /\ BufferBounded'
      BY <2>1, <2>2 DEF BusInv, NoSendOnClosedChannel, IdleHasNothingToDo, BufferBounded,
                        loopVars, channelVars
    <2>4. TypeOK'
      BY <2>1 DEF BusInv, TypeOK, busVars, channelVars, loopVars
    <2> QED
      BY <2>2, <2>3, <2>4 DEF BusInv
  <1>2. CASE Next
    BY <1>2, SubscribeBusInv, UnsubscribeBusInv, CloseBusInv, StartPublishBusInv,
       PublisherBusInv, ReceiveBusInv DEF Next
  <1> QED
    BY <1>1, <1>2

\* The bus keeps, at every step of any number of publishers, subscribers and receivers,
\* the conjunction that its safety laws follow from.
THEOREM BusInvHolds ==
    Spec => []BusInv
  <1>1. Init => BusInv
    BY InitBusInv
  <1>2. BusInv /\ [Next]_vars => BusInv'
    BY NextBusInv
  <1> QED
    BY <1>1, <1>2, PTL DEF Spec

-----------------------------------------------------------------------------
\* Publish never sends on a channel that Subscribe, Unsubscribe or Close closed, with
\* any number of publishers: the lock keeps what it read from the map valid.
THEOREM NoPanic ==
    Spec => []NoSendOnClosedChannel
  <1>1. BusInv => NoSendOnClosedChannel
    BY DEF BusInv
  <1> QED
    BY <1>1, BusInvHolds, PTL

\* A channel is open exactly as long as it is somebody's subscription.
THEOREM OpenStaysSubscribed ==
    Spec => []OpenMeansSubscribed
  <1>1. BusInv => OpenMeansSubscribed
    BY DEF BusInv
  <1> QED
    BY <1>1, BusInvHolds, PTL

\* No interleaving of publishers overfills a channel.
THEOREM BuffersStayBounded ==
    Spec => []BufferBounded
  <1>1. BusInv => BufferBounded
    BY DEF BusInv
  <1> QED
    BY <1>1, BusInvHolds, PTL

-----------------------------------------------------------------------------
(***************************************************************************)
(* What a subscription saw.  A step leaves the history of a channel as it  *)
(* is, appends the event of a publisher that had it still to serve, or     *)
(* drops one event of it.                                                  *)
(***************************************************************************)
\* The history of every channel is a sequence of events.
LEMMA HistoryType ==
    ASSUME BusInv, NEW c \in Channels
    PROVE  /\ received[c] \in Seq(Publishers \X Nat)
           /\ buffer[c] \in Seq(Publishers \X Nat)
           /\ History(c) \in Seq(Publishers \X Nat)
           /\ Len(History(c)) = Len(received[c]) + Len(buffer[c])
           /\ \A i \in DOMAIN History(c) :
                History(c)[i][1] \in Publishers /\ History(c)[i][2] \in Nat
  <1>1. received[c] \in Seq(Publishers \X Nat) /\ buffer[c] \in Seq(Publishers \X Nat)
    BY DEF BusInv, TypeOK
  <1>2. /\ History(c) \in Seq(Publishers \X Nat)
        /\ Len(History(c)) = Len(received[c]) + Len(buffer[c])
    BY <1>1 DEF History
  <1>3. ASSUME NEW i \in DOMAIN History(c)
        PROVE  History(c)[i][1] \in Publishers /\ History(c)[i][2] \in Nat
    <2>1. i \in 1 .. Len(History(c))
      BY <1>2, LenProperties
    <2>2. History(c)[i] \in Publishers \X Nat
      BY <1>2, <2>1, ElementOfSeq
    <2> QED
      BY <2>2
  <1> QED
    BY <1>1, <1>2, <1>3

\* Moving the head of one sequence to the end of the one before it changes nothing.
LEMMA MoveHead ==
    ASSUME NEW S, NEW r \in Seq(S), NEW b \in Seq(S), b # << >>
    PROVE  Append(r, Head(b)) \o Tail(b) = r \o b
  <1>1. Head(b) \in S /\ Tail(b) \in Seq(S) /\ b = <<Head(b)>> \o Tail(b)
    <2>1. Head(b) \in S /\ Tail(b) \in Seq(S) /\ Head(b) = b[1] /\ Len(b) \in Nat \ {0}
      BY HeadTailProperties, EmptySeq
    <2>2. /\ SubSeq(b, 1, Len(b)) = <<b[1]>> \o SubSeq(b, 2, Len(b))
          /\ SubSeq(b, 1, Len(b)) = b
          /\ SubSeq(b, 2, Len(b)) = Tail(b)
      <3>1. SubSeq(b, 1, Len(b)) = <<b[1]>> \o SubSeq(b, 1 + 1, Len(b))
        BY <2>1, SubSeqRecursiveFirst
      <3> QED
        BY <3>1, SubSeqFull, TailIsSubSeq
    <2> QED
      BY <2>1, <2>2
  <1>2. <<Head(b)>> \in Seq(S)
    BY <1>1
  <1>3. Append(r, Head(b)) = r \o <<Head(b)>>
    BY <1>1, AppendIsConcat
  <1> QED
    BY <1>1, <1>2, <1>3, ConcatAssociative

\* The receiver only moves an event from the buffer to what it has.
LEMMA ReceiveKeepsHistory ==
    ASSUME BusInv, NEW c \in Channels, Receive(c), NEW d \in Channels
    PROVE  History(d)' = History(d)
  <1>0. received[d] \in Seq(Publishers \X Nat) /\ buffer[d] \in Seq(Publishers \X Nat)
    BY HistoryType
  <1>1. CASE d = c
    <2>1. /\ received'[d] = Append(received[d], Head(buffer[d]))
          /\ buffer'[d] = Tail(buffer[d])
          /\ buffer[d] # << >>
      BY <1>1 DEF BusInv, TypeOK, Receive
    <2> QED
      BY <1>0, <2>1, MoveHead DEF History
  <1>2. CASE d # c
    BY <1>2 DEF BusInv, TypeOK, Receive, History
  <1> QED
    BY <1>1, <1>2

\* Appending to the second of two sequences appends to both together.
LEMMA ConcatAppend ==
    ASSUME NEW S, NEW r \in Seq(S), NEW b \in Seq(S), NEW e \in S
    PROVE  r \o Append(b, e) = Append(r \o b, e)
  <1>1. r \o b \in Seq(S) /\ <<e>> \in Seq(S)
    BY ConcatProperties
  <1>2. Append(b, e) = b \o <<e>> /\ Append(r \o b, e) = (r \o b) \o <<e>>
    BY <1>1, AppendIsConcat
  <1> QED
    BY <1>1, <1>2, ConcatAssociative

\* The first and the third select append the event to one history.
LEMMA EnqueueAppends ==
    ASSUME BusInv, NEW p \in Publishers, NEW c \in Channels, Enqueue(c, Event(p)),
           received' = received, NEW d \in Channels
    PROVE  History(d)' = IF d = c THEN Append(History(d), Event(p)) ELSE History(d)
  <1>0. received[d] \in Seq(Publishers \X Nat) /\ buffer[d] \in Seq(Publishers \X Nat)
    BY HistoryType
  <1>1. CASE d = c
    <2>1. buffer'[d] = Append(buffer[d], Event(p))
      BY <1>1 DEF BusInv, TypeOK, Enqueue
    <2>2. Event(p) \in Publishers \X Nat
      BY DEF BusInv, TypeOK, Event
    <2> DEFINE Events == Publishers \X Nat
               r == received[d]
               b == buffer[d]
               e == Event(p)
    <2>3. r \in Seq(Events) /\ b \in Seq(Events) /\ e \in Events
      BY <1>0, <2>2
    <2> HIDE DEF Events, r, b, e
    <2>4. r \o Append(b, e) = Append(r \o b, e)
      BY <2>3, ConcatAppend
    <2> QED
      BY <1>1, <2>1, <2>4 DEF History, r, b, e
  <1>2. CASE d # c
    BY <1>2 DEF BusInv, TypeOK, Enqueue, History
  <1> QED
    BY <1>1, <1>2

\* The second select drops the event at one place of a history, if it drops any.
Without(h, k) == [i \in 1 .. Len(h) - 1 |-> IF i < k THEN h[i] ELSE h[i + 1]]

\* Dropping the head of the second of two sequences drops one place of both together.
LEMMA DropHead ==
    ASSUME NEW S, NEW r \in Seq(S), NEW b \in Seq(S), b # << >>
    PROVE  /\ r \o Tail(b) = Without(r \o b, Len(r) + 1)
           /\ Len(r) + 1 \in 1 .. Len(r) + Len(b)
  <1>1. /\ Len(r) \in Nat /\ Len(b) \in Nat \ {0} /\ Tail(b) \in Seq(S)
        /\ Len(Tail(b)) = Len(b) - 1
        /\ \A i \in 1 .. Len(b) - 1 : Tail(b)[i] = b[i + 1]
    BY HeadTailProperties, EmptySeq, LenProperties
  <1>2. /\ r \o Tail(b) \in Seq(S)
        /\ Len(r \o Tail(b)) = Len(r) + Len(b) - 1
        /\ \A i \in 1 .. Len(r) + Len(b) - 1 :
             (r \o Tail(b))[i] = IF i <= Len(r) THEN r[i] ELSE Tail(b)[i - Len(r)]
    BY <1>1, ConcatProperties
  <1>3. /\ Len(r \o b) = Len(r) + Len(b)
        /\ \A i \in 1 .. Len(r) + Len(b) :
             (r \o b)[i] = IF i <= Len(r) THEN r[i] ELSE b[i - Len(r)]
    BY ConcatProperties
  <1>4. DOMAIN (r \o Tail(b)) = 1 .. Len(r) + Len(b) - 1
    BY <1>2, LenProperties
  <1>5. ASSUME NEW i \in 1 .. Len(r) + Len(b) - 1
        PROVE  (r \o Tail(b))[i] = Without(r \o b, Len(r) + 1)[i]
    <2>1. i < Len(r) + 1 => (r \o Tail(b))[i] = (r \o b)[i]
      BY <1>1, <1>2, <1>3
    <2>2. ~(i < Len(r) + 1) => (r \o Tail(b))[i] = (r \o b)[i + 1]
      <3>1. ASSUME ~(i < Len(r) + 1) PROVE (r \o Tail(b))[i] = b[i - Len(r) + 1]
        BY <1>1, <1>2, <3>1
      <3>2. ASSUME ~(i < Len(r) + 1) PROVE (r \o b)[i + 1] = b[i + 1 - Len(r)]
        BY <1>1, <1>3, <3>2
      <3> QED
        BY <3>1, <3>2, <1>1
    <2> QED
      BY <1>3, <2>1, <2>2 DEF Without
  <1>6. r \o Tail(b) = [i \in 1 .. Len(r) + Len(b) - 1 |-> (r \o Tail(b))[i]]
    BY <1>2, <1>4, LenProperties
  <1>7. Without(r \o b, Len(r) + 1)
          = [i \in 1 .. Len(r) + Len(b) - 1 |-> Without(r \o b, Len(r) + 1)[i]]
    BY <1>3 DEF Without
  <1>8. [i \in 1 .. Len(r) + Len(b) - 1 |-> (r \o Tail(b))[i]]
          = [i \in 1 .. Len(r) + Len(b) - 1 |-> Without(r \o b, Len(r) + 1)[i]]
    BY <1>5
  <1>9. Len(r) + 1 \in 1 .. Len(r) + Len(b)
    BY <1>1
  <1> QED
    BY <1>6, <1>7, <1>8, <1>9

\* Drain drops from the history of the channel the publisher makes room in.
LEMMA DrainDrops ==
    ASSUME BusInv, NEW p \in Publishers, Drain(p), NEW d \in Channels
    PROVE  \/ History(d)' = History(d)
           \/ /\ d = current[p]
              /\ \E k \in DOMAIN History(d) : History(d)' = Without(History(d), k)
  <1>0. /\ received[d] \in Seq(Publishers \X Nat) /\ buffer[d] \in Seq(Publishers \X Nat)
        /\ History(d) \in Seq(Publishers \X Nat)
        /\ DOMAIN History(d) = 1 .. Len(received[d]) + Len(buffer[d])
    <2>1. /\ received[d] \in Seq(Publishers \X Nat) /\ buffer[d] \in Seq(Publishers \X Nat)
          /\ History(d) \in Seq(Publishers \X Nat)
          /\ Len(History(d)) = Len(received[d]) + Len(buffer[d])
      BY HistoryType
    <2> QED
      BY <2>1
  <1>1. CASE d = current[p] /\ buffer[d] # << >>
    <2>1. buffer'[d] = Tail(buffer[d]) /\ received'[d] = received[d]
      BY <1>1 DEF BusInv, TypeOK, Drain
    <2>2. /\ received[d] \o Tail(buffer[d])
               = Without(received[d] \o buffer[d], Len(received[d]) + 1)
          /\ Len(received[d]) + 1 \in 1 .. Len(received[d]) + Len(buffer[d])
      BY <1>0, <1>1, DropHead
    <2> QED
      BY <1>0, <1>1, <2>1, <2>2 DEF History
  <1>2. CASE ~(d = current[p] /\ buffer[d] # << >>)
    BY <1>2 DEF BusInv, TypeOK, Drain, History
  <1> QED
    BY <1>1, <1>2
\* An event of a publisher in a history was published before, and one that the
\* publisher has still to serve the channel with is not in it yet.
NotAhead(c) ==
    \A i \in DOMAIN History(c) :
      LET q == History(c)[i][1] IN
        /\ History(c)[i][2] <= sent[q]
        /\ c \in todo[q] => History(c)[i][2] < sent[q]

InOrder(h) ==
    \A i, j \in DOMAIN h : (i < j /\ h[i][1] = h[j][1]) => h[i][2] < h[j][2]

\* With the invariant of the bus, the inductive invariant behind the order.
OrderInv == \A c \in Channels : InOrder(History(c)) /\ NotAhead(c)

\* A step that appends nothing to a channel's history keeps its order, if a channel a
\* publisher starts to serve is served with a new event.
LEMMA KeepsOrder ==
    ASSUME BusInv, BusInv', OrderInv, NEW c \in Channels,
           \/ History(c)' = History(c)
           \/ \E k \in DOMAIN History(c) : History(c)' = Without(History(c), k),
           \A q \in Publishers :
             /\ sent[q] <= sent'[q]
             /\ c \in todo'[q] => c \in todo[q] \/ sent[q] < sent'[q]
    PROVE  InOrder(History(c))' /\ NotAhead(c)'
  <1> DEFINE h == History(c)
             g == History(c)'
  <1>1. /\ DOMAIN h = 1 .. Len(h) /\ Len(h) \in Nat
        /\ \A i \in DOMAIN h : h[i][1] \in Publishers /\ h[i][2] \in Nat
    BY HistoryType, LenProperties
  <1>2. /\ \A i, j \in DOMAIN h : (i < j /\ h[i][1] = h[j][1]) => h[i][2] < h[j][2]
        /\ \A i \in DOMAIN h :
             /\ h[i][2] <= sent[h[i][1]]
             /\ c \in todo[h[i][1]] => h[i][2] < sent[h[i][1]]
    BY DEF OrderInv, InOrder, NotAhead
  <1>3. sent \in [Publishers -> Nat] /\ sent' \in [Publishers -> Nat]
    BY DEF BusInv, TypeOK
  <1>4. ASSUME NEW k \in DOMAIN h, g = Without(h, k)
        PROVE  /\ DOMAIN g = 1 .. Len(h) - 1
               /\ \A i \in DOMAIN g : g[i] = IF i < k THEN h[i] ELSE h[i + 1]
    BY <1>4 DEF Without
  <1> HIDE DEF h, g
  <1>5. g = h \/ \E k \in DOMAIN h : g = Without(h, k)
    BY DEF h, g
  <1>6. ASSUME NEW i \in DOMAIN g PROVE \E m \in DOMAIN h : g[i] = h[m]
    <2>1. CASE g = h
      BY <2>1, <1>6
    <2>2. CASE \E k \in DOMAIN h : g = Without(h, k)
      BY <2>2, <1>1, <1>4, <1>6
    <2> QED
      BY <1>5, <2>1, <2>2
  <1>7. ASSUME NEW i \in DOMAIN g, NEW j \in DOMAIN g, i < j
        PROVE  \E m, n \in DOMAIN h : m < n /\ g[i] = h[m] /\ g[j] = h[n]
    <2>1. CASE g = h
      BY <2>1, <1>7
    <2>2. CASE \E k \in DOMAIN h : g = Without(h, k)
      <3>1. PICK k \in DOMAIN h : g = Without(h, k)
        BY <2>2
      <3>2. k \in 1 .. Len(h) /\ i \in 1 .. Len(h) - 1 /\ j \in 1 .. Len(h) - 1
        BY <1>1, <1>4, <1>7, <3>1
      <3> DEFINE m == IF i < k THEN i ELSE i + 1
                 n == IF j < k THEN j ELSE j + 1
      <3>3. m \in DOMAIN h /\ n \in DOMAIN h /\ m < n
        BY <1>1, <1>7, <3>2
      <3>4. g[i] = h[m] /\ g[j] = h[n]
        BY <1>4, <1>7, <3>1
      <3> QED
        BY <3>3, <3>4
    <2> QED
      BY <1>5, <2>1, <2>2
  <1>8. \A i, j \in DOMAIN g : (i < j /\ g[i][1] = g[j][1]) => g[i][2] < g[j][2]
    BY <1>2, <1>7
  <1>9. ASSUME NEW i \in DOMAIN g
        PROVE  /\ g[i][2] <= sent'[g[i][1]]
               /\ c \in todo'[g[i][1]] => g[i][2] < sent'[g[i][1]]
    <2>1. PICK m \in DOMAIN h : g[i] = h[m]
      BY <1>6
    <2> DEFINE q == h[m][1]
               x == h[m][2]
    <2>2. q \in Publishers /\ x \in Nat /\ x <= sent[q] /\ (c \in todo[q] => x < sent[q])
      BY <1>1, <1>2
    <2>3. sent[q] \in Nat /\ sent'[q] \in Nat /\ sent[q] <= sent'[q]
          /\ (c \in todo'[q] => c \in todo[q] \/ sent[q] < sent'[q])
      BY <1>3, <2>2
    <2> HIDE DEF q, x
    <2>4. x <= sent'[q] /\ (c \in todo'[q] => x < sent'[q])
      BY <2>2, <2>3
    <2> QED
      BY <2>1, <2>4 DEF q, x
  <1> QED
    BY <1>8, <1>9 DEF InOrder, NotAhead, g

\* A publisher serves a channel once with one event, the last it published.
LEMMA AppendKeepsOrder ==
    ASSUME BusInv, BusInv', OrderInv, NEW c \in Channels, NEW p \in Publishers,
           c \in todo[p], c \notin todo'[p], sent' = sent,
           History(c)' = Append(History(c), Event(p)),
           \A q \in Publishers : todo'[q] \subseteq todo[q]
    PROVE  InOrder(History(c))' /\ NotAhead(c)'
  <1> DEFINE h == History(c)
             g == History(c)'
  <1>1. /\ h \in Seq(Publishers \X Nat) /\ DOMAIN h = 1 .. Len(h) /\ Len(h) \in Nat
        /\ \A i \in DOMAIN h : h[i][1] \in Publishers /\ h[i][2] \in Nat
    BY HistoryType, LenProperties
  <1>2. /\ \A i, j \in DOMAIN h : (i < j /\ h[i][1] = h[j][1]) => h[i][2] < h[j][2]
        /\ \A i \in DOMAIN h :
             /\ h[i][2] <= sent[h[i][1]]
             /\ c \in todo[h[i][1]] => h[i][2] < sent[h[i][1]]
    BY DEF OrderInv, InOrder, NotAhead
  <1>3. Event(p) \in Publishers \X Nat /\ Event(p)[1] = p /\ Event(p)[2] = sent[p]
    BY DEF BusInv, TypeOK, Event
  <1>4. /\ g \in Seq(Publishers \X Nat) /\ Len(g) = Len(h) + 1
        /\ \A i \in 1 .. Len(h) : g[i] = h[i]
        /\ g[Len(h) + 1] = Event(p)
    BY <1>1, <1>3, AppendProperties
  <1>5. DOMAIN g = 1 .. Len(h) + 1
    BY <1>4, LenProperties
  <1>6. sent \in [Publishers -> Nat] /\ c \in todo[p] /\ c \notin todo'[p]
    BY DEF BusInv, TypeOK
  <1> HIDE DEF h, g
  <1>7. ASSUME NEW i \in DOMAIN g, NEW j \in DOMAIN g, i < j, g[i][1] = g[j][1]
        PROVE  g[i][2] < g[j][2]
    <2>1. i \in DOMAIN h /\ g[i] = h[i]
      BY <1>1, <1>4, <1>5, <1>7
    <2>2. CASE j \in DOMAIN h
      <3>1. g[j] = h[j]
        BY <1>1, <1>4, <2>2
      <3> QED
        BY <1>2, <1>7, <2>1, <2>2, <3>1
    <2>3. CASE j \notin DOMAIN h
      <3>1. g[j] = Event(p)
        BY <1>1, <1>4, <1>5, <2>3
      <3> QED
        BY <1>2, <1>3, <1>6, <1>7, <2>1, <3>1
    <2> QED
      BY <2>2, <2>3
  <1>8. ASSUME NEW i \in DOMAIN g
        PROVE  /\ g[i][2] <= sent'[g[i][1]]
               /\ c \in todo'[g[i][1]] => g[i][2] < sent'[g[i][1]]
    <2>1. CASE i \in DOMAIN h
      BY <1>1, <1>2, <1>4, <2>1
    <2>2. CASE i \notin DOMAIN h
      <3>1. g[i] = Event(p)
        BY <1>1, <1>4, <1>5, <2>2
      <3>2. sent[p] \in Nat
        BY <1>6
      <3> QED
        BY <1>3, <1>6, <3>1, <3>2
    <2> QED
      BY <2>1, <2>2
  <1> QED
    BY <1>7, <1>8 DEF InOrder, NotAhead, g

\* What the loop of Publish does to the histories: the channel a select enqueues to
\* leaves todo with the event in its history, and nothing else is appended.
LEMMA LoopHistories ==
    ASSUME BusInv, NEW p \in Publishers, PublisherStep(p), NEW c \in Channels
    PROVE  /\ sent' = sent
           /\ \A q \in Publishers : todo'[q] \subseteq todo[q]
           /\ \/ /\ c \in todo[p] /\ c \notin todo'[p]
                 /\ History(c)' = Append(History(c), Event(p))
              \/ /\ pc[p] = "resend" /\ ~HasRoom(current[p])
                 /\ refused' = refused \cup {Event(p)}
                 /\ History(c)' = History(c)
              \/ /\ refused' = refused
                 /\ c \notin todo[p] \/ c \in todo'[p]
                 /\ \/ History(c)' = History(c)
                    \/ /\ c \in todo[p]
                       /\ \E k \in DOMAIN History(c) : History(c)' = Without(History(c), k)
  <1>1. CASE \E d \in Channels : Send(p, d)
    <2>1. PICK d \in Channels : Send(p, d)
      BY <1>1
    <2>2. History(c)' = IF c = d THEN Append(History(c), Event(p)) ELSE History(c)
      BY <2>1, EnqueueAppends DEF Send
    <2>3. /\ todo' = [todo EXCEPT ![p] = @ \ {d}] /\ d \in todo[p] /\ sent' = sent
          /\ refused' = refused
      BY <2>1 DEF Send, Served
    <2>4. todo \in [Publishers -> SUBSET Channels]
      BY DEF BusInv, TypeOK
    <2> QED
      BY <2>2, <2>3, <2>4
  <1>2. CASE \E d \in Channels : FindFull(p, d)
    BY <1>2 DEF FindFull, channelVars, History
  <1>3. CASE Drain(p)
    <2>1. current[p] \in todo[p]
      BY <1>3 DEF BusInv, NoSendOnClosedChannel, Drain
    <2>2. \/ History(c)' = History(c)
          \/ /\ c = current[p]
             /\ \E k \in DOMAIN History(c) : History(c)' = Without(History(c), k)
      BY <1>3, DrainDrops
    <2> QED
      BY <1>3, <2>1, <2>2 DEF Drain
  <1>4. CASE Resend(p)
    <2> DEFINE d == current[p]
    <2>1. d \in todo[p] /\ d \in Channels
      BY <1>4 DEF BusInv, TypeOK, NoSendOnClosedChannel, Resend
    <2>2. History(c)' = IF c = d THEN Append(History(c), Event(p)) ELSE History(c)
      BY <1>4, <2>1, EnqueueAppends DEF Resend
    <2>3. /\ todo' = [todo EXCEPT ![p] = @ \ {d}] /\ sent' = sent
          /\ refused' = refused
      BY <1>4 DEF Resend, Served
    <2>4. todo \in [Publishers -> SUBSET Channels]
      BY DEF BusInv, TypeOK
    <2> QED
      BY <2>1, <2>2, <2>3, <2>4
  <1>5. CASE GiveUp(p)
    <2>1. History(c)' = History(c)
      BY <1>5 DEF GiveUp, channelVars, History
    <2>2. todo' = [todo EXCEPT ![p] = @ \ {current[p]}] /\ sent' = sent
      BY <1>5 DEF GiveUp, Served
    <2>3. todo \in [Publishers -> SUBSET Channels]
      BY DEF BusInv, TypeOK
    <2> QED
      BY <1>5, <2>1, <2>2, <2>3 DEF GiveUp
  <1>6. CASE EndPublish(p)
    BY <1>6 DEF EndPublish, channelVars, History
  <1> QED
    BY <1>1, <1>2, <1>3, <1>4, <1>5, <1>6 DEF PublisherStep

\* Every step keeps the order of every history.
LEMMA NextOrderInv ==
    ASSUME BusInv, BusInv', OrderInv, [Next]_vars
    PROVE  OrderInv'
  <1> SUFFICES ASSUME NEW c \in Channels
               PROVE  InOrder(History(c))' /\ NotAhead(c)'
    BY DEF OrderInv
  <1>0. sent \in [Publishers -> Nat]
    BY DEF BusInv, TypeOK
  <1>1. ASSUME UNCHANGED <<channelVars, loopVars>>
        PROVE  InOrder(History(c))' /\ NotAhead(c)'
    <2>1. History(c)' = History(c) /\ sent' = sent /\ todo' = todo
      BY <1>1 DEF channelVars, loopVars, History
    <2>2. \A q \in Publishers : sent[q] <= sent'[q] /\ (c \in todo'[q] => c \in todo[q])
      BY <1>0, <2>1
    <2> QED
      BY <2>1, <2>2, KeepsOrder
  <1>2. ASSUME NEW d \in Channels, Receive(d)
        PROVE  InOrder(History(c))' /\ NotAhead(c)'
    <2>1. History(c)' = History(c) /\ sent' = sent /\ todo' = todo
      BY <1>2, ReceiveKeepsHistory DEF Receive, loopVars
    <2>2. \A q \in Publishers : sent[q] <= sent'[q] /\ (c \in todo'[q] => c \in todo[q])
      BY <1>0, <2>1
    <2> QED
      BY <2>1, <2>2, KeepsOrder
  <1>3. ASSUME NEW p \in Publishers, StartPublish(p)
        PROVE  InOrder(History(c))' /\ NotAhead(c)'
    <2>1. History(c)' = History(c) /\ sent' = [sent EXCEPT ![p] = @ + 1]
      BY <1>3 DEF StartPublish, channelVars, History
    <2>2. \A q \in Publishers : q # p => todo'[q] = todo[q]
      BY <1>3 DEF StartPublish, BusInv, TypeOK
    <2>3. \A q \in Publishers : sent[q] <= sent'[q]
            /\ (c \in todo'[q] => c \in todo[q] \/ sent[q] < sent'[q])
      BY <1>0, <2>1, <2>2
    <2> QED
      BY <2>1, <2>3, KeepsOrder
  <1>4. ASSUME NEW p \in Publishers, PublisherStep(p)
        PROVE  InOrder(History(c))' /\ NotAhead(c)'
    <2>1. sent' = sent /\ \A q \in Publishers : todo'[q] \subseteq todo[q]
      BY <1>4, LoopHistories
    <2>2. CASE /\ c \in todo[p] /\ c \notin todo'[p]
               /\ History(c)' = Append(History(c), Event(p))
      BY <2>1, <2>2, AppendKeepsOrder
    <2>3. CASE \/ History(c)' = History(c)
               \/ \E k \in DOMAIN History(c) : History(c)' = Without(History(c), k)
      <3>1. \A q \in Publishers : sent[q] <= sent'[q] /\ (c \in todo'[q] => c \in todo[q])
        BY <1>0, <2>1
      <3> QED
        BY <2>3, <3>1, KeepsOrder
    <2> QED
      BY <1>4, <2>2, <2>3, LoopHistories
  <1>5. CASE UNCHANGED vars
    BY <1>1, <1>5 DEF vars
  <1>6. CASE Next
    BY <1>1, <1>2, <1>3, <1>4, <1>6 DEF Next, Subscribe, SubscribeToClosed, Unsubscribe, Close
  <1> QED
    BY <1>5, <1>6

\* effect_bus.go, Publish: whatever is dropped and however publishers interleave, what a
\* subscriber gets of one publisher comes in the order it was published, nothing twice.
THEOREM OnePublishersEventsInOrder ==
    Spec => []PublisherOrder
  <1>1. Init => OrderInv
    BY DEF Init, OrderInv, InOrder, NotAhead, History
  <1>2. BusInv /\ BusInv' /\ OrderInv /\ [Next]_vars => OrderInv'
    BY NextOrderInv
  <1>3. OrderInv => PublisherOrder
    BY DEF OrderInv, InOrder, PublisherOrder
  <1> QED
    BY <1>1, <1>2, <1>3, BusInvHolds, PTL DEF Spec

-----------------------------------------------------------------------------
(***************************************************************************)
(* One publisher alone, as under the trace store's append lock.  It finds  *)
(* room after it drained, so it turns no event away, and a channel it has  *)
(* served ends with its last event until it publishes the next.            *)
(***************************************************************************)
Alone(p) == \A q \in Publishers \ {p} : sent[q] = 0

EndsWith(c, event) == History(c) # << >> => History(c)[Len(History(c))] = event

AloneLaw(p) ==
    /\ refused = {}
    /\ pc[p] = "resend" => HasRoom(current[p])
    /\ \A c \in Subscribed \ todo[p] : EndsWith(c, Event(p))

\* Who publishes has published; a channel nobody made has no history.
BeginningsInv ==
    /\ \A q \in Publishers : sent[q] = 0 => pc[q] = "idle"
    /\ \A c \in Channels : state[c] = "new" => History(c) = << >>

\* With the invariant of the bus, the inductive invariant behind NewestSurvives.
NewestInv == BeginningsInv /\ \A p \in Publishers : Alone(p) => AloneLaw(p)

\* The channels of the map are channels, and open.
LEMMA SubscribedOpen ==
    ASSUME BusInv, NEW c \in Subscribed
    PROVE  c \in Channels /\ state[c] = "open"
  BY DEF BusInv, TypeOK, OpenMeansSubscribed, Subscribed

\* The steps under the write lock: a channel that is new to the map has no history.
LEMMA LockedNewest ==
    ASSUME BusInv, NewestInv, WriteLockFree, UNCHANGED <<channelVars, loopVars, refused>>,
           \A c \in Subscribed' : c \in Subscribed \/ (c \in Channels /\ state[c] = "new"),
           \A c \in Channels : state'[c] = "new" => state[c] = "new"
    PROVE  NewestInv'
  <1>1. \A c : History(c)' = History(c)
    BY DEF channelVars, History
  <1>2. BeginningsInv'
    BY <1>1 DEF NewestInv, BeginningsInv, loopVars
  <1>3. ASSUME NEW p \in Publishers, Alone(p)'
        PROVE  AloneLaw(p)'
    <2>1. AloneLaw(p)
      BY <1>3 DEF NewestInv, Alone, loopVars
    <2>2. pc[p] = "idle" /\ todo[p] = {}
      BY DEF BusInv, IdleHasNothingToDo, WriteLockFree
    <2>3. ASSUME NEW c \in Subscribed'
          PROVE  EndsWith(c, Event(p))'
      BY <1>1, <2>1, <2>2, <2>3 DEF AloneLaw, EndsWith, Event, NewestInv, BeginningsInv, loopVars
    <2> QED
      BY <2>1, <2>2, <2>3 DEF AloneLaw, loopVars
  <1> QED
    BY <1>2, <1>3 DEF NewestInv

\* Subscribe, Unsubscribe and Close.
LEMMA LockedStepsNewest ==
    ASSUME BusInv, NewestInv,
           \/ \E id \in SubscriberIds, c \in Channels : Subscribe(id, c)
           \/ \E c \in Channels : SubscribeToClosed(c)
           \/ \E id \in SubscriberIds : Unsubscribe(id)
           \/ Close
    PROVE  NewestInv'
  <1>0. /\ subscribers \in [SubscriberIds -> Channels \cup {None}]
        /\ state \in [Channels -> {"new", "open", "closed"}]
    BY DEF BusInv, TypeOK
  <1>1. ASSUME NEW id \in SubscriberIds, NEW c \in Channels, Subscribe(id, c)
        PROVE  NewestInv'
    <2>1. \A d \in Subscribed' : d \in Subscribed \/ (d \in Channels /\ state[d] = "new")
      BY <1>0, <1>1 DEF Subscribe, Subscribed
    <2>2. \A d \in Channels : state'[d] = "new" => state[d] = "new"
      BY <1>0, <1>1 DEF Subscribe, CloseAll
    <2> QED
      BY <1>1, <2>1, <2>2, LockedNewest DEF Subscribe
  <1>2. ASSUME NEW c \in Channels, SubscribeToClosed(c)
        PROVE  NewestInv'
    <2>1. Subscribed' = Subscribed
      BY <1>2 DEF SubscribeToClosed, Subscribed
    <2>2. \A d \in Channels : state'[d] = "new" => state[d] = "new"
      BY <1>0, <1>2 DEF SubscribeToClosed
    <2> QED
      BY <1>2, <2>1, <2>2, LockedNewest DEF SubscribeToClosed
  <1>3. ASSUME NEW id \in SubscriberIds, Unsubscribe(id)
        PROVE  NewestInv'
    <2>1. \A d \in Subscribed' : d \in Subscribed
      BY <1>0, <1>3 DEF Unsubscribe, Subscribed
    <2>2. \A d \in Channels : state'[d] = "new" => state[d] = "new"
      BY <1>0, <1>3 DEF Unsubscribe, CloseAll
    <2> QED
      BY <1>3, <2>1, <2>2, LockedNewest DEF Unsubscribe
  <1>4. ASSUME Close
        PROVE  NewestInv'
    <2>1. \A d \in Subscribed' : d \in Subscribed
      BY <1>4 DEF Close, Subscribed
    <2>2. \A d \in Channels : state'[d] = "new" => state[d] = "new"
      BY <1>0, <1>4 DEF Close, CloseAll
    <2> QED
      BY <1>4, <2>1, <2>2, LockedNewest DEF Close
  <1> QED
    BY <1>1, <1>2, <1>3, <1>4

\* What was drained, or received, left room.
LEMMA DrainedHasRoom ==
    ASSUME BusInv, NEW c \in Channels,
           buffer' = IF buffer[c] = << >> THEN buffer ELSE [buffer EXCEPT ![c] = Tail(@)]
    PROVE  HasRoom(c)' /\ \A d \in Channels : HasRoom(d) => HasRoom(d)'
  <1>1. /\ \A d \in Channels : buffer[d] \in Seq(Publishers \X Nat) /\ Len(buffer[d]) <= BufferSize
        /\ BufferSize \in Nat \ {0}
    BY BufferSizeAssumption DEF BusInv, TypeOK, BufferBounded
  <1>2. CASE buffer[c] = << >>
    BY <1>1, <1>2 DEF HasRoom
  <1>3. CASE buffer[c] # << >>
    <2>1. \A d \in Channels : buffer'[d] = IF d = c THEN Tail(buffer[d]) ELSE buffer[d]
      BY <1>3 DEF BusInv, TypeOK
    <2>2. Len(Tail(buffer[c])) = Len(buffer[c]) - 1 /\ Len(buffer[c]) \in Nat
      BY <1>1, <1>3
    <2>3. Len(buffer'[c]) < BufferSize
      <3>1. Len(buffer[c]) <= BufferSize /\ BufferSize \in Nat /\ buffer'[c] = Tail(buffer[c])
        BY <1>1, <2>1
      <3>2. Len(buffer'[c]) = Len(buffer[c]) - 1
        BY <2>2, <3>1
      <3> QED
        BY <2>2, <3>1, <3>2
    <2>4. \A d \in Channels : Len(buffer[d]) < BufferSize => Len(buffer'[d]) < BufferSize
      BY <2>1, <2>3
    <2> QED
      BY <2>3, <2>4 DEF HasRoom
  <1> QED
    BY <1>2, <1>3

\* A receiver takes from the front.
LEMMA ReceiveNewest ==
    ASSUME BusInv, NewestInv, NEW d \in Channels, Receive(d)
    PROVE  NewestInv'
  <1>1. \A c \in Channels : History(c)' = History(c)
    BY ReceiveKeepsHistory
  <1>2. UNCHANGED <<subscribers, state, pc, todo, current, sent, refused>> /\ Subscribed' = Subscribed
    BY DEF Receive, busVars, loopVars, Subscribed
  <1>3. BeginningsInv'
    BY <1>1, <1>2 DEF NewestInv, BeginningsInv
  <1>4. \A c \in Channels : HasRoom(c) => HasRoom(c)'
    BY DrainedHasRoom DEF Receive
  <1>5. ASSUME NEW p \in Publishers, Alone(p)'
        PROVE  AloneLaw(p)'
    <2>1. AloneLaw(p)
      BY <1>2, <1>5 DEF NewestInv, Alone
    <2>2. pc[p] = "resend" => current[p] \in Channels
      BY DEF BusInv, TypeOK, NoSendOnClosedChannel
    <2>3. \A c \in Subscribed : c \in Channels
      BY SubscribedOpen
    <2> QED
      BY <1>1, <1>2, <1>4, <2>1, <2>2, <2>3 DEF AloneLaw, EndsWith, Event
  <1> QED
    BY <1>3, <1>5 DEF NewestInv

\* A publisher that starts has every channel of the map to serve.
LEMMA StartNewest ==
    ASSUME BusInv, NewestInv, NEW q \in Publishers, StartPublish(q)
    PROVE  NewestInv'
  <1>0. /\ sent \in [Publishers -> Nat] /\ pc \in [Publishers -> {"idle", "range", "drain", "resend"}]
        /\ todo \in [Publishers -> SUBSET Channels]
    BY DEF BusInv, TypeOK
  <1>1. /\ \A c : History(c)' = History(c)
        /\ Subscribed' = Subscribed
        /\ UNCHANGED <<state, closed, buffer, current, refused>>
    BY DEF StartPublish, busVars, channelVars, History, Subscribed
  <1>2. /\ sent' = [sent EXCEPT ![q] = @ + 1]
        /\ pc[q] = "idle"
        /\ closed => UNCHANGED <<pc, todo>>
        /\ ~closed => /\ pc' = [pc EXCEPT ![q] = "range"]
                      /\ todo' = [todo EXCEPT ![q] = Subscribed]
    BY DEF StartPublish
  <1>3. BeginningsInv'
    <2>1. \A p \in Publishers : sent'[p] = 0 => pc'[p] = "idle"
      BY <1>0, <1>2 DEF NewestInv, BeginningsInv
    <2> QED
      BY <1>1, <2>1 DEF NewestInv, BeginningsInv
  <1>4. ASSUME NEW p \in Publishers, Alone(p)'
        PROVE  AloneLaw(p)'
    <2>1. p = q
      BY <1>0, <1>2, <1>4 DEF Alone
    <2>2. refused = {}
      BY <1>0, <1>2, <1>4, <2>1 DEF NewestInv, Alone, AloneLaw
    <2>3. pc'[p] # "resend"
      BY <1>0, <1>2, <2>1
    <2>4. Subscribed \subseteq todo'[p]
      <3>1. closed => Subscribed = {}
        BY SubscribedOpen DEF BusInv, OpenMeansSubscribed
      <3> QED
        BY <1>0, <1>2, <2>1, <3>1
    <2> QED
      BY <1>1, <2>2, <2>3, <2>4 DEF AloneLaw
  <1> QED
    BY <1>3, <1>4 DEF NewestInv

\* What a publisher alone does in its loop.
LEMMA AloneLoopLaw ==
    ASSUME BusInv, NEW p \in Publishers, AloneLaw(p), PublisherStep(p)
    PROVE  AloneLaw(p)'
  <1>1. /\ sent' = sent /\ Subscribed' = Subscribed /\ Event(p)' = Event(p)
        /\ \A c \in Subscribed : c \in Channels
    BY LoopHistories, SubscribedOpen
       DEF PublisherStep, Send, FindFull, Drain, Resend, GiveUp, EndPublish, busVars, Subscribed, Event
  <1>2. ~(pc[p] = "resend" /\ ~HasRoom(current[p])) /\ refused = {}
    BY DEF AloneLaw
  <1>3. ASSUME NEW c \in Subscribed \ todo'[p]
        PROVE  EndsWith(c, Event(p))'
    <2>1. CASE c \in todo[p] /\ History(c)' = Append(History(c), Event(p))
      <3>1. /\ History(c)' # << >>
            /\ Len(History(c)') = Len(History(c)) + 1
            /\ History(c)'[Len(History(c)) + 1] = Event(p)
        <4> DEFINE h == History(c)
                   e == Event(p)
                   Events == Publishers \X Nat
        <4>1. h \in Seq(Events)
          BY <1>1, HistoryType
        <4>2. e \in Events
          BY DEF BusInv, TypeOK, Event
        <4> HIDE DEF h, e, Events
        <4>3. /\ Append(h, e) # << >>
              /\ Len(Append(h, e)) = Len(h) + 1
              /\ Append(h, e)[Len(h) + 1] = e
          BY <4>1, <4>2, AppendProperties
        <4> QED
          BY <2>1, <4>3 DEF h, e
      <3> QED
        BY <1>1, <3>1 DEF EndsWith
    <2>2. CASE History(c)' = History(c) /\ c \notin todo[p]
      BY <1>1, <2>2 DEF AloneLaw, EndsWith
    <2> QED
      BY <1>1, <1>2, <2>1, <2>2, LoopHistories
  <1>4. refused' = {}
    <2>1. CASE \E c \in Channels : TRUE
      BY <1>2, <2>1 DEF PublisherStep, Send, FindFull, Drain, Resend, GiveUp, EndPublish
    <2>2. CASE ~\E c \in Channels : TRUE
      BY <1>2, <2>2 DEF PublisherStep, Send, FindFull, Drain, Resend, GiveUp, EndPublish
    <2> QED
      BY <2>1, <2>2
  <1>5. ASSUME pc'[p] = "resend"
        PROVE  HasRoom(current[p])' 
    <2>1. pc \in [Publishers -> {"idle", "range", "drain", "resend"}]
      BY DEF BusInv, TypeOK
    <2>2. Drain(p)
      BY <1>5, <2>1 DEF PublisherStep, Send, FindFull, Resend, GiveUp, EndPublish, Served
    <2>3. current[p] \in Channels /\ current' = current
      BY <2>2 DEF BusInv, TypeOK, NoSendOnClosedChannel, Drain
    <2> QED
      BY <2>2, <2>3, DrainedHasRoom DEF Drain, HasRoom
  <1> QED
    BY <1>1, <1>3, <1>4, <1>5 DEF AloneLaw

\* Nobody else is in the loop while one publisher is alone.
LEMMA LoopNewest ==
    ASSUME BusInv, BusInv', NewestInv, NEW q \in Publishers, PublisherStep(q)
    PROVE  NewestInv'
  <1>0. pc \in [Publishers -> {"idle", "range", "drain", "resend"}]
    BY DEF BusInv, TypeOK
  <1>1. sent' = sent /\ state' = state /\ pc[q] # "idle"
    BY DEF PublisherStep, Send, FindFull, Drain, Resend, GiveUp, EndPublish, busVars
  <1>2. BeginningsInv'
    <2>1. \A r \in Publishers \ {q} : pc'[r] = pc[r]
      BY <1>0 DEF PublisherStep, Send, FindFull, Drain, Resend, GiveUp, EndPublish, Served
    <2>2. ASSUME NEW c \in Channels, state[c] = "new" PROVE History(c)' = << >>
      <3>1. c \notin todo[q] /\ History(c) = << >>
        BY <2>2 DEF BusInv, NoSendOnClosedChannel, NewestInv, BeginningsInv
      <3> QED
        BY <3>1, LoopHistories
    <2> QED
      BY <1>1, <2>1, <2>2 DEF NewestInv, BeginningsInv
  <1>3. ASSUME NEW p \in Publishers, Alone(p)'
        PROVE  AloneLaw(p)'
    <2>1. p = q /\ Alone(p)
      BY <1>1, <1>3 DEF Alone, NewestInv, BeginningsInv
    <2> QED
      BY <2>1, AloneLoopLaw DEF NewestInv
  <1> QED
    BY <1>2, <1>3 DEF NewestInv

\* effect_bus.go, Publish: as long as one goroutine publishes, no event is turned away,
\* and a subscription ends with the event of the last Publish that returned.
THEOREM NewestEventSurvives ==
    Spec => []NewestSurvives
  <1>1. Init => NewestInv
    BY DEF Init, NewestInv, BeginningsInv, AloneLaw, EndsWith, Subscribed, History
  <1>2. BusInv /\ BusInv' /\ NewestInv /\ [Next]_vars => NewestInv'
    <2> SUFFICES ASSUME BusInv, BusInv', NewestInv, [Next]_vars
                 PROVE  NewestInv'
      OBVIOUS
    <2>1. CASE UNCHANGED vars
      BY <2>1 DEF vars, busVars, channelVars, loopVars, NewestInv, BeginningsInv, Alone, AloneLaw,
                  EndsWith, History, HasRoom, Subscribed, Event
    <2> QED
      BY <2>1, LockedStepsNewest, ReceiveNewest, StartNewest, LoopNewest DEF Next
  <1>3. BusInv /\ NewestInv => NewestSurvives
    BY DEF BusInv, IdleHasNothingToDo, NewestInv, Alone, AloneLaw, EndsWith, NewestSurvives
  <1> QED
    BY <1>1, <1>2, <1>3, BusInvHolds, PTL DEF Spec

-----------------------------------------------------------------------------
(***************************************************************************)
(* If no group's parents have spare capacity behind them, the event of a   *)
(* draft with causes keeps the parents it was published with, and that of  *)
(* a draft without causes lies in the caller's array, which only the       *)
(* caller writes.  The reason is that while events are published every     *)
(* slice in play fills its array: append either has nothing to write or    *)
(* must take a new array, and no slice of the caller ever leads into that. *)
(* Array g is the one the caller gave group g in, and a longer slice of    *)
(* the caller lies in an array beyond the groups.                          *)
(***************************************************************************)
NoSpare == \A b \in Batches : \A g \in DOMAIN b.groups : b.groups[g].spare = 0

Cells == Ids \cup {Blank}
SliceSet == [array : Nat, len : Nat]

MemoryTypes ==
    /\ batch \in Batches
    /\ heap \in Seq(Seq(Cells))
    /\ parents \in [DOMAIN batch.groups -> SliceSet]
    /\ next \in 1 .. Len(batch.drafts) + 1
    /\ channel \in Seq([draft : DOMAIN batch.drafts, parents : SliceSet])
    /\ handled \in Seq([draft : DOMAIN batch.drafts, causal_parents : Seq(Cells)])

Within(h, slice) == slice.array \in DOMAIN h /\ slice.len <= Len(h[slice.array])
Fills(h, slice) == slice.array \in DOMAIN h /\ slice.len = Len(h[slice.array])

CallersArrays ==
    \A g \in DOMAIN batch.groups : g \in DOMAIN heap /\ ShowsTheCallersArray(heap[g], g)

CallersSlices ==
    \A g \in DOMAIN batch.groups :
      /\ Within(heap, parents[g])
      /\ parents[g].array = g \/ parents[g].array > Len(batch.groups)
      /\ g \notin written => Fills(heap, parents[g])

StillPublishing ==
    next <= Len(batch.drafts) =>
      written = {} /\ \A g \in DOMAIN batch.groups : parents[g].array = g

\* The event of a draft with causes has an array to itself.
OwnsItsArray(event) ==
    /\ event.parents.array > Len(batch.groups)
    /\ \A g \in DOMAIN batch.groups : parents[g].array # event.parents.array
    /\ heap[event.parents.array] = ParentsOf(event.draft)

ChannelHolds ==
    \A k \in DOMAIN channel :
      /\ Fills(heap, channel[k].parents)
      /\ IF Causes(channel[k].draft) # << >> THEN OwnsItsArray(channel[k])
         ELSE channel[k].parents.array = batch.drafts[channel[k].draft].group

MemoryInv ==
    /\ MemoryTypes
    /\ CallersArrays
    /\ CallersSlices
    /\ StillPublishing
    /\ ChannelHolds
    /\ EventsShareOnlyTheCallersWrites

-----------------------------------------------------------------------------
\* append with nothing to append returns the slice it was given, in the array it lies in.
LEMMA AppendNothing ==
    ASSUME NEW h \in Seq(Seq(Cells)), NEW slice \in SliceSet, Fills(h, slice)
    PROVE  AppendTo(h, slice, << >>) = [heap |-> h, slice |-> slice]
<1> DEFINE old == h[slice.array]
<1>0. /\ old \in Seq(Cells)
      /\ slice.len = Len(old) /\ slice.len \in Nat
      /\ slice.array \in DOMAIN h
      /\ Len(<< >>) = 0
  BY DEF Fills
<1>1. HasCapacity(h, slice, Len(<< >>))
  BY <1>0 DEF HasCapacity
<1>2. Overwritten(old, slice.len, << >>) = old
  BY <1>0 DEF Overwritten
<1>3. [h EXCEPT ![slice.array] = Overwritten(@, slice.len, << >>)] = h
  BY <1>0, <1>2
<1>4. [slice EXCEPT !.len = @ + Len(<< >>)] = slice
  BY <1>0 DEF SliceSet
<1> QED
  BY <1>1, <1>3, <1>4 DEF AppendTo

\* Appending to a slice that fills its array changes no array, and returns a slice that
\* fills a new one and holds the old elements and the new.
LEMMA AppendToFullSlice ==
    ASSUME NEW h \in Seq(Seq(Cells)), NEW slice \in SliceSet, Fills(h, slice),
           NEW values \in Seq(Ids), values # << >>
    PROVE  LET appended == AppendTo(h, slice, values)
           IN  /\ appended.heap \in Seq(Seq(Cells))
               /\ DOMAIN h \subseteq DOMAIN appended.heap
               /\ \A a \in DOMAIN h : appended.heap[a] = h[a]
               /\ appended.slice \in SliceSet
               /\ appended.slice.array = Len(h) + 1
               /\ Fills(appended.heap, appended.slice)
               /\ appended.heap[appended.slice.array] = h[slice.array] \o values
<1> DEFINE appended == AppendTo(h, slice, values)
           old == h[slice.array]
           both == old \o values
           larger == Append(h, both)
<1>0. /\ old \in Seq(Cells)
      /\ slice.len = Len(old)
      /\ slice.array \in DOMAIN h
      /\ values \in Seq(Cells)
  BY DEF Fills, Cells
<1>1. Len(values) > 0 /\ Len(values) \in Nat /\ Len(old) \in Nat
  BY <1>0
<1>2. ~HasCapacity(h, slice, Len(values))
  BY <1>0, <1>1 DEF HasCapacity, SliceSet
<1>3. Elements(h, slice) = old
  BY <1>0 DEF Elements
<1>4. appended = [heap  |-> larger,
                  slice |-> [array |-> Len(h) + 1, len |-> slice.len + Len(values)]]
  BY <1>2, <1>3 DEF AppendTo
<1>5. both \in Seq(Cells) /\ Len(both) = Len(old) + Len(values)
  BY <1>0
<1> HIDE DEF both
<1>6. /\ larger \in Seq(Seq(Cells))
      /\ Len(larger) = Len(h) + 1
      /\ larger[Len(h) + 1] = both
      /\ \A a \in DOMAIN h : a \in DOMAIN larger /\ larger[a] = h[a]
  BY <1>5
<1>7. Len(h) + 1 \in DOMAIN larger
  BY <1>6
<1> HIDE DEF larger, appended
<1>8. appended.heap = larger /\ appended.slice = [array |-> Len(h) + 1, len |-> slice.len + Len(values)]
  BY <1>4
<1>9. appended.slice \in SliceSet /\ appended.slice.array = Len(h) + 1
  BY <1>8, <1>1, <1>0 DEF SliceSet
<1>10. Fills(appended.heap, appended.slice)
  BY <1>5, <1>6, <1>7, <1>8, <1>0 DEF Fills
<1>11. appended.heap[appended.slice.array] = old \o values
  BY <1>6, <1>8 DEF both
<1> QED
  BY <1>6, <1>8, <1>9, <1>10, <1>11 DEF appended

\* An array with one element overwritten.
LEMMA OneOverwritten ==
    ASSUME NEW old \in Seq(Cells), NEW n \in Nat, NEW id \in Ids, n < Len(old),
           NEW over, over = Overwritten(old, n, <<id>>)
    PROVE  /\ over \in Seq(Cells)
           /\ Len(over) = Len(old)
           /\ DOMAIN over = DOMAIN old
           /\ \A i \in DOMAIN old : over[i] \in {old[i], id}
<1>1. DOMAIN old = 1 .. Len(old) /\ Len(old) \in Nat /\ id \in Cells
  BY DEF Cells
<1>2. Len(<<id>>) = 1 /\ <<id>>[1] = id
  OBVIOUS
<1>3. over = [i \in 1 .. Len(old) |-> IF i \in n + 1 .. n + 1 THEN <<id>>[i - n] ELSE old[i]]
  BY <1>1, <1>2 DEF Overwritten
<1>4. ASSUME NEW i \in 1 .. Len(old)
      PROVE  over[i] \in {old[i], id} /\ old[i] \in Cells
  <2>1. i \in n + 1 .. n + 1 => i - n = 1
    OBVIOUS
  <2>2. i \in n + 1 .. n + 1 => <<id>>[i - n] = id
    BY <2>1, <1>2
  <2>3. over[i] = IF i \in n + 1 .. n + 1 THEN <<id>>[i - n] ELSE old[i]
    BY <1>3
  <2>4. old[i] \in Cells
    BY <1>1
  <2> QED
    BY <2>2, <2>3, <2>4
<1>5. DOMAIN over = 1 .. Len(old) /\ over = [i \in 1 .. Len(old) |-> over[i]]
  BY <1>3
<1>6. \A i \in 1 .. Len(old) : over[i] \in Cells
  BY <1>1, <1>4
<1>7. over \in Seq(Cells) /\ Len(over) = Len(old)
  BY <1>1, <1>5, <1>6
<1> QED
  BY <1>1, <1>4, <1>5, <1>7

\* Appending one element within an array writes that element and nothing else.
LEMMA AppendWithinArray ==
    ASSUME NEW h \in Seq(Seq(Cells)), NEW slice \in SliceSet, NEW id \in Ids,
           slice.array \in DOMAIN h, slice.len < Len(h[slice.array])
    PROVE  LET appended == AppendTo(h, slice, <<id>>)
           IN  /\ appended.heap \in Seq(Seq(Cells))
               /\ DOMAIN appended.heap = DOMAIN h
               /\ \A b \in DOMAIN h \ {slice.array} : appended.heap[b] = h[b]
               /\ DOMAIN appended.heap[slice.array] = DOMAIN h[slice.array]
               /\ Len(appended.heap[slice.array]) = Len(h[slice.array])
               /\ \A i \in DOMAIN h[slice.array] : appended.heap[slice.array][i] \in {h[slice.array][i], id}
               /\ appended.slice \in SliceSet
               /\ appended.slice.array = slice.array
               /\ appended.slice.len <= Len(h[slice.array])
<1> DEFINE appended == AppendTo(h, slice, <<id>>)
           old == h[slice.array]
           over == Overwritten(old, slice.len, <<id>>)
           after == [h EXCEPT ![slice.array] = over]
           longer == [slice EXCEPT !.len = @ + 1]
<1>1. old \in Seq(Cells) /\ Len(old) \in Nat /\ slice.len \in Nat /\ slice.array \in Nat
  BY DEF SliceSet
<1>2. appended = [heap |-> after, slice |-> longer]
  <2>1. Len(<<id>>) = 1
    OBVIOUS
  <2>2. HasCapacity(h, slice, 1)
    BY <1>1 DEF HasCapacity
  <2> QED
    BY <2>1, <2>2 DEF AppendTo
<1>3. /\ over \in Seq(Cells)
      /\ Len(over) = Len(old)
      /\ DOMAIN over = DOMAIN old
      /\ \A i \in DOMAIN old : over[i] \in {old[i], id}
  BY <1>1, OneOverwritten
<1> HIDE DEF over
<1>4. after \in Seq(Seq(Cells)) /\ DOMAIN after = DOMAIN h /\ after[slice.array] = over
      /\ \A b \in DOMAIN h \ {slice.array} : after[b] = h[b]
  BY <1>3
<1>5. longer \in SliceSet /\ longer.array = slice.array /\ longer.len = slice.len + 1
  <2>1. slice = [array |-> slice.array, len |-> slice.len]
    BY DEF SliceSet
  <2>2. longer = [array |-> slice.array, len |-> slice.len + 1]
    BY <2>1
  <2> QED
    BY <1>1, <2>2 DEF SliceSet
<1>6. slice.len + 1 <= Len(old)
  BY <1>1
<1> HIDE DEF after, longer
<1> HIDE DEF appended
<1>7. appended.heap = after /\ appended.slice = longer
  BY <1>2
<1> QED
  BY <1>3, <1>4, <1>5, <1>6, <1>7 DEF appended

\* An element of a sequence is of the sequence's type.
LEMMA ElementType ==
    ASSUME NEW S, NEW s \in Seq(S), NEW i \in DOMAIN s
    PROVE  s[i] \in S
OBVIOUS

\* What the assumption on the batches gives for the batch at hand.
LEMMA BatchParts ==
    ASSUME batch \in Batches
    PROVE  /\ batch.groups \in Seq([parents : Seq(Ids), spare : Nat])
           /\ batch.drafts \in Seq([group : DOMAIN batch.groups, causes : Seq(Ids)])
           /\ Len(batch.drafts) \in Nat
           /\ \A d \in DOMAIN batch.drafts :
                batch.drafts[d].group \in DOMAIN batch.groups /\ Causes(d) \in Seq(Ids)
           /\ \A g \in DOMAIN batch.groups : batch.groups[g].parents \in Seq(Ids)
<1>1. /\ batch.groups \in Seq([parents : Seq(Ids), spare : Nat])
      /\ batch.drafts \in Seq([group : DOMAIN batch.groups, causes : Seq(Ids)])
  BY BatchesAssumption
<1>2. ASSUME NEW d \in DOMAIN batch.drafts
      PROVE  batch.drafts[d].group \in DOMAIN batch.groups /\ Causes(d) \in Seq(Ids)
  <2>1. batch.drafts[d] \in [group : DOMAIN batch.groups, causes : Seq(Ids)]
    BY <1>1, ElementType, Zenon
  <2> QED
    BY <2>1 DEF Causes
<1>3. ASSUME NEW g \in DOMAIN batch.groups
      PROVE  batch.groups[g].parents \in Seq(Ids)
  <2>1. batch.groups[g] \in [parents : Seq(Ids), spare : Nat]
    BY <1>1, ElementType, Zenon
  <2> QED
    BY <2>1
<1>4. Len(batch.drafts) \in Nat
  BY <1>1
<1> QED
  BY <1>1, <1>2, <1>3, <1>4

\* Where nothing is spare, a caller's array holds its parents and nothing else.
LEMMA InitMemoryInv == NoSpare /\ MemoryInit => MemoryInv
<1> SUFFICES ASSUME NoSpare, MemoryInit
             PROVE  MemoryInv
  OBVIOUS
<1>1. batch \in Batches
  BY DEF MemoryInit
<1>2. ASSUME NEW g \in DOMAIN batch.groups
      PROVE  /\ heap[g] = OwnParents(g)
             /\ heap[g] \in Seq(Cells)
             /\ OwnParents(g) \in Seq(Ids)
             /\ parents[g] = [array |-> g, len |-> Len(heap[g])]
  <2>1. batch.groups[g].spare = 0 /\ batch.groups[g].parents \in Seq(Ids)
    BY <1>1, BatchParts DEF NoSpare
  <2>2. Blanks(0) = << >>
    BY DEF Blanks
  <2>3. batch.groups[g].parents \o << >> = batch.groups[g].parents
    BY <2>1
  <2>4. heap[g] = batch.groups[g].parents \o Blanks(batch.groups[g].spare)
    BY DEF MemoryInit
  <2> QED
    <3>1. heap[g] = batch.groups[g].parents
      BY <2>1, <2>2, <2>3, <2>4
    <3>2. heap[g] \in Seq(Cells)
      BY <3>1, <2>1 DEF Cells
    <3>3. parents[g] = [array |-> g, len |-> Len(heap[g])]
      BY <3>1 DEF MemoryInit
    <3> QED
      BY <2>1, <3>1, <3>2, <3>3 DEF OwnParents
<1>3. DOMAIN batch.groups = 1 .. Len(batch.groups) /\ Len(batch.groups) \in Nat
  BY <1>1, BatchParts
<1>4. DOMAIN heap = DOMAIN batch.groups /\ heap = [g \in 1 .. Len(batch.groups) |-> heap[g]]
  BY <1>3 DEF MemoryInit
<1>5. heap \in Seq(Seq(Cells))
  <2>1. \A g \in 1 .. Len(batch.groups) : heap[g] \in Seq(Cells)
    BY <1>2, <1>3
  <2> QED
    BY <2>1, <1>3, <1>4
<1>6. MemoryTypes
  <2>1. parents \in [DOMAIN batch.groups -> SliceSet]
    <3>1. ASSUME NEW g \in DOMAIN batch.groups
          PROVE  parents[g] \in SliceSet
      <4>1. parents[g] = [array |-> g, len |-> Len(heap[g])] /\ heap[g] \in Seq(Cells)
        BY <1>2
      <4>2. g \in Nat /\ Len(heap[g]) \in Nat
        BY <4>1, <1>3
      <4> QED
        BY <4>1, <4>2 DEF SliceSet
    <3> QED
      BY <3>1 DEF MemoryInit
  <2>2. next \in 1 .. Len(batch.drafts) + 1
    BY <1>1, BatchParts DEF MemoryInit
  <2> QED
    BY <1>1, <1>5, <2>1, <2>2 DEF MemoryTypes, MemoryInit
<1>7. CallersArrays /\ CallersSlices /\ StillPublishing
  <2>1. ASSUME NEW g \in DOMAIN batch.groups
        PROVE  /\ g \in DOMAIN heap
               /\ ShowsTheCallersArray(heap[g], g)
               /\ parents[g].array = g
               /\ Within(heap, parents[g])
               /\ Fills(heap, parents[g])
    <3>0. parents[g] = [array |-> g, len |-> Len(heap[g])]
      BY <1>2
    <3>1. parents[g].array = g /\ parents[g].len = Len(heap[g]) /\ g \in DOMAIN heap
      BY <3>0, <1>4
    <3>2. Len(heap[g]) \in Nat
      BY <1>2
    <3>3. ShowsTheCallersArray(heap[g], g)
      BY <1>2 DEF ShowsTheCallersArray
    <3> QED
      BY <3>1, <3>2, <3>3 DEF Fills, Within
  <2> QED
    BY <2>1 DEF CallersArrays, CallersSlices, StillPublishing, MemoryInit
<1>8. ChannelHolds /\ EventsShareOnlyTheCallersWrites
  BY DEF ChannelHolds, EventsShareOnlyTheCallersWrites, MemoryInit
<1> QED
  BY <1>6, <1>7, <1>8 DEF MemoryInv

\* What is published for a draft: the caller's slice, or a new array.
LEMMA PublishedParents ==
    ASSUME MemoryInv, PublishEvent,
           NEW event, event = AppendTo(heap, GroupSlice(next), Causes(next))
    PROVE  /\ next \in DOMAIN batch.drafts
           /\ batch.drafts[next].group \in DOMAIN batch.groups
           /\ GroupSlice(next).array = batch.drafts[next].group
           /\ event.heap \in Seq(Seq(Cells))
           /\ DOMAIN heap \subseteq DOMAIN event.heap
           /\ \A a \in DOMAIN heap : event.heap[a] = heap[a]
           /\ event.slice \in SliceSet
           /\ Fills(event.heap, event.slice)
           /\ Causes(next) = << >> => event.slice.array = batch.drafts[next].group
           /\ Causes(next) # << >> =>
                /\ event.slice.array = Len(heap) + 1
                /\ event.heap[event.slice.array] = ParentsOf(next)
<1> DEFINE g == batch.drafts[next].group
<1>0. MemoryTypes /\ CallersArrays /\ CallersSlices /\ StillPublishing
  BY DEF MemoryInv
<1>1. /\ batch \in Batches
      /\ heap \in Seq(Seq(Cells))
      /\ next \in DOMAIN batch.drafts
      /\ g \in DOMAIN batch.groups
      /\ Causes(next) \in Seq(Ids)
  <2>1. batch \in Batches /\ heap \in Seq(Seq(Cells))
    BY <1>0 DEF MemoryTypes
  <2>2. next \in DOMAIN batch.drafts
    <3>1. batch.drafts \in Seq([group : DOMAIN batch.groups, causes : Seq(Ids)])
      BY <2>1, BatchParts
    <3>2. DOMAIN batch.drafts = 1 .. Len(batch.drafts) /\ Len(batch.drafts) \in Nat
      BY <3>1
    <3> QED
      BY <3>2, <1>0 DEF MemoryTypes, PublishEvent
  <2> QED
    BY <2>1, <2>2, BatchParts
<1>2. GroupSlice(next) = parents[g] /\ parents[g].array = g /\ g \notin written
  BY <1>0, <1>1 DEF StillPublishing, GroupSlice, PublishEvent
<1>3. GroupSlice(next) \in SliceSet /\ Fills(heap, GroupSlice(next))
  BY <1>0, <1>1, <1>2 DEF MemoryTypes, CallersSlices
<1>4. heap[GroupSlice(next).array] = OwnParents(g)
  BY <1>0, <1>1, <1>2 DEF CallersArrays, ShowsTheCallersArray
<1>5. CASE Causes(next) = << >>
  <2>1. AppendTo(heap, GroupSlice(next), << >>) = [heap |-> heap, slice |-> GroupSlice(next)]
    BY <1>1, <1>3, AppendNothing, Zenon
  <2>2. event.heap = heap /\ event.slice = GroupSlice(next)
    BY <1>5, <2>1
  <2> QED
    BY <1>5, <1>1, <1>2, <1>3, <2>2
<1>6. CASE Causes(next) # << >>
  <2> DEFINE taken == AppendTo(heap, GroupSlice(next), Causes(next))
  <2>1. /\ taken.heap \in Seq(Seq(Cells))
        /\ DOMAIN heap \subseteq DOMAIN taken.heap
        /\ \A a \in DOMAIN heap : taken.heap[a] = heap[a]
        /\ taken.slice \in SliceSet
        /\ taken.slice.array = Len(heap) + 1
        /\ Fills(taken.heap, taken.slice)
        /\ taken.heap[taken.slice.array] = heap[GroupSlice(next).array] \o Causes(next)
    BY <1>1, <1>3, <1>6, AppendToFullSlice, Zenon
  <2>2. event = taken
    OBVIOUS
  <2> HIDE DEF taken
  <2>3. event.heap[event.slice.array] = ParentsOf(next)
    BY <1>4, <2>1, <2>2 DEF ParentsOf
  <2> QED
    BY <1>6, <1>1, <1>2, <2>1, <2>2, <2>3
<1> QED
  BY <1>5, <1>6

\* Publishing takes a new array, or shares the caller's.
LEMMA PublishKeeps == MemoryInv /\ PublishEvent => MemoryInv'
<1> SUFFICES ASSUME MemoryInv, PublishEvent
             PROVE  MemoryInv'
  OBVIOUS
<1> DEFINE event == AppendTo(heap, GroupSlice(next), Causes(next))
<1>event. event = AppendTo(heap, GroupSlice(next), Causes(next))
  OBVIOUS
<1>2. /\ heap' = event.heap
      /\ channel' = Append(channel, [draft |-> next, parents |-> event.slice])
      /\ next' = next + 1
      /\ next <= Len(batch.drafts)
      /\ UNCHANGED <<batch, parents, handled, written>>
  BY DEF PublishEvent, EventParents
<1> HIDE DEF event
<1>0. /\ MemoryTypes /\ CallersArrays /\ CallersSlices /\ StillPublishing /\ ChannelHolds
      /\ EventsShareOnlyTheCallersWrites
  BY DEF MemoryInv
<1>1. /\ next \in DOMAIN batch.drafts
      /\ batch.drafts[next].group \in DOMAIN batch.groups
      /\ event.heap \in Seq(Seq(Cells))
      /\ DOMAIN heap \subseteq DOMAIN event.heap
      /\ \A a \in DOMAIN heap : event.heap[a] = heap[a]
      /\ event.slice \in SliceSet
      /\ Fills(event.heap, event.slice)
      /\ Causes(next) = << >> => event.slice.array = batch.drafts[next].group
      /\ Causes(next) # << >> =>
           /\ event.slice.array = Len(heap) + 1
           /\ event.heap[event.slice.array] = ParentsOf(next)
  BY <1>event, PublishedParents
<1>3. /\ heap \in Seq(Seq(Cells))
      /\ Len(batch.groups) \in Nat /\ DOMAIN batch.groups = 1 .. Len(batch.groups)
      /\ Len(batch.drafts) \in Nat
      /\ next \in Nat
      /\ channel \in Seq([draft : DOMAIN batch.drafts, parents : SliceSet])
  BY <1>0, BatchParts DEF MemoryTypes
<1>kept. \A slice : /\ Fills(heap, slice) => Fills(heap', slice)
                    /\ Within(heap, slice) => Within(heap', slice)
                    /\ slice.array \in DOMAIN heap => heap'[slice.array] = heap[slice.array]
  BY <1>1, <1>2 DEF Fills, Within
<1>4. MemoryTypes'
  <2>1. [draft |-> next, parents |-> event.slice] \in [draft : DOMAIN batch.drafts, parents : SliceSet]
    BY <1>1
  <2>2. next + 1 \in 1 .. Len(batch.drafts) + 1
    BY <1>2, <1>3
  <2> QED
    BY <1>0, <1>1, <1>2, <2>1, <2>2 DEF MemoryTypes
<1>5. CallersArrays'
  BY <1>0, <1>1, <1>2 DEF CallersArrays, ShowsTheCallersArray, OwnParents
<1>6. CallersSlices'
  BY <1>0, <1>2, <1>kept DEF CallersSlices
<1>7. StillPublishing'
  <2>1. next' <= Len(batch.drafts) => next <= Len(batch.drafts)
    BY <1>2
  <2> QED
    BY <1>0, <1>2, <2>1 DEF StillPublishing
<1>8. ChannelHolds'
  <2> SUFFICES ASSUME NEW k \in DOMAIN channel'
               PROVE  /\ Fills(heap', channel'[k].parents)
                      /\ Causes(channel'[k].draft) # << >> =>
                           /\ channel'[k].parents.array > Len(batch.groups)
                           /\ \A g \in DOMAIN batch.groups : parents[g].array # channel'[k].parents.array
                           /\ heap'[channel'[k].parents.array] = ParentsOf(channel'[k].draft)
                      /\ Causes(channel'[k].draft) = << >> =>
                           channel'[k].parents.array = batch.drafts[channel'[k].draft].group
    BY <1>2 DEF ChannelHolds, OwnsItsArray, ParentsOf, Causes, OwnParents
  <2>1. CASE k \in DOMAIN channel
    <3>1. channel'[k] = channel[k]
      BY <1>2, <1>3, <2>1
    <3>2. /\ Fills(heap, channel[k].parents)
          /\ Causes(channel[k].draft) # << >> => OwnsItsArray(channel[k])
          /\ Causes(channel[k].draft) = << >> =>
               channel[k].parents.array = batch.drafts[channel[k].draft].group
      BY <1>0, <2>1 DEF ChannelHolds
    <3>3. channel[k].parents.array \in DOMAIN heap
      BY <3>2 DEF Fills
    <3> QED
      BY <3>1, <3>2, <3>3, <1>kept DEF OwnsItsArray
  <2>2. CASE k \notin DOMAIN channel
    <3>1. channel'[k] = [draft |-> next, parents |-> event.slice]
      BY <1>2, <1>3, <2>2
    <3>2. Causes(next) # << >> =>
            /\ event.slice.array > Len(batch.groups)
            /\ \A g \in DOMAIN batch.groups : parents[g].array # event.slice.array
      <4>1. DOMAIN heap = 1 .. Len(heap) /\ Len(heap) \in Nat
        BY <1>3
      <4>2. \A g \in DOMAIN batch.groups : g \in DOMAIN heap /\ parents[g].array \in DOMAIN heap
        BY <1>0 DEF CallersArrays, CallersSlices, Within
      <4>3. Len(heap) >= Len(batch.groups)
        BY <4>1, <4>2, <1>3
      <4>4. \A g \in DOMAIN batch.groups : parents[g].array # Len(heap) + 1
        BY <4>1, <4>2
      <4>5. Len(heap) + 1 > Len(batch.groups)
        BY <4>1, <4>3, <1>3
      <4> QED
        BY <4>4, <4>5, <1>1
    <3> QED
      BY <3>1, <3>2, <1>1, <1>2
  <2> QED
    BY <2>1, <2>2
<1>9. EventsShareOnlyTheCallersWrites'
  BY <1>0, <1>2 DEF EventsShareOnlyTheCallersWrites, ShowsTheCallersArray, ParentsOf, Causes, OwnParents
<1> QED
  BY <1>4, <1>5, <1>6, <1>7, <1>8, <1>9 DEF MemoryInv

\* What a subscriber reads of an event is what its array holds.
LEMMA ReadOfEvent ==
    ASSUME MemoryInv, channel # << >>
    PROVE  LET event == Head(channel)
           IN  /\ event \in [draft : DOMAIN batch.drafts, parents : SliceSet]
               /\ Elements(heap, event.parents) \in Seq(Cells)
               /\ Causes(event.draft) # << >> => Elements(heap, event.parents) = ParentsOf(event.draft)
               /\ Causes(event.draft) = << >> =>
                    ShowsTheCallersArray(Elements(heap, event.parents), batch.drafts[event.draft].group)
<1> DEFINE event == Head(channel)
<1>0. MemoryTypes /\ CallersArrays /\ ChannelHolds
  BY DEF MemoryInv
<1>1. /\ channel \in Seq([draft : DOMAIN batch.drafts, parents : SliceSet])
      /\ heap \in Seq(Seq(Cells))
      /\ batch \in Batches
  BY <1>0 DEF MemoryTypes
<1>2. 1 \in DOMAIN channel /\ event = channel[1]
  BY <1>1
<1> HIDE DEF event
<1>3. event \in [draft : DOMAIN batch.drafts, parents : SliceSet]
  <2>1. channel[1] \in [draft : DOMAIN batch.drafts, parents : SliceSet]
    BY <1>1, <1>2, ElementType, Zenon
  <2> QED
    BY <2>1, <1>2
<1>4. Fills(heap, event.parents)
  BY <1>0, <1>2 DEF ChannelHolds
<1>5. heap[event.parents.array] \in Seq(Cells)
  BY <1>1, <1>4 DEF Fills
<1>6. Elements(heap, event.parents) = heap[event.parents.array]
  BY <1>4, <1>5 DEF Elements, Fills
<1>7. CASE Causes(event.draft) # << >>
  BY <1>0, <1>2, <1>3, <1>5, <1>6, <1>7 DEF ChannelHolds, OwnsItsArray
<1>8. CASE Causes(event.draft) = << >>
  <2>1. event.parents.array = batch.drafts[event.draft].group
    BY <1>0, <1>2, <1>8 DEF ChannelHolds
  <2>2. batch.drafts[event.draft].group \in DOMAIN batch.groups
    BY <1>1, <1>3, BatchParts
  <2> QED
    <3>1. ShowsTheCallersArray(heap[event.parents.array], batch.drafts[event.draft].group)
      BY <1>0, <2>1, <2>2, Zenon DEF CallersArrays
    <3> QED
      BY <3>1, <1>3, <1>5, <1>6, <1>8, Zenon DEF event
<1> QED
  BY <1>3, <1>5, <1>6, <1>7, <1>8 DEF event

\* A subscriber reads what the array still holds.
LEMMA ReceiveKeeps == MemoryInv /\ HandleEvent => MemoryInv'
<1> SUFFICES ASSUME MemoryInv, HandleEvent
             PROVE  MemoryInv'
  OBVIOUS
<1> DEFINE read == [draft |-> Head(channel).draft, causal_parents |-> Elements(heap, Head(channel).parents)]
<1>0. /\ MemoryTypes /\ CallersArrays /\ CallersSlices /\ StillPublishing /\ ChannelHolds
      /\ EventsShareOnlyTheCallersWrites
  BY DEF MemoryInv
<1>1. /\ channel \in Seq([draft : DOMAIN batch.drafts, parents : SliceSet])
      /\ channel # << >>
      /\ handled \in Seq([draft : DOMAIN batch.drafts, causal_parents : Seq(Cells)])
  BY <1>0 DEF MemoryTypes, HandleEvent
<1>2. /\ Head(channel) \in [draft : DOMAIN batch.drafts, parents : SliceSet]
      /\ Elements(heap, Head(channel).parents) \in Seq(Cells)
      /\ Causes(Head(channel).draft) # << >> =>
           Elements(heap, Head(channel).parents) = ParentsOf(Head(channel).draft)
      /\ Causes(Head(channel).draft) = << >> =>
           ShowsTheCallersArray(Elements(heap, Head(channel).parents),
                                batch.drafts[Head(channel).draft].group)
  BY <1>1, ReadOfEvent, Zenon
<1>3. /\ read \in [draft : DOMAIN batch.drafts, causal_parents : Seq(Cells)]
      /\ Causes(read.draft) # << >> => read.causal_parents = ParentsOf(read.draft)
      /\ Causes(read.draft) = << >> =>
           ShowsTheCallersArray(read.causal_parents, batch.drafts[read.draft].group)
  BY <1>2
<1>4. /\ handled' = Append(handled, read)
      /\ channel' = Tail(channel)
      /\ UNCHANGED <<batch, heap, parents, next, written>>
  BY DEF HandleEvent
<1> HIDE DEF read
<1>5. MemoryTypes'
  BY <1>0, <1>1, <1>3, <1>4 DEF MemoryTypes
<1>6. CallersArrays' /\ CallersSlices' /\ StillPublishing'
  BY <1>0, <1>4 DEF CallersArrays, CallersSlices, StillPublishing, ShowsTheCallersArray, OwnParents
<1>7. ChannelHolds'
  <2> SUFFICES ASSUME NEW k \in DOMAIN Tail(channel)
               PROVE  /\ Fills(heap, Tail(channel)[k].parents)
                      /\ IF Causes(Tail(channel)[k].draft) # << >> THEN OwnsItsArray(Tail(channel)[k])
                         ELSE Tail(channel)[k].parents.array = batch.drafts[Tail(channel)[k].draft].group
    BY <1>4 DEF ChannelHolds, OwnsItsArray, ParentsOf, Causes, OwnParents
  <2>1. k + 1 \in DOMAIN channel /\ Tail(channel)[k] = channel[k + 1]
    BY <1>1
  <2> QED
    BY <2>1, <1>0 DEF ChannelHolds
<1>8. EventsShareOnlyTheCallersWrites'
  <2> SUFFICES ASSUME NEW k \in DOMAIN handled'
               PROVE  /\ Causes(handled'[k].draft) # << >> =>
                           handled'[k].causal_parents = ParentsOf(handled'[k].draft)
                      /\ Causes(handled'[k].draft) = << >> =>
                           ShowsTheCallersArray(handled'[k].causal_parents,
                                                batch.drafts[handled'[k].draft].group)
    BY <1>4 DEF EventsShareOnlyTheCallersWrites, ShowsTheCallersArray, ParentsOf, Causes, OwnParents
  <2>1. CASE k \in DOMAIN handled
    <3>1. handled'[k] = handled[k]
      BY <1>1, <1>4, <2>1
    <3> QED
      BY <3>1, <2>1, <1>0 DEF EventsShareOnlyTheCallersWrites
  <2>2. CASE k \notin DOMAIN handled
    <3>1. handled'[k] = read
      BY <1>1, <1>4, <2>2
    <3> QED
      BY <3>1, <1>3
  <2> QED
    BY <2>1, <2>2
<1> QED
  BY <1>5, <1>6, <1>7, <1>8 DEF MemoryInv

\* The slice the caller appends to, and what is so whatever it does with it.
LEMMA CallersSlice ==
    ASSUME MemoryInv, NEW g \in DOMAIN batch.groups, NEW n \in 0 .. parents[g].len
    PROVE  LET slice == [parents[g] EXCEPT !.len = n]
           IN  /\ slice \in SliceSet /\ slice.array = parents[g].array /\ slice.len = n
               /\ heap \in Seq(Seq(Cells)) /\ Extra \in Ids /\ <<Extra>> \in Seq(Ids)
               /\ parents \in [DOMAIN batch.groups -> SliceSet]
               /\ slice.array \in DOMAIN heap
               /\ n \in Nat /\ n <= parents[g].len
               /\ parents[g].len \in Nat /\ parents[g].len <= Len(heap[slice.array])
               /\ Len(heap[slice.array]) \in Nat
               /\ DOMAIN heap = 1 .. Len(heap) /\ Len(heap) \in Nat
               /\ DOMAIN batch.groups = 1 .. Len(batch.groups) /\ Len(batch.groups) \in Nat
               /\ Len(batch.groups) <= Len(heap)
<1>0. MemoryTypes /\ CallersArrays /\ CallersSlices
  BY DEF MemoryInv
<1>1. /\ heap \in Seq(Seq(Cells))
      /\ parents \in [DOMAIN batch.groups -> SliceSet]
      /\ parents[g] \in SliceSet
      /\ Within(heap, parents[g])
  BY <1>0 DEF MemoryTypes, CallersSlices
<1>2. heap[parents[g].array] \in Seq(Cells) /\ parents[g].len \in Nat /\ n \in Nat /\ n <= parents[g].len
  BY <1>1 DEF Within, SliceSet
<1>3. Extra \in Ids
  BY BatchesAssumption, Zenon
<1>4. DOMAIN batch.groups = 1 .. Len(batch.groups) /\ Len(batch.groups) \in Nat
  BY <1>0, BatchParts DEF MemoryTypes
<1>5. DOMAIN heap = 1 .. Len(heap) /\ Len(heap) \in Nat
  BY <1>1
<1>6. Len(batch.groups) <= Len(heap)
  <2>1. Len(batch.groups) \in DOMAIN batch.groups
    BY <1>4
  <2> QED
    BY <2>1, <1>0, <1>4, <1>5 DEF CallersArrays
<1>7. <<Extra>> \in Seq(Ids)
  BY <1>3
<1>8. LET slice == [parents[g] EXCEPT !.len = n]
      IN  slice \in SliceSet /\ slice.array = parents[g].array /\ slice.len = n
  BY <1>1, <1>2 DEF SliceSet
<1> QED
  BY <1>1, <1>2, <1>3, <1>4, <1>5, <1>6, <1>7, <1>8 DEF Within

\* A slice of the caller that fills its array moves to a new one, and no event sees it.
LEMMA CallerTakesArray ==
    ASSUME MemoryInv, NEW g \in DOMAIN batch.groups, NEW n \in 0 .. parents[g].len,
           CallerAppends(g, n), n = Len(heap[parents[g].array])
    PROVE  MemoryInv'
<1> DEFINE slice == [parents[g] EXCEPT !.len = n]
           longer == AppendTo(heap, slice, <<Extra>>)
<1>0. /\ MemoryTypes /\ CallersArrays /\ CallersSlices /\ StillPublishing /\ ChannelHolds
      /\ EventsShareOnlyTheCallersWrites
  BY DEF MemoryInv
<1>1. /\ slice \in SliceSet /\ slice.array = parents[g].array /\ slice.len = n
      /\ heap \in Seq(Seq(Cells)) /\ <<Extra>> \in Seq(Ids)
      /\ parents \in [DOMAIN batch.groups -> SliceSet]
      /\ slice.array \in DOMAIN heap
      /\ n \in Nat /\ n <= parents[g].len
      /\ parents[g].len \in Nat /\ parents[g].len <= Len(heap[slice.array])
      /\ DOMAIN heap = 1 .. Len(heap) /\ Len(heap) \in Nat
      /\ Len(batch.groups) \in Nat
      /\ Len(batch.groups) <= Len(heap)
  BY CallersSlice, Zenon
<1>2. /\ Returned
      /\ heap' = longer.heap
      /\ parents' = [parents EXCEPT ![g] = longer.slice]
      /\ written' = IF n < parents[g].len THEN written \cup {g} ELSE written
      /\ UNCHANGED <<batch, next, channel, handled>>
  BY DEF CallerAppends
<1>3. /\ longer.heap \in Seq(Seq(Cells))
      /\ DOMAIN heap \subseteq DOMAIN longer.heap
      /\ \A a \in DOMAIN heap : longer.heap[a] = heap[a]
      /\ longer.slice \in SliceSet
      /\ longer.slice.array = Len(heap) + 1
      /\ Fills(longer.heap, longer.slice)
  <2>1. Fills(heap, slice)
    BY <1>1 DEF Fills
  <2>2. <<Extra>> # << >>
    OBVIOUS
  <2> HIDE DEF slice
  <2> QED
    BY <1>1, <2>1, <2>2, AppendToFullSlice, Zenon
<1>4. written' = written
  BY <1>1, <1>2
<1> HIDE DEF longer, slice
<1>5. parents'[g] = longer.slice /\ \A h \in DOMAIN batch.groups \ {g} : parents'[h] = parents[h]
  BY <1>1, <1>2
<1>kept. \A s : /\ Fills(heap, s) => Fills(heap', s)
                /\ Within(heap, s) => Within(heap', s)
                /\ s.array \in DOMAIN heap => heap'[s.array] = heap[s.array]
  BY <1>2, <1>3 DEF Fills, Within
<1>6. MemoryTypes'
  BY <1>0, <1>1, <1>2, <1>3 DEF MemoryTypes
<1>7. CallersArrays'
  BY <1>0, <1>2, <1>3, <1>4 DEF CallersArrays, ShowsTheCallersArray, OwnParents
<1>8. CallersSlices'
  <2> SUFFICES ASSUME NEW h \in DOMAIN batch.groups
               PROVE  /\ Within(heap', parents'[h])
                      /\ parents'[h].array = h \/ parents'[h].array > Len(batch.groups)
                      /\ h \notin written => Fills(heap', parents'[h])
    BY <1>2, <1>4 DEF CallersSlices
  <2>1. CASE h = g
    <3>1. Within(heap', longer.slice)
      BY <1>2, <1>3 DEF Within, Fills, SliceSet
    <3>2. longer.slice.array > Len(batch.groups)
      BY <1>1, <1>3
    <3> QED
      BY <2>1, <3>1, <3>2, <1>2, <1>3, <1>5
  <2>2. CASE h # g
    BY <2>2, <1>0, <1>5, <1>kept DEF CallersSlices
  <2> QED
    BY <2>1, <2>2
<1>9. StillPublishing'
  BY <1>2, <1>0, BatchParts DEF StillPublishing, Returned, MemoryTypes
<1>10. ChannelHolds'
  <2> SUFFICES ASSUME NEW k \in DOMAIN channel
               PROVE  /\ Fills(heap', channel[k].parents)
                      /\ Causes(channel[k].draft) # << >> =>
                           /\ channel[k].parents.array > Len(batch.groups)
                           /\ \A h \in DOMAIN batch.groups : parents'[h].array # channel[k].parents.array
                           /\ heap'[channel[k].parents.array] = ParentsOf(channel[k].draft)
                      /\ Causes(channel[k].draft) = << >> =>
                           channel[k].parents.array = batch.drafts[channel[k].draft].group
    BY <1>2 DEF ChannelHolds, OwnsItsArray, ParentsOf, Causes, OwnParents
  <2>1. /\ Fills(heap, channel[k].parents)
        /\ Causes(channel[k].draft) # << >> => OwnsItsArray(channel[k])
        /\ Causes(channel[k].draft) = << >> =>
             channel[k].parents.array = batch.drafts[channel[k].draft].group
    BY <1>0 DEF ChannelHolds
  <2>2. channel[k].parents.array \in DOMAIN heap
    BY <2>1 DEF Fills
  <2>3. channel[k].parents.array # Len(heap) + 1
    BY <2>2, <1>1
  <2> QED
    BY <2>1, <2>2, <2>3, <1>3, <1>5, <1>kept DEF OwnsItsArray
<1>11. EventsShareOnlyTheCallersWrites'
  BY <1>0, <1>2, <1>4 DEF EventsShareOnlyTheCallersWrites, ShowsTheCallersArray, ParentsOf, Causes, OwnParents
<1> QED
  BY <1>6, <1>7, <1>8, <1>9, <1>10, <1>11 DEF MemoryInv

\* Writing within its slice, the caller changes its own array and nobody else's.
LEMMA CallerWritesArray ==
    ASSUME MemoryInv, NEW g \in DOMAIN batch.groups, NEW n \in 0 .. parents[g].len,
           CallerAppends(g, n), n < Len(heap[parents[g].array])
    PROVE  MemoryInv'
<1> DEFINE slice == [parents[g] EXCEPT !.len = n]
           after == AppendTo(heap, slice, <<Extra>>)
           a == parents[g].array
<1>0. /\ MemoryTypes /\ CallersArrays /\ CallersSlices /\ StillPublishing /\ ChannelHolds
      /\ EventsShareOnlyTheCallersWrites
  BY DEF MemoryInv
<1>1. /\ slice \in SliceSet /\ slice.array = a /\ slice.len = n
      /\ heap \in Seq(Seq(Cells)) /\ Extra \in Ids
      /\ parents \in [DOMAIN batch.groups -> SliceSet]
      /\ a \in DOMAIN heap
      /\ n \in Nat /\ n <= parents[g].len
      /\ parents[g].len \in Nat /\ parents[g].len <= Len(heap[a])
      /\ Len(heap[a]) \in Nat
      /\ DOMAIN batch.groups = 1 .. Len(batch.groups) /\ Len(batch.groups) \in Nat
  BY CallersSlice, Zenon
<1>2. /\ Returned
      /\ heap' = after.heap
      /\ parents' = [parents EXCEPT ![g] = after.slice]
      /\ written' = IF n < parents[g].len THEN written \cup {g} ELSE written
      /\ UNCHANGED <<batch, next, channel, handled>>
  BY DEF CallerAppends
<1>3. /\ after.heap \in Seq(Seq(Cells))
      /\ DOMAIN after.heap = DOMAIN heap
      /\ \A b \in DOMAIN heap \ {a} : after.heap[b] = heap[b]
      /\ DOMAIN after.heap[a] = DOMAIN heap[a]
      /\ Len(after.heap[a]) = Len(heap[a])
      /\ \A i \in DOMAIN heap[a] : after.heap[a][i] \in {heap[a][i], Extra}
      /\ after.slice \in SliceSet
      /\ after.slice.array = a
      /\ after.slice.len <= Len(heap[a])
  <2> HIDE DEF slice
  <2>1. slice.array \in DOMAIN heap /\ slice.len < Len(heap[slice.array])
    BY <1>1
  <2>2. /\ after.heap \in Seq(Seq(Cells))
        /\ DOMAIN after.heap = DOMAIN heap
        /\ \A b \in DOMAIN heap \ {slice.array} : after.heap[b] = heap[b]
        /\ DOMAIN after.heap[slice.array] = DOMAIN heap[slice.array]
        /\ Len(after.heap[slice.array]) = Len(heap[slice.array])
        /\ \A i \in DOMAIN heap[slice.array] :
             after.heap[slice.array][i] \in {heap[slice.array][i], Extra}
        /\ after.slice \in SliceSet
        /\ after.slice.array = slice.array
        /\ after.slice.len <= Len(heap[slice.array])
    BY <1>1, <2>1, AppendWithinArray, Zenon
  <2> HIDE DEF after
  <2> QED
    BY <1>1, <2>2
<1>4. written' = written \cup {g}
  <2>1. CASE n < parents[g].len
    BY <2>1, <1>2
  <2>2. CASE ~(n < parents[g].len)
    <3>1. n = parents[g].len
      BY <2>2, <1>1
    <3>2. ~Fills(heap, parents[g])
      BY <3>1, <1>1 DEF Fills
    <3> QED
      BY <2>2, <3>2, <1>0, <1>2 DEF CallersSlices
  <2> QED
    BY <2>1, <2>2
<1> HIDE DEF after, slice
<1>5. parents'[g] = after.slice /\ \A h \in DOMAIN batch.groups \ {g} : parents'[h] = parents[h]
  BY <1>1, <1>2
<1>6. a = g \/ a > Len(batch.groups)
  BY <1>0 DEF CallersSlices
<1>7. \A h \in DOMAIN batch.groups : parents'[h].array = parents[h].array
  BY <1>3, <1>5
<1>kept. \A s : /\ Fills(heap, s) => Fills(heap', s)
                /\ Within(heap, s) => Within(heap', s)
  BY <1>2, <1>3 DEF Fills, Within
<1>8. MemoryTypes'
  BY <1>0, <1>1, <1>2, <1>3 DEF MemoryTypes
<1>9. CallersArrays'
  <2> SUFFICES ASSUME NEW h \in DOMAIN batch.groups
               PROVE  /\ h \in DOMAIN heap'
                      /\ h \notin written' => heap'[h] = OwnParents(h)
                      /\ Len(heap'[h]) = Len(OwnParents(h))
                      /\ \A i \in DOMAIN OwnParents(h) : heap'[h][i] \in {OwnParents(h)[i], Extra}
    BY <1>2 DEF CallersArrays, ShowsTheCallersArray, OwnParents
  <2>1. h \in DOMAIN heap /\ ShowsTheCallersArray(heap[h], h)
    BY <1>0 DEF CallersArrays
  <2>2. CASE h # a
    <3>1. heap'[h] = heap[h]
      BY <2>1, <2>2, <1>2, <1>3
    <3> QED
      BY <2>1, <3>1, <1>2, <1>3, <1>4 DEF ShowsTheCallersArray
  <2>3. CASE h = a
    <3>1. h = g
      BY <2>3, <1>1, <1>6
    <3>2. heap[h] \in Seq(Cells) /\ OwnParents(h) \in Seq(Ids)
      BY <2>1, <1>0, <1>1, BatchParts DEF MemoryTypes, OwnParents
    <3>3. DOMAIN OwnParents(h) = DOMAIN heap[h]
      BY <2>1, <3>2 DEF ShowsTheCallersArray
    <3>4. \A i \in DOMAIN OwnParents(h) : heap'[h][i] \in {OwnParents(h)[i], Extra}
      BY <2>1, <2>3, <3>3, <1>2, <1>3 DEF ShowsTheCallersArray
    <3>5. Len(heap'[h]) = Len(OwnParents(h))
      BY <2>1, <2>3, <1>2, <1>3 DEF ShowsTheCallersArray
    <3>6. h \in written'
      BY <3>1, <1>4
    <3> QED
      BY <2>1, <3>4, <3>5, <3>6, <1>2, <1>3
  <2> QED
    BY <2>2, <2>3
<1>10. CallersSlices'
  <2> SUFFICES ASSUME NEW h \in DOMAIN batch.groups
               PROVE  /\ Within(heap', parents'[h])
                      /\ parents'[h].array = h \/ parents'[h].array > Len(batch.groups)
                      /\ h \notin written' => Fills(heap', parents'[h])
    BY <1>2 DEF CallersSlices
  <2>1. CASE h = g
    BY <2>1, <1>1, <1>2, <1>3, <1>4, <1>5, <1>6 DEF Within
  <2>2. CASE h # g
    BY <2>2, <1>0, <1>4, <1>5, <1>kept DEF CallersSlices
  <2> QED
    BY <2>1, <2>2
<1>11. StillPublishing'
  BY <1>2, <1>0, BatchParts DEF StillPublishing, Returned, MemoryTypes
<1>12. ChannelHolds'
  <2> SUFFICES ASSUME NEW k \in DOMAIN channel
               PROVE  /\ Fills(heap', channel[k].parents)
                      /\ Causes(channel[k].draft) # << >> =>
                           /\ channel[k].parents.array > Len(batch.groups)
                           /\ \A h \in DOMAIN batch.groups : parents'[h].array # channel[k].parents.array
                           /\ heap'[channel[k].parents.array] = ParentsOf(channel[k].draft)
                      /\ Causes(channel[k].draft) = << >> =>
                           channel[k].parents.array = batch.drafts[channel[k].draft].group
    BY <1>2 DEF ChannelHolds, OwnsItsArray, ParentsOf, Causes, OwnParents
  <2>1. /\ Fills(heap, channel[k].parents)
        /\ Causes(channel[k].draft) # << >> => OwnsItsArray(channel[k])
        /\ Causes(channel[k].draft) = << >> =>
             channel[k].parents.array = batch.drafts[channel[k].draft].group
    BY <1>0 DEF ChannelHolds
  <2>2. channel[k].parents.array \in DOMAIN heap
    BY <2>1 DEF Fills
  <2>3. CASE Causes(channel[k].draft) # << >>
    <3>1. heap'[channel[k].parents.array] = heap[channel[k].parents.array]
      BY <2>1, <2>2, <2>3, <1>2, <1>3 DEF OwnsItsArray
    <3> QED
      BY <2>1, <2>3, <3>1, <1>7, <1>kept DEF OwnsItsArray
  <2>4. CASE Causes(channel[k].draft) = << >>
    BY <2>1, <2>4, <1>kept
  <2> QED
    BY <2>3, <2>4
<1>13. EventsShareOnlyTheCallersWrites'
  BY <1>0, <1>2, <1>4 DEF EventsShareOnlyTheCallersWrites, ShowsTheCallersArray, ParentsOf, Causes, OwnParents
<1> QED
  BY <1>8, <1>9, <1>10, <1>11, <1>12, <1>13 DEF MemoryInv

\* The caller either takes a new array or writes where its slice lies.
LEMMA CallerKeeps ==
    ASSUME MemoryInv, NEW g \in DOMAIN batch.groups, NEW n \in 0 .. parents[g].len,
           CallerAppends(g, n)
    PROVE  MemoryInv'
<1>1. /\ n \in Nat /\ n <= parents[g].len
      /\ parents[g].len \in Nat /\ parents[g].len <= Len(heap[parents[g].array])
      /\ Len(heap[parents[g].array]) \in Nat
  BY CallersSlice
<1>2. n = Len(heap[parents[g].array]) \/ n < Len(heap[parents[g].array])
  BY <1>1
<1> QED
  BY <1>2, CallerTakesArray, CallerWritesArray

-----------------------------------------------------------------------------
\* publishAppendEvents, store_append.go:87: without spare capacity behind a group's
\* parents, a subscriber reads of a draft with causes the parents the draft was given,
\* however late and whatever the caller writes; and of a draft without causes the
\* caller's own array, in which nothing shows but what the caller put there.
THEOREM ClippedEventsShareOnlyTheCallersWrites ==
    NoSpare => (MemorySpec => []EventsShareOnlyTheCallersWrites)
<1> SUFFICES ASSUME NoSpare
             PROVE  MemorySpec => []EventsShareOnlyTheCallersWrites
  OBVIOUS
<1>1. MemoryInit => MemoryInv
  BY InitMemoryInv
<1>2. MemoryInv /\ [MemoryNext]_memoryVars => MemoryInv'
  <2> SUFFICES ASSUME MemoryInv, [MemoryNext]_memoryVars
               PROVE  MemoryInv'
    OBVIOUS
  <2>1. CASE PublishEvent
    BY <2>1, PublishKeeps
  <2>2. CASE HandleEvent
    BY <2>2, ReceiveKeeps
  <2>3. ASSUME NEW g \in DOMAIN batch.groups, NEW n \in 0 .. parents[g].len, CallerAppends(g, n)
        PROVE  MemoryInv'
    BY <2>3, CallerKeeps
  <2>4. CASE UNCHANGED memoryVars
    BY <2>4 DEF memoryVars, MemoryInv, MemoryTypes, CallersArrays, CallersSlices, StillPublishing,
                ChannelHolds, OwnsItsArray, EventsShareOnlyTheCallersWrites, ShowsTheCallersArray,
                ParentsOf, Causes, OwnParents
  <2> QED
    BY <2>1, <2>2, <2>3, <2>4 DEF MemoryNext
<1>3. MemoryInv => EventsShareOnlyTheCallersWrites
  BY DEF MemoryInv
<1> QED
  BY <1>1, <1>2, <1>3, PTL DEF MemorySpec
=============================================================================
