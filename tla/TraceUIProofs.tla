--------------------------- MODULE TraceUIProofs ---------------------------
(***************************************************************************)
(* What holds of the trace UI for any clients, services, batches and       *)
(* requests: the streams of all services on one bus keep apart, a client   *)
(* that opened its stream and then read everything misses nothing, and a   *)
(* response to a request for records is true.                              *)
(*                                                                         *)
(* A stream's id is a value of the counter that no other stream has been   *)
(* given, and a subscription's id is that of its client's stream: so to    *)
(* subscribe replaces nothing, and the end of a stream removes its own.    *)
(* A request for everything shows what the paths held when it came, which  *)
(* is all that was announced before; what is announced since, the channel  *)
(* of the stream gets.                                                     *)
(*                                                                         *)
(* A response is made of reads of one path each.  What it has told so far  *)
(* is true of the owners it has read (TellInv), and stays true while the   *)
(* paths grow; the owners that are left are those that are still due.      *)
(***************************************************************************)
EXTENDS TraceUILaws, SequenceLemmas

\* The counter of the package, which every service uses.
TheCounter == CHOOSE s \in Range(ServiceOf) : TRUE

\* What a handler has done, and what its channel is.
HandlersTyped ==
    /\ subSeq \in [Range(ServiceOf) -> Nat]
    /\ stream \in [Clients -> [id : Nat, subscribed : BOOLEAN, greeted : BOOLEAN, ended : BOOLEAN]]
    /\ DOMAIN channel = Clients
    /\ \A c \in Clients : channel[c] = [open |-> channel[c].open, events |-> channel[c].events]

\* The ids given so far are behind the counter, and no two streams have the same.
IdsAreFresh ==
    \A c \in Clients :
      /\ stream[c].id <= subSeq[TheCounter]
      /\ stream[c].subscribed => stream[c].id # 0
      /\ \A d \in Clients : stream[c].id = stream[d].id => c = d \/ stream[c].id = 0

\* A subscription is that of the stream whose id it has.
SubsAreStreams ==
    \A i \in DOMAIN subs : i # 0 /\ subs[i] \in Clients /\ stream[subs[i]].id = i

StreamsInv == HandlersTyped /\ IdsAreFresh /\ SubsAreStreams /\ StreamsKeepTheirChannels

-----------------------------------------------------------------------------
\* Every client is served by the one counter.
LEMMA CounterIsShared ==
    ASSUME NEW c \in Clients
    PROVE  Counter(c) = TheCounter /\ TheCounter \in Range(ServiceOf)
  BY UIAssumption DEF Counter, TheCounter, Range

\* At first there are no streams.
LEMMA InitStreamsInv == Init => StreamsInv
<1> SUFFICES ASSUME Init PROVE StreamsInv
  OBVIOUS
<1>1. HandlersTyped
  BY DEF Init, HandlersTyped
<1>2. IdsAreFresh
  BY UIAssumption DEF Init, IdsAreFresh, TheCounter, Range
<1>3. SubsAreStreams /\ StreamsKeepTheirChannels
  BY DEF Init, SubsAreStreams, StreamsKeepTheirChannels
<1> QED
  BY <1>1, <1>2, <1>3 DEF StreamsInv

\* A step that leaves the counter, the handlers, the subscriptions and what is open.
LEMMA QuietStep ==
    ASSUME StreamsInv, subSeq' = subSeq, subs' = subs,
           stream' \in [Clients -> [id : Nat, subscribed : BOOLEAN, greeted : BOOLEAN, ended : BOOLEAN]],
           \A c \in Clients : /\ stream'[c].id = stream[c].id
                              /\ stream'[c].subscribed = stream[c].subscribed
                              /\ stream'[c].ended = stream[c].ended,
           DOMAIN channel' = Clients,
           \A c \in Clients : /\ channel'[c].open = channel[c].open
                              /\ channel'[c] = [open |-> channel'[c].open, events |-> channel'[c].events]
    PROVE  StreamsInv'
<1>1. HandlersTyped'
  BY DEF StreamsInv, HandlersTyped
<1>2. IdsAreFresh' /\ SubsAreStreams'
  BY DEF StreamsInv, IdsAreFresh, SubsAreStreams
<1>3. StreamsKeepTheirChannels'
  BY DEF StreamsInv, StreamsKeepTheirChannels
<1> QED
  BY <1>1, <1>2, <1>3 DEF StreamsInv

\* The bus gives an event to the channels and closes none.
LEMMA PublishKeepsStreams ==
    ASSUME StreamsInv, PublishNext
    PROVE  StreamsInv'
<1>1. /\ DOMAIN channel' = Clients
      /\ \A c \in Clients : \E new : \/ channel'[c] = [channel[c] EXCEPT !.events = new]
                                     \/ channel'[c] = channel[c]
  BY DEF PublishNext
<1>2. subSeq' = subSeq /\ subs' = subs /\ stream' = stream
  BY DEF PublishNext
<1>3. ASSUME NEW c \in Clients
      PROVE  /\ channel'[c].open = channel[c].open
             /\ channel'[c] = [open |-> channel'[c].open, events |-> channel'[c].events]
  <2>1. channel[c] = [open |-> channel[c].open, events |-> channel[c].events]
    BY DEF StreamsInv, HandlersTyped
  <2> QED
    BY <1>1, <2>1
<1> QED
  BY <1>1, <1>2, <1>3, QuietStep DEF StreamsInv, HandlersTyped

\* So does a handler that sends an event to its client.
LEMMA DeliverKeepsStreams ==
    ASSUME StreamsInv, NEW c \in Clients, Deliver(c)
    PROVE  StreamsInv'
<1>1. /\ channel' = [channel EXCEPT ![c].events = Tail(@)]
      /\ subSeq' = subSeq /\ subs' = subs /\ stream' = stream
  BY DEF Deliver
<1>2. ASSUME NEW d \in Clients
      PROVE  /\ channel'[d].open = channel[d].open
             /\ channel'[d] = [open |-> channel'[d].open, events |-> channel'[d].events]
  <2>1. channel[d] = [open |-> channel[d].open, events |-> channel[d].events]
    BY DEF StreamsInv, HandlersTyped
  <2>2. channel'[d] = IF d = c THEN [channel[d] EXCEPT !.events = Tail(channel[d].events)]
                      ELSE channel[d]
    BY <1>1 DEF StreamsInv, HandlersTyped
  <2> DEFINE old == channel[d]
             new == Tail(channel[d].events)
  <2> HIDE DEF new
  <2>3. CASE d = c
    <3>1. channel'[d] = [old EXCEPT !.events = new]
      BY <2>2, <2>3 DEF new
    <3> HIDE DEF old
    <3>2. channel'[d] = [open |-> old.open, events |-> new]
      BY <2>1, <3>1 DEF old
    <3> QED
      BY <3>2 DEF old
  <2> QED
    BY <2>1, <2>2, <2>3
<1> QED
  BY <1>1, <1>2, QuietStep DEF StreamsInv, HandlersTyped

\* The hello changes nothing on the bus.
LEMMA HelloKeepsStreams ==
    ASSUME StreamsInv, NEW c \in Clients, Hello(c)
    PROVE  StreamsInv'
<1>1. /\ stream' = [stream EXCEPT ![c].greeted = TRUE]
      /\ subSeq' = subSeq /\ subs' = subs /\ channel' = channel
  BY DEF Hello, busVars
<1> QED
  BY <1>1, QuietStep DEF StreamsInv, HandlersTyped

\* The counter yields an id that no stream has.
LEMMA NamingKeepsStreams ==
    ASSUME StreamsInv, NEW c \in Clients, NameStream(c)
    PROVE  StreamsInv'
<1> DEFINE n == subSeq[TheCounter]
<1>1. /\ stream[c].id = 0
      /\ subSeq' = [subSeq EXCEPT ![TheCounter] = n + 1]
      /\ stream' = [stream EXCEPT ![c].id = subSeq'[TheCounter]]
      /\ subs' = subs /\ channel' = channel
  BY CounterIsShared DEF NameStream, busVars
<1>2. n \in Nat /\ subSeq'[TheCounter] = n + 1
  BY <1>1, CounterIsShared DEF StreamsInv, HandlersTyped
<1>3. HandlersTyped'
  BY <1>1, <1>2 DEF StreamsInv, HandlersTyped
<1>4. \A d \in Clients : /\ stream'[d].subscribed = stream[d].subscribed
                         /\ stream'[d].ended = stream[d].ended
                         /\ stream'[d].id = IF d = c THEN n + 1 ELSE stream[d].id
  BY <1>1, <1>2 DEF StreamsInv, HandlersTyped
<1>5. \A d \in Clients : stream[d].id \in Nat /\ stream[d].id <= n
  BY DEF StreamsInv, HandlersTyped, IdsAreFresh
<1>6. ~stream[c].subscribed
  BY <1>1 DEF StreamsInv, IdsAreFresh
<1> HIDE DEF n
<1>7. IdsAreFresh'
  BY <1>2, <1>4, <1>5, <1>6 DEF StreamsInv, IdsAreFresh
<1>8. SubsAreStreams'
  BY <1>1, <1>4 DEF StreamsInv, SubsAreStreams
<1>9. StreamsKeepTheirChannels'
  BY <1>1, <1>4, <1>6 DEF StreamsInv, StreamsKeepTheirChannels
<1> QED
  BY <1>3, <1>7, <1>8, <1>9 DEF StreamsInv

\* A stream that subscribes replaces nobody.
LEMMA SubscribingKeepsStreams ==
    ASSUME StreamsInv, NEW c \in Clients, SubscribeStream(c)
    PROVE  StreamsInv'
<1> DEFINE id == stream[c].id
<1>1. id # 0 /\ ~stream[c].subscribed
  BY DEF SubscribeStream
<1>2. /\ subSeq' = subSeq
      /\ stream' = [stream EXCEPT ![c].subscribed = TRUE]
      /\ subs' = [i \in DOMAIN subs \cup {id} |-> IF i = id THEN c ELSE subs[i]]
      /\ DOMAIN channel' = Clients
  BY DEF SubscribeStream
<1>3. \A d \in Clients \ {c} : ~(id \in DOMAIN subs /\ subs[id] = d)
  BY <1>1 DEF StreamsInv, SubsAreStreams, IdsAreFresh
<1>4. /\ channel'[c] = [open |-> TRUE, events |-> << >>]
      /\ \A d \in Clients \ {c} : channel'[d] = channel[d]
  BY <1>3 DEF SubscribeStream
<1>5. \A d \in Clients : /\ stream'[d].id = stream[d].id
                         /\ stream'[d].ended = stream[d].ended
                         /\ stream'[d].subscribed = IF d = c THEN TRUE ELSE stream[d].subscribed
  BY <1>2 DEF StreamsInv, HandlersTyped
<1>6. HandlersTyped'
  BY <1>2, <1>4 DEF StreamsInv, HandlersTyped
<1>7. \A d \in Clients \ {c} : stream[d].id # id
  BY <1>1 DEF StreamsInv, IdsAreFresh
<1> HIDE DEF id
<1>8. IdsAreFresh'
  BY <1>1, <1>2, <1>5 DEF StreamsInv, IdsAreFresh, id
<1>9. SubsAreStreams'
  BY <1>1, <1>2, <1>5 DEF StreamsInv, SubsAreStreams, id
<1>10. StreamsKeepTheirChannels'
  BY <1>2, <1>4, <1>5, <1>7 DEF StreamsInv, StreamsKeepTheirChannels, id
<1> QED
  BY <1>6, <1>8, <1>9, <1>10 DEF StreamsInv

\* A stream that ends removes its own subscription and closes its own channel.
LEMMA EndingKeepsStreams ==
    ASSUME StreamsInv, NEW c \in Clients, EndStream(c)
    PROVE  StreamsInv'
<1> DEFINE id == stream[c].id
<1>1. /\ stream[c].subscribed /\ ~stream[c].ended
      /\ stream' = [stream EXCEPT ![c].ended = TRUE]
      /\ subSeq' = subSeq
  BY DEF EndStream, Streaming
<1>2. id \in DOMAIN subs /\ subs[id] = c
  BY <1>1 DEF StreamsInv, StreamsKeepTheirChannels
<1>3. /\ subs' = Restrict(subs, DOMAIN subs \ {id})
      /\ channel' = [channel EXCEPT ![c].open = FALSE]
  BY <1>2 DEF EndStream
<1>4. \A d \in Clients : /\ stream'[d].id = stream[d].id
                         /\ stream'[d].subscribed = stream[d].subscribed
                         /\ stream'[d].ended = IF d = c THEN TRUE ELSE stream[d].ended
  BY <1>1 DEF StreamsInv, HandlersTyped
<1>5. HandlersTyped'
  BY <1>1, <1>3 DEF StreamsInv, HandlersTyped
<1>6. /\ DOMAIN subs' = DOMAIN subs \ {id}
      /\ \A i \in DOMAIN subs' : subs'[i] = subs[i]
  BY <1>3 DEF Restrict
<1>7. \A d \in Clients \ {c} : channel'[d] = channel[d] /\ (stream[d].id # id \/ stream[d].id = 0)
  BY <1>3 DEF StreamsInv, HandlersTyped, IdsAreFresh
<1>8. IdsAreFresh'
  BY <1>1, <1>4 DEF StreamsInv, IdsAreFresh
<1>9. SubsAreStreams'
  <2> SUFFICES ASSUME NEW i \in DOMAIN subs'
               PROVE  i # 0 /\ subs'[i] \in Clients /\ stream'[subs'[i]].id = i
    BY DEF SubsAreStreams
  <2>1. i \in DOMAIN subs /\ subs'[i] = subs[i]
    BY <1>6
  <2>2. i # 0 /\ subs[i] \in Clients /\ stream[subs[i]].id = i
    BY <2>1 DEF StreamsInv, SubsAreStreams
  <2> QED
    BY <1>4, <2>1, <2>2
<1>10. ASSUME NEW d \in Clients, stream'[d].subscribed, ~stream'[d].ended
       PROVE  channel'[d].open /\ stream'[d].id \in DOMAIN subs' /\ subs'[stream'[d].id] = d
  <2>1. d # c /\ stream[d].subscribed /\ ~stream[d].ended /\ stream'[d].id = stream[d].id
    BY <1>4, <1>10
  <2>2. channel[d].open /\ stream[d].id \in DOMAIN subs /\ subs[stream[d].id] = d
    BY <2>1 DEF StreamsInv, StreamsKeepTheirChannels
  <2>3. stream[d].id # id
    BY <1>2, <2>1, <2>2
  <2> QED
    BY <1>6, <1>7, <2>1, <2>2, <2>3
<1>11. StreamsKeepTheirChannels'
  BY <1>10 DEF StreamsKeepTheirChannels
<1> QED
  BY <1>5, <1>8, <1>9, <1>11 DEF StreamsInv

\* The writer and the requests for records leave the streams alone.
LEMMA OthersKeepStreams ==
    ASSUME StreamsInv, UNCHANGED <<subSeq, subs, channel, stream>>
    PROVE  StreamsInv'
  BY QuietStep DEF StreamsInv, HandlersTyped

\* Every step of the writer, the bus and the handlers keeps the streams apart.
LEMMA NextKeepsStreams == StreamsInv /\ [Next]_vars => StreamsInv'
<1> SUFFICES ASSUME StreamsInv, [Next]_vars PROVE StreamsInv'
  OBVIOUS
<1>1. CASE \E b \in Batches : Commit(b)
  BY <1>1, OthersKeepStreams DEF Commit, busVars
<1>2. CASE PublishNext
  BY <1>2, PublishKeepsStreams
<1>3. ASSUME NEW c \in Clients, NameStream(c) \/ StreamStep(c) \/ EndStream(c) PROVE StreamsInv'
  BY <1>3, NamingKeepsStreams, SubscribingKeepsStreams, HelloKeepsStreams, DeliverKeepsStreams,
     EndingKeepsStreams DEF StreamStep
<1>4. ASSUME NEW c \in Clients, (\E q \in Requests : AskRecords(c, q)) \/ ReadNextOwner(c) \/ Respond(c)
      PROVE  StreamsInv'
  BY <1>4, OthersKeepStreams DEF AskRecords, ReadNextOwner, Respond, busVars
<1>5. CASE UNCHANGED vars
  BY <1>5, OthersKeepStreams DEF vars, busVars
<1> QED
  BY <1>1, <1>2, <1>3, <1>4, <1>5 DEF Next

\* service.go:45: with one counter for the package, a stream that is under way keeps its
\* channel on the bus until it ends, whatever the other streams of any service do.
THEOREM StreamsStayApart == Spec => []StreamsKeepTheirChannels
<1>1. StreamsInv => StreamsKeepTheirChannels
  BY DEF StreamsInv
<1> QED
  BY <1>1, InitStreamsInv, NextKeepsStreams, PTL DEF Spec

-----------------------------------------------------------------------------
\* The entries of the paths, as clients know them: up to certain lengths, and all of them.
HeldTo(asked) ==
    {p \in Range(Owners) \X Ids : \E n \in 1 .. asked[p[1]] : paths[p[1]][n] = p[2]}
Held == {p \in Range(Owners) \X Ids : \E n \in 1 .. Len(paths[p[1]]) : paths[p[1]][n] = p[2]}

PlacesOf(entries) == {Place(e) : e \in entries}
Recorded(records) == {<<r.owner, r.id>> : r \in Range(records)}

\* What a client has seen, is about to be sent, or has lost since it last read everything.
Reach(c) == client[c].view \cup lost[c] \cup PlacesOf(Buffered(c) \cup Range(unpublished))

Entry == [owner : Range(Owners), id : Ids, quiet : BOOLEAN]

LogTyped ==
    /\ committed \subseteq Batches
    /\ DOMAIN paths = Range(Owners)
    /\ \A o \in Range(Owners) : paths[o] \in Seq(Ids) /\ Len(paths[o]) <= maxThrough + 1
    /\ unpublished \in Seq(Entry)
    /\ \A c \in Clients : channel[c].events \in Seq(Entry)

CallTyped(k) ==
    \/ k = NoCall
    \/ /\ k = [step |-> "reading", request |-> k.request, greeted |-> k.greeted, lost |-> k.lost,
               asked |-> k.asked, left |-> k.left, records |-> k.records, edges |-> k.edges]
       /\ k.request \in Requests /\ k.greeted \in BOOLEAN
       /\ k.asked \in [Range(Owners) -> Nat]
       /\ k.left \in Seq(Range(Owners)) /\ IsPath(k.records)

CallsTyped ==
    /\ DOMAIN call = Clients /\ DOMAIN client = Clients /\ DOMAIN lost = Clients
    /\ \A c \in Clients :
         /\ CallTyped(call[c])
         /\ client[c] = [asks |-> client[c].asks, view |-> client[c].view,
                         backfilled |-> client[c].backfilled, response |-> client[c].response]
         /\ client[c].backfilled \in BOOLEAN

\* What is announced, dropped or under way is on the paths.
AllIsHeld ==
    /\ Announced \subseteq Held
    /\ PlacesOf(Range(unpublished)) \subseteq Held
    /\ \A c \in Clients : lost[c] \subseteq Held /\ PlacesOf(Buffered(c)) \subseteq Held

Reading(c) == call[c].step = "reading"

\* A request for everything has read, or will read, all that was there when it came; and
\* what had been dropped until then was there.
CallsCover ==
    \A c \in Clients : Reading(c) =>
      /\ \A o \in Range(Owners) : call[c].asked[o] <= Len(paths[o])
      /\ call[c].lost \subseteq HeldTo(call[c].asked)
      /\ Whole(call[c].request) =>
           \A p \in HeldTo(call[c].asked) : p \in Recorded(call[c].records) \/ p[1] \in Range(call[c].left)

\* Only a stream that has subscribed sends its hello.
HellosFollow ==
    \A c \in Clients :
      /\ stream[c].greeted => stream[c].subscribed
      /\ client[c].backfilled => stream[c].greeted
      /\ Reading(c) /\ call[c].greeted => stream[c].greeted

\* What a client that knows its stream to be open would miss, its request will show.
RequestsCloseTheGap ==
    \A c \in Clients :
      (Reading(c) /\ call[c].greeted /\ Whole(call[c].request) /\ ~stream[c].ended) =>
        Announced \subseteq Reach(c) \cup HeldTo(call[c].asked)

GapInv ==
    /\ StreamsInv /\ LogTyped /\ CallsTyped /\ AllIsHeld /\ CallsCover /\ HellosFollow
    /\ RequestsCloseTheGap /\ BackfilledClientMissesNothing

-----------------------------------------------------------------------------
\* A batch's entries on a path are its entries for that owner; the announced ones are those
\* that are not quiet.
LEMMA BatchEntries ==
    ASSUME NEW b \in Seq(Entry)
    PROVE  /\ \A o \in Range(Owners) :
                /\ IdsOf(OwnedBy(b, o)) \in Seq(Ids)
                /\ \A e \in Range(b) : e.owner = o => e.id \in Range(IdsOf(OwnedBy(b, o)))
           /\ Announcing(b) \in Seq(Entry)
           /\ Range(Announcing(b)) = {e \in Range(b) : ~e.quiet}
<1>1. IsPath(b) /\ \A k \in DOMAIN b : b[k] \in Entry
  BY OverOwnRange DEF IsPath
<1>2. ASSUME NEW o \in Range(Owners)
      PROVE  /\ IdsOf(OwnedBy(b, o)) \in Seq(Ids)
             /\ \A e \in Range(b) : e.owner = o => e.id \in Range(IdsOf(OwnedBy(b, o)))
  <2> DEFINE I == {k \in DOMAIN b : b[k].owner = o}
             r == OwnedBy(b, o)
  <2>1. /\ IsPath(r) /\ \A k \in 1 .. Len(r) : NthOf(I, k) \in I /\ r[k] = b[NthOf(I, k)]
        /\ \A i \in I : \E k \in 1 .. Len(r) : NthOf(I, k) = i
    <3>1. I \in SUBSET DOMAIN b /\ r = ElementsAt(b, I)
      BY DEF OwnedBy
    <3> HIDE DEF I, r
    <3> QED
      BY <1>1, <3>1, ElementsAreThose
  <2>2. I \subseteq DOMAIN b /\ \A i \in DOMAIN b : b[i].owner = o => i \in I
    OBVIOUS
  <2> HIDE DEF I
  <2>3. Len(r) \in Nat /\ DOMAIN r = 1 .. Len(r)
    BY <2>1 DEF IsPath
  <2>4. \A k \in 1 .. Len(r) : r[k].id \in Ids
    BY <1>1, <2>1, <2>2 DEF Entry
  <2>5. \A e \in Range(b) : e.owner = o => \E k \in 1 .. Len(r) : r[k] = e
    BY <2>1, <2>2 DEF Range
  <2> HIDE DEF r
  <2>6. [k \in 1 .. Len(r) |-> r[k].id] \in Seq(Ids)
    BY <2>3, <2>4
  <2>7. IdsOf(r) = [k \in 1 .. Len(r) |-> r[k].id]
    BY <2>3 DEF IdsOf
  <2>8. \A e \in Range(b) : e.owner = o => e.id \in Range(IdsOf(r))
    BY <2>5, <2>7 DEF Range
  <2> QED
    BY <2>6, <2>7, <2>8 DEF r
<1> DEFINE J == {k \in DOMAIN b : ~b[k].quiet}
           a == Announcing(b)
<1>3. /\ IsPath(a) /\ \A k \in 1 .. Len(a) : NthOf(J, k) \in J /\ a[k] = b[NthOf(J, k)]
      /\ \A i \in J : \E k \in 1 .. Len(a) : NthOf(J, k) = i
  <2>1. J \in SUBSET DOMAIN b /\ a = ElementsAt(b, J)
    BY DEF Announcing
  <2> HIDE DEF J, a
  <2> QED
    BY <1>1, <2>1, ElementsAreThose
<1>4. J \subseteq DOMAIN b /\ \A i \in DOMAIN b : i \in J <=> ~b[i].quiet
  OBVIOUS
<1> HIDE DEF J, a
<1>5. Len(a) \in Nat /\ DOMAIN a = 1 .. Len(a) /\ a = [k \in 1 .. Len(a) |-> a[k]]
  BY <1>3 DEF IsPath
<1>6. \A k \in 1 .. Len(a) : a[k] \in Entry
  BY <1>1, <1>3, <1>4
<1>7. a \in Seq(Entry)
  BY <1>5, <1>6
<1>8. Range(a) = {e \in Range(b) : ~e.quiet}
  BY <1>3, <1>4, <1>5 DEF Range
<1> QED
  BY <1>2, <1>7, <1>8 DEF a

\* A step that lets the paths grow keeps what they held.
LEMMA HeldGrows ==
    ASSUME LogTyped, LogTyped',
           \A o \in Range(Owners) : Continues(paths[o], paths'[o])
    PROVE  /\ Held \subseteq Held'
           /\ \A o \in Range(Owners) : Len(paths[o]) \in Nat /\ Len(paths'[o]) \in Nat
                                       /\ Len(paths[o]) <= Len(paths'[o])
           /\ \A asked \in [Range(Owners) -> Nat] :
                (\A o \in Range(Owners) : asked[o] <= Len(paths[o])) => HeldTo(asked)' = HeldTo(asked)
<1>1. \A o \in Range(Owners) : /\ Len(paths[o]) \in Nat /\ Len(paths'[o]) \in Nat
                               /\ Len(paths[o]) <= Len(paths'[o])
                               /\ \A n \in 1 .. Len(paths[o]) : paths'[o][n] = paths[o][n]
  BY DEF LogTyped, Continues
<1>2. Held \subseteq Held'
  <2> SUFFICES ASSUME NEW p \in Range(Owners) \X Ids, NEW n \in 1 .. Len(paths[p[1]]),
                      paths[p[1]][n] = p[2]
               PROVE  p \in Held'
    BY DEF Held
  <2>1. n \in 1 .. Len(paths'[p[1]]) /\ paths'[p[1]][n] = p[2]
    BY <1>1
  <2> QED
    BY <2>1 DEF Held
<1>3. ASSUME NEW asked \in [Range(Owners) -> Nat], \A o \in Range(Owners) : asked[o] <= Len(paths[o])
      PROVE  HeldTo(asked)' = HeldTo(asked)
  <2>1. \A o \in Range(Owners) : \A n \in 1 .. asked[o] : paths'[o][n] = paths[o][n]
    BY <1>1, <1>3
  <2>2. HeldTo(asked)' = {p \in Range(Owners) \X Ids : \E n \in 1 .. asked[p[1]] : paths'[p[1]][n] = p[2]}
    BY DEF HeldTo
  <2> QED
    BY <2>1, <2>2 DEF HeldTo
<1> QED
  BY <1>1, <1>2, <1>3

\* At first nothing is announced and nobody asks.
LEMMA InitGapInv == Init => GapInv
<1> SUFFICES ASSUME Init PROVE GapInv
  OBVIOUS
<1>1. StreamsInv
  BY InitStreamsInv
<1>2. LogTyped
  <2>1. << >> \in Seq(Ids) /\ << >> \in Seq(Entry) /\ Len(<< >>) = 0 /\ 0 <= maxThrough + 1
    BY UIAssumption
  <2> QED
    BY <2>1 DEF Init, LogTyped
<1>3. CallsTyped
  BY DEF Init, CallsTyped, CallTyped
<1>4. Announced = {}
  BY DEF Init, Announced
<1>5. AllIsHeld
  BY <1>4 DEF Init, AllIsHeld, PlacesOf, Buffered, Range
<1>6. \A c \in Clients : ~Reading(c)
  BY DEF Init, Reading, NoCall
<1>7. CallsCover /\ HellosFollow /\ RequestsCloseTheGap
  BY <1>6 DEF Init, CallsCover, HellosFollow, RequestsCloseTheGap
<1>8. BackfilledClientMissesNothing
  BY <1>4 DEF BackfilledClientMissesNothing
<1> QED
  BY <1>1, <1>2, <1>3, <1>5, <1>7, <1>8 DEF GapInv

\* The law, in terms of what a client can reach.
LEMMA MissesNothing ==
    BackfilledClientMissesNothing <=>
      \A c \in Clients : (client[c].backfilled /\ ~stream[c].ended) => Announced \subseteq Reach(c)
  BY DEF BackfilledClientMissesNothing, Reach, PlacesOf

\* A step of a stream's handler before it sends anything, or its end: it takes no event from
\* the channel of a stream that has sent its hello.
LEMMA HandlerKeepsGap ==
    ASSUME GapInv, StreamsInv', UNCHANGED <<storeVars, lost, call, client>>,
           \A c \in Clients :
             /\ stream'[c].greeted => stream'[c].subscribed
             /\ stream[c].greeted => stream'[c].greeted
             /\ stream[c].ended => stream'[c].ended
             /\ \/ channel'[c].events = channel[c].events
                \/ channel'[c].events = << >> /\ ~stream[c].greeted
    PROVE  GapInv'
<1>1. /\ committed' = committed /\ paths' = paths /\ unpublished' = unpublished
      /\ lost' = lost /\ call' = call /\ client' = client
  BY DEF storeVars
<1>2. LogTyped'
  <2>1. << >> \in Seq(Entry)
    OBVIOUS
  <2> QED
    BY <1>1, <2>1 DEF GapInv, LogTyped
<1>3. CallsTyped'
  BY <1>1 DEF GapInv, CallsTyped
<1>4. Announced' = Announced /\ Held' = Held
  BY <1>1 DEF Announced, Held
<1>5. AllIsHeld'
  BY <1>1, <1>4 DEF GapInv, AllIsHeld, PlacesOf, Buffered, Range
<1>6. CallsCover'
  BY <1>1 DEF GapInv, CallsCover, Reading, HeldTo
<1>7. HellosFollow'
  BY <1>1 DEF GapInv, HellosFollow, Reading
<1>8. ASSUME NEW c \in Clients, stream[c].greeted
      PROVE  Reach(c)' = Reach(c)
  <2>1. channel'[c].events = channel[c].events
    BY <1>8
  <2> QED
    BY <1>1, <2>1 DEF Reach, Buffered
<1>9. RequestsCloseTheGap'
  <2> SUFFICES ASSUME NEW c \in Clients, Reading(c)', call'[c].greeted, Whole(call'[c].request), ~stream'[c].ended
               PROVE  (Announced \subseteq Reach(c) \cup HeldTo(call[c].asked))'
    BY DEF RequestsCloseTheGap
  <2>1. Reading(c) /\ call[c].greeted /\ Whole(call[c].request) /\ ~stream[c].ended /\ stream[c].greeted
    BY <1>1 DEF Reading, GapInv, HellosFollow
  <2>2. Announced \subseteq Reach(c) \cup HeldTo(call[c].asked)
    BY <2>1 DEF GapInv, RequestsCloseTheGap
  <2>3. HeldTo(call[c].asked)' = HeldTo(call[c].asked)
    BY <1>1 DEF HeldTo
  <2> QED
    BY <1>4, <1>8, <2>1, <2>2, <2>3
<1>10. BackfilledClientMissesNothing'
  <2> SUFFICES ASSUME NEW c \in Clients, client'[c].backfilled, ~stream'[c].ended
               PROVE  Announced' \subseteq Reach(c)'
    BY DEF BackfilledClientMissesNothing, Reach, PlacesOf
  <2>1. client[c].backfilled /\ ~stream[c].ended /\ stream[c].greeted
    BY <1>1 DEF GapInv, HellosFollow
  <2> QED
    BY <1>4, <1>8, <2>1, MissesNothing DEF GapInv
<1> QED
  BY <1>2, <1>3, <1>5, <1>6, <1>7, <1>9, <1>10 DEF GapInv

\* So nothing goes missing when streams open and end.
LEMMA StreamsKeepGap ==
    ASSUME GapInv, NEW c \in Clients, NameStream(c) \/ SubscribeStream(c) \/ Hello(c) \/ EndStream(c)
    PROVE  GapInv'
<1>1. StreamsInv'
  BY NamingKeepsStreams, SubscribingKeepsStreams, HelloKeepsStreams, EndingKeepsStreams DEF GapInv
<1>2. stream \in [Clients -> [id : Nat, subscribed : BOOLEAN, greeted : BOOLEAN, ended : BOOLEAN]]
  BY DEF GapInv, StreamsInv, HandlersTyped
<1>3. \A d \in Clients : stream[d].greeted => stream[d].subscribed
  BY DEF GapInv, HellosFollow
<1>4. DOMAIN channel = Clients /\ \A d \in Clients : channel[d] = [open |-> channel[d].open, events |-> channel[d].events]
  BY DEF GapInv, StreamsInv, HandlersTyped
<1>5. CASE NameStream(c)
  <2>1. /\ UNCHANGED <<storeVars, lost, call, client>> /\ channel' = channel
        /\ \E n : stream' = [stream EXCEPT ![c].id = n]
    BY <1>5 DEF NameStream, busVars
  <2>2. \A d \in Clients : /\ stream'[d].greeted = stream[d].greeted
                           /\ stream'[d].subscribed = stream[d].subscribed
                           /\ stream'[d].ended = stream[d].ended
    BY <1>2, <2>1
  <2> QED
    BY <1>1, <1>3, <2>1, <2>2, HandlerKeepsGap
<1>6. CASE SubscribeStream(c)
  <2>1. UNCHANGED <<storeVars, lost, call, client>> /\ stream' = [stream EXCEPT ![c].subscribed = TRUE]
    BY <1>6 DEF SubscribeStream
  <2>2. \A d \in Clients : /\ stream'[d].greeted = stream[d].greeted
                           /\ stream'[d].subscribed = (stream[d].subscribed \/ d = c)
                           /\ stream'[d].ended = stream[d].ended
    BY <1>2, <2>1
  <2>3. channel'[c].events = << >> /\ ~stream[c].greeted
    BY <1>3, <1>6 DEF SubscribeStream
  <2>4. ASSUME NEW d \in Clients \ {c}
        PROVE  channel'[d].events = channel[d].events
    <3>1. channel'[d] = channel[d] \/ channel'[d] = [channel[d] EXCEPT !.open = FALSE]
      BY <1>6 DEF SubscribeStream
    <3> QED
      BY <1>4, <3>1
  <2> QED
    BY <1>1, <1>3, <2>1, <2>2, <2>3, <2>4, HandlerKeepsGap
<1>7. CASE Hello(c)
  <2>1. /\ UNCHANGED <<storeVars, lost, call, client>> /\ channel' = channel
        /\ stream' = [stream EXCEPT ![c].greeted = TRUE] /\ stream[c].subscribed
    BY <1>7 DEF Hello, HelloDue, busVars
  <2>2. \A d \in Clients : /\ stream'[d].greeted = (stream[d].greeted \/ d = c)
                           /\ stream'[d].subscribed = stream[d].subscribed
                           /\ stream'[d].ended = stream[d].ended
    BY <1>2, <2>1
  <2> QED
    BY <1>1, <1>3, <2>1, <2>2, HandlerKeepsGap
<1>8. CASE EndStream(c)
  <2>1. /\ UNCHANGED <<storeVars, lost, call, client>> /\ stream' = [stream EXCEPT ![c].ended = TRUE]
        /\ channel' = channel \/ \E d : channel' = [channel EXCEPT ![d].open = FALSE]
    BY <1>8 DEF EndStream
  <2>2. \A d \in Clients : /\ stream'[d].greeted = stream[d].greeted
                           /\ stream'[d].subscribed = stream[d].subscribed
                           /\ stream'[d].ended = (stream[d].ended \/ d = c)
    BY <1>2, <2>1
  <2>3. \A d \in Clients : channel'[d].events = channel[d].events
    <3>1. ASSUME NEW e, channel' = [channel EXCEPT ![e].open = FALSE], NEW d \in Clients
          PROVE  channel'[d].events = channel[d].events
      <4>1. channel'[d] = channel[d] \/ channel'[d] = [channel[d] EXCEPT !.open = FALSE]
        BY <1>4, <3>1
      <4> QED
        BY <1>4, <4>1
    <3> QED
      BY <2>1, <3>1
  <2> QED
    BY <1>1, <1>3, <2>1, <2>2, <2>3, HandlerKeepsGap
<1> QED
  BY <1>5, <1>6, <1>7, <1>8

\* A step of the writer, the bus or an open stream: what it announces, every open stream
\* gets to reach, and it takes nothing out of reach.
LEMMA EventsKeepGap ==
    ASSUME GapInv, StreamsInv', LogTyped', CallsTyped', AllIsHeld',
           UNCHANGED <<stream, call>>,
           \A o \in Range(Owners) : Continues(paths[o], paths'[o]),
           \A c \in Clients : client'[c].backfilled = client[c].backfilled,
           NEW new, Announced' \subseteq Announced \cup new,
           \A c \in Clients : (stream[c].subscribed /\ ~stream[c].ended) =>
                                Reach(c) \cup new \subseteq Reach(c)'
    PROVE  GapInv'
<1>1. stream' = stream /\ call' = call /\ \A c \in Clients : Reading(c)' <=> Reading(c)
  BY DEF Reading
<1>2. ASSUME NEW c \in Clients, Reading(c)
      PROVE  /\ \A o \in Range(Owners) : call[c].asked[o] <= Len(paths'[o])
             /\ HeldTo(call[c].asked)' = HeldTo(call[c].asked)
  <2>1. CallTyped(call[c])
    BY DEF GapInv, CallsTyped
  <2>2. call[c].asked \in [Range(Owners) -> Nat]
    BY <1>2, <2>1 DEF CallTyped, Reading, NoCall
  <2>3. \A o \in Range(Owners) : call[c].asked[o] <= Len(paths[o])
    BY <1>2 DEF GapInv, CallsCover
  <2>4. HeldTo(call[c].asked)' = HeldTo(call[c].asked)
    <3> DEFINE asked == call[c].asked
    <3>1. PICK a : a = asked
      OBVIOUS
    <3>2. HeldTo(a)' = HeldTo(a)
      BY <2>2, <2>3, <3>1, HeldGrows DEF GapInv
    <3>3. asked' = a
      BY <1>1, <3>1
    <3> QED
      BY <3>1, <3>2, <3>3 DEF HeldTo
  <2>5. \A o \in Range(Owners) : Len(paths[o]) \in Nat /\ Len(paths'[o]) \in Nat /\ Len(paths[o]) <= Len(paths'[o])
    BY HeldGrows DEF GapInv
  <2>6. \A o \in Range(Owners) : call[c].asked[o] \in Nat
    BY <2>2
  <2> HIDE DEF Reading
  <2> QED
    BY <2>3, <2>4, <2>5, <2>6
<1>3. CallsCover'
  <2> SUFFICES ASSUME NEW c \in Clients, Reading(c)
               PROVE  /\ \A o \in Range(Owners) : call'[c].asked[o] <= Len(paths'[o])
                      /\ call'[c].lost \subseteq HeldTo(call[c].asked)'
                      /\ Whole(call'[c].request) =>
                           \A p \in HeldTo(call[c].asked)' :
                             p \in Recorded(call'[c].records) \/ p[1] \in Range(call'[c].left)
    BY <1>1 DEF CallsCover
  <2> QED
    BY <1>1, <1>2 DEF GapInv, CallsCover
<1>4. HellosFollow'
  BY <1>1 DEF GapInv, HellosFollow
<1>5. RequestsCloseTheGap'
  <2> SUFFICES ASSUME NEW c \in Clients, Reading(c)', call'[c].greeted, Whole(call'[c].request), ~stream'[c].ended
               PROVE  (Announced \subseteq Reach(c) \cup HeldTo(call[c].asked))'
    BY DEF RequestsCloseTheGap
  <2>1. Reading(c) /\ call[c].greeted /\ Whole(call[c].request) /\ ~stream[c].ended
    BY <1>1
  <2>2. stream[c].subscribed
    BY <2>1 DEF GapInv, HellosFollow
  <2>3. Announced \subseteq Reach(c) \cup HeldTo(call[c].asked)
    BY <2>1 DEF GapInv, RequestsCloseTheGap
  <2>4. Reach(c) \cup new \subseteq Reach(c)'
    BY <2>1, <2>2
  <2> QED
    BY <1>2, <2>1, <2>3, <2>4
<1>6. BackfilledClientMissesNothing'
  <2> SUFFICES ASSUME NEW c \in Clients, client'[c].backfilled, ~stream'[c].ended
               PROVE  Announced' \subseteq Reach(c)'
    BY DEF BackfilledClientMissesNothing, Reach, PlacesOf
  <2>1. client[c].backfilled /\ ~stream[c].ended /\ stream[c].subscribed
    BY <1>1 DEF GapInv, HellosFollow
  <2>2. Announced \subseteq Reach(c)
    BY <2>1, MissesNothing DEF GapInv
  <2> QED
    BY <2>1, <2>2
<1> QED
  BY <1>3, <1>4, <1>5, <1>6 DEF GapInv

\* A batch: all that it announces is on the paths, and about to be published.
LEMMA CommitKeepsGap ==
    ASSUME GapInv, NEW b \in Batches, Commit(b)
    PROVE  GapInv'
<1>1. /\ committed' = committed \cup {b} /\ unpublished' = Announcing(b) /\ unpublished = << >>
      /\ paths' = [o \in DOMAIN paths |-> paths[o] \o IdsOf(OwnedBy(b, o))]
      /\ \A o \in DOMAIN paths : Len(paths'[o]) <= maxThrough + 1
      /\ UNCHANGED <<subSeq, subs, channel, lost, stream, call, client>>
  BY DEF Commit, busVars
<1>2. b \in Seq(Entry)
  BY UIAssumption DEF Entry
<1>3. /\ \A o \in Range(Owners) :
           /\ IdsOf(OwnedBy(b, o)) \in Seq(Ids)
           /\ \A e \in Range(b) : e.owner = o => e.id \in Range(IdsOf(OwnedBy(b, o)))
      /\ Announcing(b) \in Seq(Entry)
      /\ Range(Announcing(b)) = {e \in Range(b) : ~e.quiet}
  BY <1>2, BatchEntries
<1>4. DOMAIN paths = Range(Owners) /\ \A o \in Range(Owners) : paths[o] \in Seq(Ids)
  BY DEF GapInv, LogTyped
<1>5. ASSUME NEW o \in Range(Owners)
      PROVE  /\ paths'[o] \in Seq(Ids)
             /\ Continues(paths[o], paths'[o])
             /\ \A x \in Range(IdsOf(OwnedBy(b, o))) : \E n \in 1 .. Len(paths'[o]) : paths'[o][n] = x
  <2> DEFINE s == paths[o]
             t == IdsOf(OwnedBy(b, o))
  <2>1. paths'[o] = s \o t /\ s \in Seq(Ids) /\ t \in Seq(Ids)
    BY <1>1, <1>3, <1>4
  <2>2. IsPath(s) /\ IsPath(t)
    BY <2>1, OverOwnRange DEF IsPath
  <2> HIDE DEF s, t
  <2>3. Continues(s, s \o t)
    BY <2>2, ConcatContinues
  <2>4. ASSUME NEW x \in Range(t) PROVE \E n \in 1 .. Len(s \o t) : (s \o t)[n] = x
    <3>1. PICK k \in 1 .. Len(t) : t[k] = x
      BY <2>1 DEF Range
    <3>2. Len(s) \in Nat /\ Len(t) \in Nat /\ Len(s \o t) = Len(s) + Len(t)
      BY <2>1
    <3>3. Len(s) + k \in 1 .. Len(s \o t)
      BY <3>2
    <3>4. (s \o t)[Len(s) + k] = x
      BY <2>1, <3>1, <3>2
    <3> QED
      BY <3>3, <3>4
  <2> QED
    BY <2>1, <2>3, <2>4 DEF s, t
<1>6. StreamsInv'
  BY <1>1, OthersKeepStreams DEF GapInv
<1>7. LogTyped'
  BY <1>1, <1>3, <1>4, <1>5 DEF GapInv, LogTyped
<1>8. CallsTyped'
  BY <1>1 DEF GapInv, CallsTyped
<1> DEFINE new == PlacesOf(Range(unpublished'))
<1>9. new = {Place(e) : e \in {f \in Range(b) : ~f.quiet}}
  BY <1>1, <1>3 DEF PlacesOf
<1>10. Announced' \subseteq Announced \cup new
  BY <1>1, <1>9 DEF Announced
<1>11. new \subseteq Held'
  <2> SUFFICES ASSUME NEW e \in Range(b) PROVE Place(e) \in Held'
    BY <1>9
  <2>1. e \in Entry
    BY <1>2 DEF Range
  <2>2. e.owner \in Range(Owners) /\ e.id \in Ids
    BY <2>1 DEF Entry
  <2>3. \E n \in 1 .. Len(paths'[e.owner]) : paths'[e.owner][n] = e.id
    BY <1>3, <1>5, <2>2
  <2> QED
    BY <2>2, <2>3 DEF Place, Held
<1>12. Held \subseteq Held'
  BY <1>5, <1>7, HeldGrows DEF GapInv
<1>13. AllIsHeld'
  <2>1. Announced' \subseteq Held'
    BY <1>10, <1>11, <1>12 DEF GapInv, AllIsHeld
  <2>2. \A c \in Clients : lost'[c] \subseteq Held' /\ PlacesOf(Buffered(c))' \subseteq Held'
    BY <1>1, <1>12 DEF GapInv, AllIsHeld, PlacesOf, Buffered
  <2>3. PlacesOf(Range(unpublished))' \subseteq Held'
    BY <1>11 DEF PlacesOf
  <2> QED
    BY <2>1, <2>2, <2>3 DEF AllIsHeld
<1>14. ASSUME NEW c \in Clients PROVE Reach(c) \cup new \subseteq Reach(c)'
  <2>1. Range(unpublished) = {}
    BY <1>1 DEF Range
  <2>2. Buffered(c)' = Buffered(c) /\ client' = client /\ lost' = lost
    BY <1>1 DEF Buffered
  <2> QED
    BY <2>1, <2>2 DEF Reach, PlacesOf
<1> HIDE DEF new
<1> QED
  BY <1>1, <1>5, <1>6, <1>7, <1>8, <1>10, <1>13, <1>14, EventsKeepGap

\* A queue is its head and its tail.
LEMMA QueueElements ==
    ASSUME NEW S, NEW s \in Seq(S), s # << >>
    PROVE  Head(s) \in S /\ Tail(s) \in Seq(S) /\ Range(s) = {Head(s)} \cup Range(Tail(s))
<1>1. Len(s) \in Nat /\ DOMAIN s = 1 .. Len(s)
  OBVIOUS
<1>2. /\ Tail(s) \in Seq(S) /\ Head(s) \in S /\ Head(s) = s[1] /\ Len(s) >= 1
      /\ Len(Tail(s)) = Len(s) - 1
      /\ \A k \in 1 .. Len(Tail(s)) : Tail(s)[k] = s[k + 1]
  OBVIOUS
<1>3. DOMAIN Tail(s) = 1 .. Len(Tail(s))
  BY <1>2
<1>4. \A k \in 1 .. Len(s) : s[k] = Head(s) \/ s[k] \in Range(Tail(s))
  <2> TAKE k \in 1 .. Len(s)
  <2>1. CASE k = 1
    BY <1>2, <2>1
  <2>2. CASE k # 1
    <3>1. k - 1 \in 1 .. Len(Tail(s)) /\ Tail(s)[k - 1] = s[k]
      BY <1>1, <1>2, <2>2
    <3> QED
      BY <1>3, <3>1 DEF Range
  <2> QED
    BY <2>1, <2>2
<1>5. \A k \in 1 .. Len(Tail(s)) : Tail(s)[k] \in Range(s)
  <2> TAKE k \in 1 .. Len(Tail(s))
  <2>1. k + 1 \in DOMAIN s
    BY <1>1, <1>2
  <2> QED
    BY <1>2, <2>1 DEF Range
<1>6. Head(s) \in Range(s)
  BY <1>1, <1>2 DEF Range
<1> QED
  BY <1>1, <1>2, <1>3, <1>4, <1>5, <1>6 DEF Range

\* What is appended joins the elements.
LEMMA AppendElements ==
    ASSUME NEW S, NEW s \in Seq(S), NEW x \in S
    PROVE  Append(s, x) \in Seq(S) /\ Range(Append(s, x)) = Range(s) \cup {x}
<1>1. Len(s) \in Nat /\ DOMAIN s = 1 .. Len(s) /\ Append(s, x) \in Seq(S)
  OBVIOUS
<1>2. /\ DOMAIN Append(s, x) = 1 .. Len(s) + 1 /\ Append(s, x)[Len(s) + 1] = x
      /\ \A k \in 1 .. Len(s) : Append(s, x)[k] = s[k]
  OBVIOUS
<1>3. 1 .. Len(s) + 1 = (1 .. Len(s)) \cup {Len(s) + 1}
  BY <1>1
<1> QED
  BY <1>1, <1>2, <1>3 DEF Range

\* The bus hands an event on: to each open stream's channel, which drops its oldest if full.
LEMMA PublishKeepsGap ==
    ASSUME GapInv, PublishNext
    PROVE  GapInv'
<1> DEFINE e == Head(unpublished)
           on == {subs[i] : i \in DOMAIN subs}
           Full(c) == Len(channel[c].events) = BufferSize
           Room(c) == IF Full(c) THEN Tail(channel[c].events) ELSE channel[c].events
<1>1. /\ unpublished # << >> /\ unpublished' = Tail(unpublished)
      /\ UNCHANGED <<committed, paths, stream, call, client>>
      /\ DOMAIN lost' = Clients
  BY DEF PublishNext
<1>2. \A c \in Clients :
        channel'[c] = IF c \in on THEN [channel[c] EXCEPT !.events = Append(Room(c), e)] ELSE channel[c]
  BY DEF PublishNext
<1>3. \A c \in Clients :
        lost'[c] = IF c \in on /\ Full(c) THEN lost[c] \cup {Place(Head(channel[c].events))} ELSE lost[c]
  BY DEF PublishNext
<1>4. unpublished \in Seq(Entry) /\ \A c \in Clients : channel[c].events \in Seq(Entry)
  BY DEF GapInv, LogTyped
<1>5. e \in Entry /\ Tail(unpublished) \in Seq(Entry) /\ Range(unpublished) = {e} \cup Range(unpublished')
  BY <1>1, <1>4, QueueElements
<1>6. ASSUME NEW c \in Clients
      PROVE  \/ /\ c \in on /\ channel[c].events # << >>
                /\ channel'[c].events = Append(Tail(channel[c].events), e)
                /\ lost'[c] = lost[c] \cup {Place(Head(channel[c].events))}
             \/ c \in on /\ channel'[c].events = Append(channel[c].events, e) /\ lost'[c] = lost[c]
             \/ c \notin on /\ channel'[c].events = channel[c].events /\ lost'[c] = lost[c]
  <2>1. channel[c] = [open |-> channel[c].open, events |-> channel[c].events]
    BY DEF GapInv, StreamsInv, HandlersTyped
  <2>2. Full(c) => channel[c].events # << >>
    <3>1. BufferSize # 0 /\ Len(<< >>) = 0
      BY UIAssumption
    <3> QED
      BY <3>1
  <2> DEFINE next == Append(Room(c), e)
  <2>3. c \in on => channel'[c].events = next
    <3>1. c \in on => channel'[c] = [channel[c] EXCEPT !.events = next]
      BY <1>2
    <3> HIDE DEF next
    <3> QED
      BY <2>1, <3>1
  <2> QED
    BY <1>2, <1>3, <2>2, <2>3
<1> HIDE DEF Full, Room, e, on
<1>7. ASSUME NEW c \in Clients
      PROVE  /\ channel'[c].events \in Seq(Entry)
             /\ lost'[c] \subseteq lost[c] \cup PlacesOf(Buffered(c))
             /\ Buffered(c)' \subseteq Buffered(c) \cup {e}
             /\ c \in on => /\ e \in Buffered(c)'
                            /\ lost[c] \cup PlacesOf(Buffered(c)) \subseteq lost'[c] \cup PlacesOf(Buffered(c)')
  <2> DEFINE old == channel[c].events
  <2>1. old \in Seq(Entry)
    BY <1>4
  <2>2. Buffered(c) = Range(old) /\ Buffered(c)' = Range(channel'[c].events)
    BY DEF Buffered
  <2> HIDE DEF old
  <2>3. CASE /\ c \in on /\ old # << >>
             /\ channel'[c].events = Append(Tail(old), e)
             /\ lost'[c] = lost[c] \cup {Place(Head(old))}
    <3>1. Tail(old) \in Seq(Entry) /\ Range(old) = {Head(old)} \cup Range(Tail(old))
      BY <2>1, <2>3, QueueElements
    <3> DEFINE rest == Tail(old)
    <3>2. rest \in Seq(Entry) /\ Range(old) = {Head(old)} \cup Range(rest)
      BY <3>1
    <3>3. channel'[c].events = Append(rest, e)
      BY <2>3
    <3> HIDE DEF rest
    <3>4. Append(rest, e) \in Seq(Entry) /\ Range(Append(rest, e)) = Range(rest) \cup {e}
      BY <1>5, <3>2, AppendElements
    <3>5. Buffered(c) = {Head(old)} \cup Range(rest) /\ Buffered(c)' = Range(rest) \cup {e}
      BY <2>2, <3>2, <3>3, <3>4
    <3>6. PlacesOf(Buffered(c)) = {Place(Head(old))} \cup PlacesOf(Range(rest))
      BY <3>5 DEF PlacesOf
    <3>7. PlacesOf(Range(rest)) \subseteq PlacesOf(Buffered(c)')
      BY <3>5 DEF PlacesOf
    <3> QED
      BY <2>3, <3>3, <3>4, <3>5, <3>6, <3>7
  <2>4. CASE c \in on /\ channel'[c].events = Append(old, e) /\ lost'[c] = lost[c]
    <3>1. Append(old, e) \in Seq(Entry) /\ Range(Append(old, e)) = Range(old) \cup {e}
      BY <1>5, <2>1, AppendElements
    <3> QED
      BY <2>2, <2>4, <3>1 DEF PlacesOf
  <2>5. CASE c \notin on /\ channel'[c].events = old /\ lost'[c] = lost[c]
    BY <2>1, <2>2, <2>5
  <2> QED
    BY <1>6, <2>3, <2>4, <2>5 DEF old
<1>8. StreamsInv'
  BY PublishKeepsStreams DEF GapInv
<1>9. LogTyped'
  BY <1>1, <1>5, <1>7 DEF GapInv, LogTyped
<1>10. CallsTyped'
  BY <1>1 DEF GapInv, CallsTyped
<1>11. Held' = Held /\ Announced' = Announced
  BY <1>1 DEF Held, Announced
<1>12. AllIsHeld'
  <2>1. Place(e) \in Held /\ PlacesOf(Range(unpublished')) \subseteq Held
    BY <1>5 DEF GapInv, AllIsHeld, PlacesOf
  <2>2. ASSUME NEW c \in Clients PROVE lost'[c] \subseteq Held /\ PlacesOf(Buffered(c)') \subseteq Held
    <3>1. lost[c] \subseteq Held /\ PlacesOf(Buffered(c)) \subseteq Held
      BY DEF GapInv, AllIsHeld
    <3> QED
      BY <1>7, <2>1, <3>1 DEF PlacesOf
  <2>3. Announced' \subseteq Held'
    BY <1>11 DEF GapInv, AllIsHeld
  <2> QED
    BY <1>11, <2>1, <2>2, <2>3 DEF AllIsHeld, PlacesOf
<1>13. ASSUME NEW c \in Clients, stream[c].subscribed, ~stream[c].ended
       PROVE  Reach(c) \cup {} \subseteq Reach(c)'
  <2>1. c \in on
    BY <1>13 DEF GapInv, StreamsInv, StreamsKeepTheirChannels, on
  <2>2. Reach(c) = client[c].view \cup lost[c] \cup PlacesOf(Buffered(c)) \cup PlacesOf(Range(unpublished))
    BY DEF Reach, PlacesOf
  <2>3. Reach(c)' = client[c].view \cup lost'[c] \cup PlacesOf(Buffered(c)') \cup PlacesOf(Range(unpublished'))
    BY <1>1 DEF Reach, PlacesOf
  <2>4. PlacesOf(Range(unpublished)) = {Place(e)} \cup PlacesOf(Range(unpublished'))
    BY <1>5 DEF PlacesOf
  <2>5. Place(e) \in PlacesOf(Buffered(c)')
    BY <1>7, <2>1 DEF PlacesOf
  <2> QED
    BY <1>7, <2>1, <2>2, <2>3, <2>4, <2>5
<1>14. \A o \in Range(Owners) : Continues(paths[o], paths'[o])
  BY <1>1, OverOwnRange, SameContinues DEF GapInv, LogTyped, IsPath
<1> QED
  BY <1>1, <1>8, <1>9, <1>10, <1>11, <1>12, <1>13, <1>14, EventsKeepGap

\* An event that is delivered has been seen.
LEMMA DeliverKeepsGap ==
    ASSUME GapInv, NEW c \in Clients, Deliver(c)
    PROVE  GapInv'
<1> DEFINE old == channel[c].events
           p == Place(Head(channel[c].events))
<1>1. /\ old # << >>
      /\ channel' = [channel EXCEPT ![c].events = Tail(old)]
      /\ client' = [client EXCEPT ![c].view = @ \cup {p}]
      /\ UNCHANGED <<committed, paths, unpublished, lost, stream, call>>
  BY DEF Deliver, storeVars
<1>2. old \in Seq(Entry)
  BY DEF GapInv, LogTyped
<1>3. Tail(old) \in Seq(Entry) /\ Head(old) \in Entry /\ Range(old) = {Head(old)} \cup Range(Tail(old))
  BY <1>1, <1>2, QueueElements
<1>4. ASSUME NEW d \in Clients
      PROVE  channel'[d].events = IF d = c THEN Tail(old) ELSE channel[d].events
  <2>1. channel[d] = [open |-> channel[d].open, events |-> channel[d].events] /\ DOMAIN channel = Clients
    BY DEF GapInv, StreamsInv, HandlersTyped
  <2> DEFINE t == Tail(old)
  <2>2. channel'[d] = IF d = c THEN [channel[d] EXCEPT !.events = t] ELSE channel[d]
    BY <1>1, <2>1
  <2> HIDE DEF t
  <2>3. channel'[d].events = IF d = c THEN t ELSE channel[d].events
    BY <2>1, <2>2
  <2> QED
    BY <2>3 DEF t
<1>5. ASSUME NEW d \in Clients
      PROVE  /\ client'[d].view = IF d = c THEN client[d].view \cup {p} ELSE client[d].view
             /\ client'[d].backfilled = client[d].backfilled
             /\ client'[d] = [asks |-> client'[d].asks, view |-> client'[d].view,
                              backfilled |-> client'[d].backfilled, response |-> client'[d].response]
  <2>1. /\ DOMAIN client = Clients
        /\ client[d] = [asks |-> client[d].asks, view |-> client[d].view,
                        backfilled |-> client[d].backfilled, response |-> client[d].response]
    BY DEF GapInv, CallsTyped
  <2> DEFINE v == client[c].view \cup {p}
  <2>2. client'[d] = IF d = c THEN [client[d] EXCEPT !.view = v] ELSE client[d]
    BY <1>1, <2>1
  <2> HIDE DEF v
  <2>3. /\ client'[d].view = IF d = c THEN v ELSE client[d].view
        /\ client'[d].backfilled = client[d].backfilled
        /\ client'[d] = [asks |-> client'[d].asks, view |-> client'[d].view,
                         backfilled |-> client'[d].backfilled, response |-> client'[d].response]
    BY <2>1, <2>2
  <2> QED
    BY <2>3 DEF v
<1>6. DOMAIN client' = Clients
  BY <1>1 DEF GapInv, CallsTyped
<1>7. StreamsInv'
  BY DeliverKeepsStreams DEF GapInv
<1>8. LogTyped'
  BY <1>1, <1>3, <1>4 DEF GapInv, LogTyped
<1>9. CallsTyped'
  BY <1>1, <1>5, <1>6 DEF GapInv, CallsTyped
<1>10. Held' = Held /\ Announced' = Announced
  BY <1>1 DEF Held, Announced
<1>11. \A d \in Clients : Buffered(d)' = IF d = c THEN Range(Tail(old)) ELSE Buffered(d)
  BY <1>4 DEF Buffered
<1>12. Buffered(c) = {Head(old)} \cup Range(Tail(old))
  BY <1>3 DEF Buffered
<1> HIDE DEF old
<1>13. AllIsHeld'
  BY <1>1, <1>10, <1>11, <1>12 DEF GapInv, AllIsHeld, PlacesOf
<1>14. ASSUME NEW d \in Clients PROVE Reach(d) \cup {} \subseteq Reach(d)'
  <2>1. p = Place(Head(old))
    BY DEF old
  <2> HIDE DEF p
  <2>2. d # c => Reach(d)' = Reach(d)
    BY <1>1, <1>5, <1>11 DEF Reach
  <2>3. ASSUME d = c PROVE Reach(d) \subseteq Reach(d)'
    <3> DEFINE rest == Range(Tail(old)) \cup Range(unpublished)
    <3>1. Buffered(d) \cup Range(unpublished) = {Head(old)} \cup rest
      BY <1>12, <2>3
    <3>2. Reach(d)' = client'[d].view \cup lost[d] \cup PlacesOf(rest)
      BY <1>1, <1>11, <2>3 DEF Reach, PlacesOf
    <3> HIDE DEF rest
    <3>3. Reach(d) \subseteq client[d].view \cup lost[d] \cup {p} \cup PlacesOf(rest)
      BY <2>1, <3>1 DEF Reach, PlacesOf
    <3> QED
      BY <1>5, <2>3, <3>2, <3>3
  <2> QED
    BY <2>2, <2>3
<1>15. \A o \in Range(Owners) : Continues(paths[o], paths'[o])
  BY <1>1, OverOwnRange, SameContinues DEF GapInv, LogTyped, IsPath
<1> QED
  BY <1>1, <1>5, <1>7, <1>8, <1>9, <1>10, <1>13, <1>14, <1>15, EventsKeepGap

\* A step of one client's request for records.
LEMMA RequestKeepsGap ==
    ASSUME GapInv, UNCHANGED <<storeVars, subSeq, subs, channel, stream>>, CallsTyped',
           NEW c \in Clients,
           \A d \in Clients \ {c} : call'[d] = call[d] /\ client'[d] = client[d] /\ lost'[d] = lost[d],
           lost'[c] \subseteq lost[c],
           client'[c].backfilled => stream[c].greeted,
           Reading(c)' =>
             /\ call'[c].greeted => stream[c].greeted
             /\ \A o \in Range(Owners) : call'[c].asked[o] <= Len(paths[o])
             /\ call'[c].lost \subseteq HeldTo(call'[c].asked)
             /\ Whole(call'[c].request) =>
                  /\ \A p \in HeldTo(call'[c].asked) :
                       p \in Recorded(call'[c].records) \/ p[1] \in Range(call'[c].left)
                  /\ (call'[c].greeted /\ ~stream[c].ended) =>
                       Announced \subseteq Reach(c)' \cup HeldTo(call'[c].asked),
           (client'[c].backfilled /\ ~stream[c].ended) => Announced \subseteq Reach(c)'
    PROVE  GapInv'
<1>1. /\ committed' = committed /\ paths' = paths /\ unpublished' = unpublished
      /\ channel' = channel /\ stream' = stream
  BY DEF storeVars
<1>2. StreamsInv' /\ LogTyped'
  BY <1>1, OthersKeepStreams DEF GapInv, LogTyped
<1>3. Announced' = Announced /\ Held' = Held /\ \A d \in Clients : Buffered(d)' = Buffered(d)
  BY <1>1 DEF Announced, Held, Buffered
<1>4. AllIsHeld'
  <2>1. \A d \in Clients : lost'[d] \subseteq lost[d]
    OBVIOUS
  <2> QED
    BY <1>1, <1>3, <2>1 DEF GapInv, AllIsHeld, PlacesOf
<1>5. \A d \in Clients : HeldTo(call'[d].asked) = HeldTo(call[d].asked)'
  BY <1>1 DEF HeldTo
<1>6. \A d \in Clients \ {c} : (Reading(d)' <=> Reading(d)) /\ Reach(d)' = Reach(d)
  BY <1>1, <1>3 DEF Reading, Reach
<1>7. CallsCover'
  <2> SUFFICES ASSUME NEW d \in Clients, Reading(d)'
               PROVE  /\ \A o \in Range(Owners) : call'[d].asked[o] <= Len(paths[o])
                      /\ call'[d].lost \subseteq HeldTo(call'[d].asked)
                      /\ Whole(call'[d].request) =>
                           \A p \in HeldTo(call'[d].asked) :
                             p \in Recorded(call'[d].records) \/ p[1] \in Range(call'[d].left)
    BY <1>1, <1>5 DEF CallsCover
  <2>1. CASE d = c
    BY <2>1
  <2>2. CASE d # c
    BY <1>6, <2>2 DEF GapInv, CallsCover
  <2> QED
    BY <2>1, <2>2
<1>8. HellosFollow'
  <2> SUFFICES ASSUME NEW d \in Clients
               PROVE  /\ client'[d].backfilled => stream[d].greeted
                      /\ Reading(d)' /\ call'[d].greeted => stream[d].greeted
    BY <1>1 DEF GapInv, HellosFollow
  <2>1. CASE d = c
    BY <2>1
  <2>2. CASE d # c
    BY <1>6, <2>2 DEF GapInv, HellosFollow
  <2> QED
    BY <2>1, <2>2
<1>9. RequestsCloseTheGap'
  <2> SUFFICES ASSUME NEW d \in Clients, Reading(d)', call'[d].greeted, Whole(call'[d].request), ~stream[d].ended
               PROVE  Announced \subseteq Reach(d)' \cup HeldTo(call'[d].asked)
    BY <1>1, <1>3, <1>5 DEF RequestsCloseTheGap
  <2>1. CASE d = c
    BY <2>1
  <2>2. CASE d # c
    BY <1>6, <2>2 DEF GapInv, RequestsCloseTheGap
  <2> QED
    BY <2>1, <2>2
<1>10. BackfilledClientMissesNothing'
  <2> SUFFICES ASSUME NEW d \in Clients, client'[d].backfilled, ~stream'[d].ended
               PROVE  Announced' \subseteq Reach(d)'
    BY DEF BackfilledClientMissesNothing, Reach, PlacesOf
  <2>1. CASE d = c
    BY <1>1, <1>3, <2>1
  <2>2. CASE d # c
    BY <1>1, <1>3, <1>6, <2>2, MissesNothing DEF GapInv
  <2> QED
    BY <2>1, <2>2
<1> QED
  BY <1>2, <1>4, <1>7, <1>8, <1>9, <1>10 DEF GapInv

\* A request for everything leaves no path out that has an entry.
LEMMA WholeReadsAll ==
    ASSUME LogTyped, NEW q, Whole(q)
    PROVE  /\ \A o \in Range(Owners) :
                ReadOwnerPrefix(paths[o], q.through, parseMode(q.mode)) = DOMAIN paths[o]
           /\ \A o \in Range(Owners) : Len(paths[o]) # 0 => o \in Range(OwnersToRead(q))
<1>1. \A o \in Range(Owners) : /\ paths[o] \in Seq(Ids) /\ Len(paths[o]) \in Nat
                               /\ DOMAIN paths[o] = 1 .. Len(paths[o])
                               /\ Len(paths[o]) <= maxThrough + 1
  BY DEF LogTyped
<1>2. maxThrough \in Nat
  BY UIAssumption
<1>3. \A o \in Range(Owners) :
        ReadOwnerPrefix(paths[o], q.through, parseMode(q.mode)) = DOMAIN paths[o]
  <2> TAKE o \in Range(Owners)
  <2>1. \A k \in DOMAIN paths[o] : k - 1 <= maxThrough
    BY <1>1, <1>2
  <2>2. \A k \in DOMAIN paths[o] : ModeAdmits(parseMode(q.mode), paths[o][k])
    BY DEF Whole, ModeAdmits
  <2> QED
    BY <2>1, <2>2 DEF Whole, ReadOwnerPrefix
<1>4. ASSUME NEW o \in Range(Owners), Len(paths[o]) # 0
      PROVE  o \in Range(OwnersToRead(q))
  <2> DEFINE I == {i \in DOMAIN Owners :
                     /\ pathMatches(q.path, Owners[i])
                     /\ ReadOwnerPrefix(paths[Owners[i]], q.through, parseMode(q.mode)) # {}}
             r == OwnersToRead(q)
  <2>1. IsPath(Owners)
    BY UIAssumption, OverOwnRange DEF IsPath
  <2>2. PICK i \in DOMAIN Owners : Owners[i] = o
    BY DEF Range
  <2>3. 1 \in DOMAIN paths[o]
    BY <1>1, <1>4
  <2>4. pathMatches(q.path, Owners[i])
    BY DEF pathMatches, Whole
  <2>5. i \in I
    BY <1>3, <2>2, <2>3, <2>4
  <2>6. r = ElementsAt(Owners, I) /\ I \in SUBSET DOMAIN Owners
    BY DEF OwnersToRead
  <2> HIDE DEF I, r
  <2>7. IsPath(r) /\ \A k \in 1 .. Len(r) : r[k] = Owners[NthOf(I, k)]
    BY <2>1, <2>6, ElementsAreThose
  <2>8. PICK k \in 1 .. Len(r) : NthOf(I, k) = i
    BY <2>1, <2>5, <2>6, ElementsAreThose
  <2>9. k \in DOMAIN r /\ r[k] = o
    BY <2>2, <2>7, <2>8 DEF IsPath
  <2> QED
    BY <2>9 DEF Range, r
<1> QED
  BY <1>3, <1>4

\* The paths of a request are paths.
LEMMA OwnersToReadTyped ==
    ASSUME NEW q
    PROVE  OwnersToRead(q) \in Seq(Range(Owners))
<1> DEFINE I == {i \in DOMAIN Owners :
                   /\ pathMatches(q.path, Owners[i])
                   /\ ReadOwnerPrefix(paths[Owners[i]], q.through, parseMode(q.mode)) # {}}
           r == OwnersToRead(q)
<1>1. IsPath(Owners)
  BY UIAssumption, OverOwnRange DEF IsPath
<1>2. r = ElementsAt(Owners, I) /\ I \in SUBSET DOMAIN Owners
  BY DEF OwnersToRead
<1> HIDE DEF I, r
<1>3. IsPath(r) /\ \A k \in 1 .. Len(r) : NthOf(I, k) \in I /\ r[k] = Owners[NthOf(I, k)]
  BY <1>1, <1>2, ElementsAreThose
<1>4. Len(r) \in Nat /\ r = [k \in 1 .. Len(r) |-> r[k]]
  BY <1>3 DEF IsPath
<1>5. \A k \in 1 .. Len(r) : r[k] \in Range(Owners)
  BY <1>2, <1>3 DEF Range
<1>6. r \in Seq(Range(Owners))
  BY <1>4, <1>5
<1> QED
  BY <1>6 DEF r

\* A request that comes when the stream has sent its hello will show all that was announced
\* before, and what has been dropped since is on the paths that it will read.
LEMMA AskKeepsGap ==
    ASSUME GapInv, NEW c \in Clients, NEW q \in Requests, AskRecords(c, q)
    PROVE  GapInv'
<1>1. /\ call[c] = NoCall /\ UNCHANGED <<storeVars, subSeq, subs, channel, lost, stream>>
      /\ DOMAIN call = Clients /\ DOMAIN client = Clients /\ DOMAIN lost = Clients
  BY DEF AskRecords, busVars, GapInv, CallsTyped
<1>2. /\ committed' = committed /\ paths' = paths /\ unpublished' = unpublished
      /\ channel' = channel /\ stream' = stream /\ lost' = lost
  BY <1>1 DEF storeVars
<1>3. PICK n, r : \/ /\ client' = [client EXCEPT ![c].asks = n, ![c].response = r]
                     /\ call' = call
                  \/ /\ client' = [client EXCEPT ![c].asks = n]
                     /\ call' = [call EXCEPT ![c] =
                          [step    |-> "reading",
                           request |-> q,
                           greeted |-> stream[c].greeted,
                           lost    |-> lost[c],
                           asked   |-> [o \in DOMAIN paths |-> Len(paths[o])],
                           left    |-> OwnersToRead(q),
                           records |-> << >>,
                           edges   |-> << >>]]
  BY DEF AskRecords
<1>4. /\ \A d \in Clients : /\ client'[d].view = client[d].view
                            /\ client'[d].backfilled = client[d].backfilled
                            /\ client'[d] = [asks |-> client'[d].asks, view |-> client'[d].view,
                                             backfilled |-> client'[d].backfilled,
                                             response |-> client'[d].response]
                            /\ d # c => client'[d] = client[d]
      /\ DOMAIN client' = Clients
  <2>1. \A d \in Clients : client[d] = [asks |-> client[d].asks, view |-> client[d].view,
                                        backfilled |-> client[d].backfilled,
                                        response |-> client[d].response]
    BY DEF GapInv, CallsTyped
  <2> QED
    BY <1>1, <1>3, <2>1
<1> DEFINE asked == [o \in DOMAIN paths |-> Len(paths[o])]
<1>5. DOMAIN paths = Range(Owners) /\ \A o \in Range(Owners) : Len(paths[o]) \in Nat
  BY DEF GapInv, LogTyped
<1>6. asked \in [Range(Owners) -> Nat] /\ \A o \in Range(Owners) : asked[o] = Len(paths[o])
  BY <1>5
<1>7. HeldTo(asked) = Held
  BY <1>6 DEF HeldTo, Held
<1>8. \A d \in Clients : Reach(d)' = Reach(d)
  BY <1>2, <1>4 DEF Reach, Buffered
<1>9. ASSUME NEW d \in Clients
      PROVE  /\ d # c => call'[d] = call[d]
             /\ \/ call'[c] = NoCall
                \/ call'[c] = [step |-> "reading", request |-> q, greeted |-> stream[c].greeted,
                               lost |-> lost[c], asked |-> asked, left |-> OwnersToRead(q),
                               records |-> << >>, edges |-> << >>]
  BY <1>1, <1>3
<1>10. DOMAIN call' = Clients
  BY <1>1, <1>3
<1> HIDE DEF asked
<1>11. CallTyped(call'[c])
  <2>1. stream[c].greeted \in BOOLEAN
    BY DEF GapInv, StreamsInv, HandlersTyped
  <2>2. IsPath(<< >>)
    BY DEF IsPath
  <2> QED
    BY <1>6, <1>9, <2>1, <2>2, OwnersToReadTyped DEF CallTyped
<1>12. CallsTyped'
  <2> SUFFICES ASSUME NEW d \in Clients PROVE CallTyped(call'[d])
    BY <1>1, <1>2, <1>4, <1>10 DEF GapInv, CallsTyped
  <2> QED
    BY <1>9, <1>11 DEF GapInv, CallsTyped
<1>13. ASSUME Reading(c)'
       PROVE  /\ call'[c].request = q /\ call'[c].greeted = stream[c].greeted
              /\ call'[c].lost = lost[c] /\ call'[c].asked = asked /\ call'[c].left = OwnersToRead(q)
  BY <1>9, <1>13 DEF Reading, NoCall
<1>14. Reading(c)' =>
         /\ call'[c].greeted => stream[c].greeted
         /\ \A o \in Range(Owners) : call'[c].asked[o] <= Len(paths[o])
         /\ call'[c].lost \subseteq HeldTo(call'[c].asked)
         /\ Whole(call'[c].request) =>
              /\ \A p \in HeldTo(call'[c].asked) :
                   p \in Recorded(call'[c].records) \/ p[1] \in Range(call'[c].left)
              /\ (call'[c].greeted /\ ~stream[c].ended) =>
                   Announced \subseteq Reach(c)' \cup HeldTo(call'[c].asked)
  <2> SUFFICES ASSUME Reading(c)'
               PROVE  /\ \A o \in Range(Owners) : asked[o] <= Len(paths[o])
                      /\ lost[c] \subseteq Held
                      /\ Whole(q) => \A p \in Held : p[1] \in Range(OwnersToRead(q))
                      /\ Announced \subseteq Held
    BY <1>7, <1>13
  <2>1. \A o \in Range(Owners) : asked[o] <= Len(paths[o])
    BY <1>5, <1>6
  <2>2. ASSUME Whole(q), NEW p \in Held PROVE p[1] \in Range(OwnersToRead(q))
    <3>1. p[1] \in Range(Owners) /\ \E i \in 1 .. Len(paths[p[1]]) : TRUE
      BY DEF Held
    <3>2. Len(paths[p[1]]) # 0
      BY <1>5, <3>1
    <3> QED
      BY <2>2, <3>1, <3>2, WholeReadsAll DEF GapInv
  <2> QED
    BY <2>1, <2>2 DEF GapInv, AllIsHeld
<1>15. client'[c].backfilled => stream[c].greeted
  BY <1>4 DEF GapInv, HellosFollow
<1>16. (client'[c].backfilled /\ ~stream[c].ended) => Announced \subseteq Reach(c)'
  BY <1>4, <1>8, MissesNothing DEF GapInv
<1>17. \A d \in Clients \ {c} : call'[d] = call[d] /\ client'[d] = client[d] /\ lost'[d] = lost[d]
  BY <1>2, <1>4, <1>9
<1> QED
  BY <1>1, <1>2, <1>12, <1>14, <1>15, <1>16, <1>17, RequestKeepsGap

\* One more path is read: of a request for everything, all its entries.
LEMMA ReadKeepsGap ==
    ASSUME GapInv, NEW c \in Clients, ReadNextOwner(c)
    PROVE  GapInv'
<1> DEFINE k == call[c]
           owner == Head(k.left)
           path == paths[owner]
           read == ReadOwnerPrefix(path, k.request.through, parseMode(k.request.mode))
           more == PathRecords(owner, path, read)
<1>1. /\ k.step = "reading" /\ k.left # << >>
      /\ UNCHANGED <<storeVars, subSeq, subs, channel, lost, stream, client>>
      /\ DOMAIN call = Clients /\ DOMAIN client = Clients /\ DOMAIN lost = Clients
  BY DEF ReadNextOwner, busVars, GapInv, CallsTyped
<1>2. /\ committed' = committed /\ paths' = paths /\ unpublished' = unpublished
      /\ channel' = channel /\ stream' = stream /\ lost' = lost /\ client' = client
  BY <1>1 DEF storeVars
<1>3. /\ k = [step |-> "reading", request |-> k.request, greeted |-> k.greeted, lost |-> k.lost,
              asked |-> k.asked, left |-> k.left, records |-> k.records, edges |-> k.edges]
      /\ k.request \in Requests /\ k.greeted \in BOOLEAN
      /\ k.asked \in [Range(Owners) -> Nat]
      /\ k.left \in Seq(Range(Owners)) /\ IsPath(k.records)
  <2>1. CallTyped(k)
    BY DEF GapInv, CallsTyped
  <2>2. k # NoCall
    BY <1>1 DEF NoCall
  <2> QED
    BY <2>1, <2>2 DEF CallTyped
<1>4. PICK ne : call' = [call EXCEPT ![c].left = Tail(k.left), ![c].records = k.records \o more,
                                     ![c].edges = ne]
  BY DEF ReadNextOwner
<1>5. /\ owner \in Range(Owners) /\ Tail(k.left) \in Seq(Range(Owners))
      /\ Range(k.left) = {owner} \cup Range(Tail(k.left))
  BY <1>1, <1>3, QueueElements
<1>6. path \in Seq(Ids) /\ IsPath(path)
  BY <1>5, OverOwnRange DEF GapInv, LogTyped, IsPath
<1>7. read \in SUBSET DOMAIN path
  BY DEF ReadOwnerPrefix
<1> DEFINE row == [n \in DOMAIN path |->
                     [id |-> path[n], owner |-> owner, ordinal |-> LastOrdinal(path, read, path[n])]]
<1>8. IsPath(row) /\ DOMAIN row = DOMAIN path
  <2>1. row = [n \in DOMAIN path |-> row[n]] /\ DOMAIN row = DOMAIN path
    OBVIOUS
  <2> HIDE DEF row, path
  <2> QED
    BY <1>6, <2>1, MapIsPath
<1>9. \A n \in DOMAIN path : row[n].id = path[n] /\ row[n].owner = owner
  OBVIOUS
<1>10. more = ElementsAt(row, read)
  BY DEF PathRecords
<1> HIDE DEF path, read, more, row, owner
<1>11. IsPath(more) /\ \A n \in read : \E j \in DOMAIN more : more[j] = row[n]
  <2>1. /\ IsPath(more) /\ \A j \in 1 .. Len(more) : more[j] = row[NthOf(read, j)]
        /\ \A n \in read : \E j \in 1 .. Len(more) : NthOf(read, j) = n
    BY <1>7, <1>8, <1>10, ElementsAreThose
  <2>2. DOMAIN more = 1 .. Len(more)
    BY <2>1 DEF IsPath
  <2> QED
    BY <2>1, <2>2
<1> DEFINE all == k.records \o more
           rest == Tail(k.left)
<1>12. IsPath(all) /\ Range(k.records) \cup Range(more) \subseteq Range(all)
  BY <1>3, <1>11, ConcatElements
<1>13. \A n \in read : <<owner, path[n]>> \in Recorded(all)
  BY <1>7, <1>9, <1>11, <1>12 DEF Recorded, Range
<1>14. Recorded(k.records) \subseteq Recorded(all)
  BY <1>12 DEF Recorded
<1>15. rest \in Seq(Range(Owners)) /\ Range(k.left) = {owner} \cup Range(rest)
  BY <1>5
<1>16. call' = [call EXCEPT ![c].left = rest, ![c].records = all, ![c].edges = ne]
  BY <1>4
<1> HIDE DEF all, rest, k
<1>17. /\ DOMAIN call' = Clients /\ \A d \in Clients \ {c} : call'[d] = call[d]
       /\ call'[c] = [step |-> "reading", request |-> k.request, greeted |-> k.greeted, lost |-> k.lost,
                      asked |-> k.asked, left |-> rest, records |-> all, edges |-> ne]
  <2>1. DOMAIN call' = Clients /\ \A d \in Clients \ {c} : call'[d] = call[d]
    BY <1>1, <1>16
  <2>2. call'[c] = [[[k EXCEPT !.left = rest] EXCEPT !.records = all] EXCEPT !.edges = ne]
    BY <1>1, <1>16 DEF k
  <2>3. PICK q, g, l, a, f, s, e :
          k = [step |-> "reading", request |-> q, greeted |-> g, lost |-> l, asked |-> a, left |-> f,
               records |-> s, edges |-> e]
    BY <1>3
  <2>4. k.request = q /\ k.greeted = g /\ k.lost = l /\ k.asked = a
    BY <2>3
  <2> DEFINE k1 == [k EXCEPT !.left = rest]
             k2 == [k1 EXCEPT !.records = all]
  <2>5. k1 = [step |-> "reading", request |-> q, greeted |-> g, lost |-> l, asked |-> a,
              left |-> rest, records |-> s, edges |-> e]
    BY <2>3
  <2> HIDE DEF k1
  <2>6. k2 = [step |-> "reading", request |-> q, greeted |-> g, lost |-> l, asked |-> a,
              left |-> rest, records |-> all, edges |-> e]
    BY <2>5
  <2>7. call'[c] = [k2 EXCEPT !.edges = ne]
    BY <2>2 DEF k1
  <2> HIDE DEF k2
  <2>8. call'[c] = [step |-> "reading", request |-> q, greeted |-> g, lost |-> l, asked |-> a,
                    left |-> rest, records |-> all, edges |-> ne]
    BY <2>6, <2>7
  <2> QED
    BY <2>1, <2>4, <2>8
<1>18. CallsTyped'
  <2>1. CallTyped(call'[c])
    BY <1>3, <1>12, <1>15, <1>17 DEF CallTyped
  <2> QED
    BY <1>1, <1>2, <1>17, <2>1 DEF GapInv, CallsTyped
<1>19. Reading(c)
  BY <1>1 DEF Reading, k
<1>20. ASSUME Whole(k.request), NEW p \in HeldTo(k.asked)
       PROVE  p \in Recorded(all) \/ p[1] \in Range(rest)
  <2>1. p \in Recorded(k.records) \/ p[1] \in Range(k.left)
    BY <1>19, <1>20 DEF GapInv, CallsCover, k
  <2>2. CASE p[1] = owner
    <3>1. PICK n \in 1 .. k.asked[owner] : path[n] = p[2]
      BY <1>20, <2>2 DEF HeldTo, path
    <3>2. k.asked[owner] <= Len(path)
      BY <1>5, <1>19 DEF GapInv, CallsCover, k, path
    <3>3. n \in DOMAIN path
      BY <1>3, <1>5, <1>6, <3>1, <3>2 DEF IsPath
    <3>4. read = DOMAIN path
      BY <1>5, <1>20, WholeReadsAll DEF GapInv, read, path
    <3>5. p = <<owner, path[n]>>
      BY <2>2, <3>1, <1>20 DEF HeldTo
    <3> QED
      BY <1>13, <3>3, <3>4, <3>5
  <2> QED
    BY <1>14, <1>15, <2>1, <2>2
<1>21. Reach(c)' = Reach(c)
  BY <1>2 DEF Reach, Buffered
<1>22. /\ call'[c].request = k.request /\ call'[c].greeted = k.greeted /\ call'[c].lost = k.lost
       /\ call'[c].asked = k.asked /\ call'[c].left = rest /\ call'[c].records = all
  BY <1>17
<1>23. Reading(c)' =>
         /\ call'[c].greeted => stream[c].greeted
         /\ \A o \in Range(Owners) : call'[c].asked[o] <= Len(paths[o])
         /\ call'[c].lost \subseteq HeldTo(call'[c].asked)
         /\ Whole(call'[c].request) =>
              /\ \A p \in HeldTo(call'[c].asked) :
                   p \in Recorded(call'[c].records) \/ p[1] \in Range(call'[c].left)
              /\ (call'[c].greeted /\ ~stream[c].ended) =>
                   Announced \subseteq Reach(c)' \cup HeldTo(call'[c].asked)
  <2>1. k.greeted => stream[c].greeted
    BY <1>19 DEF GapInv, HellosFollow, k
  <2>2. (\A o \in Range(Owners) : k.asked[o] <= Len(paths[o])) /\ k.lost \subseteq HeldTo(k.asked)
    BY <1>19 DEF GapInv, CallsCover, k
  <2>3. (k.greeted /\ Whole(k.request) /\ ~stream[c].ended) => Announced \subseteq Reach(c) \cup HeldTo(k.asked)
    BY <1>19 DEF GapInv, RequestsCloseTheGap, k
  <2> QED
    BY <1>20, <1>21, <1>22, <2>1, <2>2, <2>3
<1>24. client'[c].backfilled => stream[c].greeted
  BY <1>2 DEF GapInv, HellosFollow
<1>25. (client'[c].backfilled /\ ~stream[c].ended) => Announced \subseteq Reach(c)'
  BY <1>2, <1>21, MissesNothing DEF GapInv
<1> QED
  BY <1>1, <1>2, <1>17, <1>18, <1>23, <1>24, <1>25, RequestKeepsGap

\* The response: what the client knew of the gap, it now has seen.
LEMMA RespondKeepsGap ==
    ASSUME GapInv, NEW c \in Clients, Respond(c)
    PROVE  GapInv'
<1> DEFINE k == call[c]
<1>1. /\ k.step = "reading" /\ k.left = << >>
      /\ call' = [call EXCEPT ![c] = NoCall]
      /\ lost' = [lost EXCEPT ![c] = IF Whole(k.request) THEN @ \ k.lost ELSE @]
      /\ UNCHANGED <<storeVars, subSeq, subs, channel, stream>>
      /\ DOMAIN call = Clients /\ DOMAIN client = Clients /\ DOMAIN lost = Clients
  BY DEF Respond, GapInv, CallsTyped
<1>2. paths' = paths /\ unpublished' = unpublished /\ channel' = channel /\ stream' = stream
  BY <1>1 DEF storeVars
<1>3. Reading(c)
  BY <1>1 DEF Reading
<1> DEFINE view == client[c].view \cup Recorded(k.records)
           full == client[c].backfilled \/ (k.greeted /\ Whole(k.request))
<1>4. PICK r : client' = [client EXCEPT ![c].view = view, ![c].backfilled = full, ![c].response = r]
  BY DEF Respond, Recorded
<1>5. \A d \in Clients : client[d] = [asks |-> client[d].asks, view |-> client[d].view,
                                      backfilled |-> client[d].backfilled,
                                      response |-> client[d].response]
                         /\ client[d].backfilled \in BOOLEAN
  BY DEF GapInv, CallsTyped
<1>6. k.greeted \in BOOLEAN
  <2>1. CallTyped(k) /\ k # NoCall
    BY <1>1 DEF GapInv, CallsTyped, NoCall
  <2> QED
    BY <2>1 DEF CallTyped
<1>7. full \in BOOLEAN
  BY <1>5, <1>6
<1>8. /\ DOMAIN client' = Clients /\ \A d \in Clients \ {c} : client'[d] = client[d]
      /\ client'[c] = [asks |-> client[c].asks, view |-> view, backfilled |-> full, response |-> r]
  <2> HIDE DEF view, full
  <2>1. DOMAIN client' = Clients /\ \A d \in Clients \ {c} : client'[d] = client[d]
    BY <1>1, <1>4
  <2>2. client'[c] = [[[client[c] EXCEPT !.view = view] EXCEPT !.backfilled = full] EXCEPT !.response = r]
    BY <1>1, <1>4
  <2> QED
    BY <1>5, <2>1, <2>2
<1>9. call'[c] = NoCall /\ \A d \in Clients \ {c} : call'[d] = call[d] /\ lost'[d] = lost[d]
  BY <1>1
<1>10. lost'[c] = IF Whole(k.request) THEN lost[c] \ k.lost ELSE lost[c]
  BY <1>1
<1>11. client'[c].view = view /\ client'[c].backfilled = full
  BY <1>8
<1>12. CallsTyped'
  <2>1. DOMAIN call' = Clients /\ DOMAIN lost' = Clients
    BY <1>1
  <2> HIDE DEF view, full
  <2> QED
    BY <1>7, <1>8, <1>9, <2>1 DEF GapInv, CallsTyped, CallTyped
<1>13. ~Reading(c)'
  BY <1>9 DEF Reading, NoCall
<1>14. /\ k.lost \subseteq HeldTo(k.asked)
       /\ Whole(k.request) => HeldTo(k.asked) \subseteq view
  <2>1. Range(k.left) = {}
    BY <1>1 DEF Range
  <2> QED
    BY <1>3, <2>1 DEF GapInv, CallsCover
<1>15. full => stream[c].greeted
  BY <1>3 DEF GapInv, HellosFollow
<1> DEFINE coming == PlacesOf(Buffered(c) \cup Range(unpublished))
<1>16. Reach(c) = client[c].view \cup lost[c] \cup coming /\ Reach(c)' = view \cup lost'[c] \cup coming
  BY <1>2, <1>11 DEF Reach, Buffered
<1>17. Reach(c) \subseteq Reach(c)'
  <2> HIDE DEF coming
  <2> QED
    BY <1>10, <1>14, <1>16
<1>18. ASSUME full, ~stream[c].ended PROVE Announced \subseteq Reach(c)'
  <2>1. CASE client[c].backfilled
    BY <1>17, <1>18, <2>1, MissesNothing DEF GapInv
  <2>2. CASE k.greeted /\ Whole(k.request)
    <3>1. Announced \subseteq Reach(c) \cup HeldTo(k.asked)
      BY <1>3, <1>18, <2>2 DEF GapInv, RequestsCloseTheGap
    <3>2. HeldTo(k.asked) \subseteq Reach(c)'
      BY <1>14, <1>16, <2>2
    <3> QED
      BY <1>17, <3>1, <3>2
  <2> QED
    BY <1>18, <2>1, <2>2
<1> HIDE DEF full, view, k
<1>19. lost'[c] \subseteq lost[c]
  BY <1>10
<1> QED
  BY <1>1, <1>8, <1>9, <1>11, <1>12, <1>13, <1>15, <1>18, <1>19, RequestKeepsGap

\* Every step keeps the gap closed.
LEMMA NextKeepsGap == GapInv /\ [Next]_vars => GapInv'
<1> SUFFICES ASSUME GapInv, [Next]_vars PROVE GapInv'
  OBVIOUS
<1>1. CASE \E b \in Batches : Commit(b)
  BY <1>1, CommitKeepsGap
<1>2. CASE PublishNext
  BY <1>2, PublishKeepsGap
<1>3. ASSUME NEW c \in Clients, NameStream(c) \/ StreamStep(c) \/ EndStream(c) PROVE GapInv'
  BY <1>3, StreamsKeepGap, DeliverKeepsGap DEF StreamStep
<1>4. ASSUME NEW c \in Clients, (\E q \in Requests : AskRecords(c, q)) \/ ReadNextOwner(c) \/ Respond(c)
      PROVE  GapInv'
  BY <1>4, AskKeepsGap, ReadKeepsGap, RespondKeepsGap
<1>5. CASE UNCHANGED vars
  <2>1. StreamsInv'
    BY <1>5, OthersKeepStreams DEF vars, busVars, GapInv
  <2> QED
    BY <1>5, <2>1, HandlerKeepsGap DEF vars, busVars, GapInv, HellosFollow
<1> QED
  BY <1>1, <1>2, <1>3, <1>4, <1>5 DEF Next

\* doc.go:30: a client that reads everything once its stream has said hello misses nothing
\* from then on, however requests, batches, events and other streams interleave: what is
\* committed it has seen, or will be sent, or was dropped since it last read everything.
THEOREM BackfilledClientsAreComplete == Spec => []BackfilledClientMissesNothing
<1>1. GapInv => BackfilledClientMissesNothing
  BY DEF GapInv
<1> QED
  BY <1>1, InitGapInv, NextKeepsGap, PTL DEF Spec

-----------------------------------------------------------------------------
\* A list of paths, flattened, holds what they hold.
LEMMA FlatElements ==
    ASSUME NEW ss, IsPath(ss), \A i \in DOMAIN ss : IsPath(ss[i])
    PROVE  /\ IsPath(FlattenSeq(ss))
           /\ Range(FlattenSeq(ss)) = UNION {Range(ss[i]) : i \in DOMAIN ss}
<1> DEFINE N == Len(ss)
<1>1. N \in Nat /\ DOMAIN ss = 1 .. N
  BY DEF IsPath
<1>2. CASE N = 0
  <2>1. FlattenSeq(ss) = ss /\ DOMAIN ss = {}
    BY <1>1, <1>2 DEF FlattenSeq
  <2> QED
    BY <2>1 DEF Range
<1>3. CASE N # 0
  <2> DEFINE Solves(f, n) == f = [i \in 1 .. n |-> IF i = 1 THEN ss[i] ELSE f[i - 1] \o ss[i]]
             Some == {n \in Nat : \E f : Solves(f, n)}
  <2>1. 0 \in Some
    <3> DEFINE g == [i \in 1 .. 0 |-> ss[i]]
    <3>1. Solves(g, 0)
      OBVIOUS
    <3> QED
      BY <3>1
  <2>2. ASSUME NEW n \in Nat, n \in Some PROVE n + 1 \in Some
    <3>1. PICK f : Solves(f, n)
      BY <2>2
    <3> DEFINE x == IF n + 1 = 1 THEN ss[n + 1] ELSE f[n] \o ss[n + 1]
               g == [i \in 1 .. n + 1 |-> IF i = n + 1 THEN x ELSE f[i]]
               h == [i \in 1 .. n + 1 |-> IF i = 1 THEN ss[i] ELSE g[i - 1] \o ss[i]]
    <3>2. \A i \in 1 .. n : f[i] = IF i = 1 THEN ss[i] ELSE f[i - 1] \o ss[i]
      BY <3>1
    <3>3. \A i \in 1 .. n + 1 : g[i] = h[i]
      <4> TAKE i \in 1 .. n + 1
      <4>1. h[i] = IF i = 1 THEN ss[i] ELSE g[i - 1] \o ss[i]
        OBVIOUS
      <4>2. g[i] = IF i = n + 1 THEN x ELSE f[i]
        OBVIOUS
      <4>3. i # 1 => i - 1 \in 1 .. n /\ g[i - 1] = f[i - 1]
        OBVIOUS
      <4>4. i # n + 1 => i \in 1 .. n
        OBVIOUS
      <4>5. i = n + 1 => i - 1 = n
        OBVIOUS
      <4> HIDE DEF g, h
      <4> QED
        BY <3>2, <4>1, <4>2, <4>3, <4>4, <4>5
    <3>4. g = h
      <4>1. g = [i \in 1 .. n + 1 |-> g[i]] /\ h = [i \in 1 .. n + 1 |-> h[i]]
        OBVIOUS
      <4> HIDE DEF g, h
      <4> QED
        BY <3>3, <4>1
    <3>5. Solves(g, n + 1)
      BY <3>4
    <3> HIDE DEF Solves, g
    <3> QED
      BY <3>5
  <2> DEFINE flatten == CHOOSE f : Solves(f, N)
  <2>3. Nat \subseteq Some
    <3> HIDE DEF Some
    <3> QED
      BY <2>1, <2>2, CountingUp
  <2>4. Solves(flatten, N)
    <3>1. \E f : Solves(f, N)
      BY <1>1, <2>3
    <3> HIDE DEF Solves
    <3> QED
      BY <3>1
  <2>5. FlattenSeq(ss) = flatten[N]
    BY <1>3 DEF FlattenSeq
  <2>6. \A i \in 1 .. N : flatten[i] = IF i = 1 THEN ss[i] ELSE flatten[i - 1] \o ss[i]
    <3> HIDE DEF flatten
    <3> QED
      BY <2>4
  <2> HIDE DEF flatten, Solves, Some, N
  <2> DEFINE Upto(n) == UNION {Range(ss[i]) : i \in 1 .. n}
             Good == {n \in Nat : n \in 1 .. N => IsPath(flatten[n]) /\ Range(flatten[n]) = Upto(n)}
  <2>7. 0 \in Good
    OBVIOUS
  <2>8. ASSUME NEW n \in Nat, n \in Good PROVE n + 1 \in Good
    <3> SUFFICES ASSUME n + 1 \in 1 .. N
                 PROVE  IsPath(flatten[n + 1]) /\ Range(flatten[n + 1]) = Upto(n + 1)
      OBVIOUS
    <3>1. IsPath(ss[n + 1])
      BY <1>1
    <3>2. CASE n = 0
      <4>1. flatten[n + 1] = ss[n + 1]
        BY <2>6, <3>2
      <4>2. 1 .. n + 1 = {n + 1}
        BY <3>2
      <4> QED
        BY <3>1, <4>1, <4>2
    <3>3. CASE n # 0
      <4>1. n \in 1 .. N /\ n + 1 # 1 /\ (n + 1) - 1 = n
        BY <1>1, <3>3
      <4>2. flatten[n + 1] = flatten[n] \o ss[n + 1]
        BY <2>6, <4>1
      <4>3. IsPath(flatten[n]) /\ Range(flatten[n]) = Upto(n)
        BY <2>8, <4>1
      <4>4. IsPath(flatten[n + 1]) /\ Range(flatten[n + 1]) = Upto(n) \cup Range(ss[n + 1])
        BY <3>1, <4>2, <4>3, JoinedElements
      <4>5. Upto(n + 1) = Upto(n) \cup Range(ss[n + 1])
        <5>1. 1 .. n + 1 = (1 .. n) \cup {n + 1}
          OBVIOUS
        <5> QED
          BY <5>1
      <4> QED
        BY <4>4, <4>5
    <3> QED
      BY <3>2, <3>3
  <2>9. Nat \subseteq Good
    <3> HIDE DEF Good
    <3> QED
      BY <2>7, <2>8, CountingUp
  <2>10. N \in 1 .. N
    BY <1>1, <1>3
  <2> QED
    BY <1>1, <2>5, <2>9, <2>10 DEF N
<1> QED
  BY <1>2, <1>3

\* Rows of other owners do not show in what an owner's rows are.
LEMMA OthersRows ==
    ASSUME NEW s, NEW t, IsPath(s), IsPath(t), NEW o, \A k \in DOMAIN t : t[k].owner # o
    PROVE  OwnedBy(s \o t, o) = OwnedBy(s, o)
<1> DEFINE I == {k \in DOMAIN s : s[k].owner = o}
           J == {k \in DOMAIN (s \o t) : (s \o t)[k].owner = o}
           u == s \o t
<1>1. /\ IsPath(u) /\ Len(u) = Len(s) + Len(t) /\ Len(s) \in Nat /\ Len(t) \in Nat
      /\ \A k \in 1 .. Len(s) : u[k] = s[k]
      /\ \A k \in 1 .. Len(t) : u[Len(s) + k] = t[k]
  BY JoinedElements
<1>2. DOMAIN s = 1 .. Len(s) /\ DOMAIN t = 1 .. Len(t) /\ DOMAIN u = 1 .. Len(s) + Len(t)
  BY <1>1 DEF IsPath
<1> HIDE DEF u
<1>3. ASSUME NEW k \in DOMAIN u PROVE u[k].owner = o <=> k \in DOMAIN s /\ s[k].owner = o
  <2>1. CASE k <= Len(s)
    <3>1. k \in 1 .. Len(s)
      BY <1>1, <1>2, <2>1
    <3>2. k \in DOMAIN s /\ u[k] = s[k]
      BY <1>1, <1>2, <3>1
    <3> QED
      BY <3>2
  <2>2. CASE ~(k <= Len(s))
    <3>1. k - Len(s) \in 1 .. Len(t) /\ Len(s) + (k - Len(s)) = k /\ k \notin DOMAIN s
      BY <1>1, <1>2, <2>2
    <3>2. u[k] = t[k - Len(s)]
      BY <1>1, <3>1
    <3> QED
      BY <1>2, <3>1, <3>2
  <2> QED
    BY <2>1, <2>2
<1>4. DOMAIN s \subseteq DOMAIN u
  BY <1>1, <1>2
<1>5. J = I
  BY <1>3, <1>4 DEF u
<1>6. \A i \in I : s[i] = u[i]
  BY <1>1, <1>2
<1>7. I \in SUBSET DOMAIN s
  OBVIOUS
<1> HIDE DEF I, J
<1>8. ElementsAt(s, I) = ElementsAt(u, I)
  BY <1>6, <1>7, SameSelection
<1> QED
  BY <1>5, <1>8 DEF OwnedBy, u, I, J

\* The rows of an owner that had none are those that are added.
LEMMA OwnRows ==
    ASSUME NEW s, NEW t, IsPath(s), IsPath(t), NEW o,
           \A k \in DOMAIN s : s[k].owner # o, \A k \in DOMAIN t : t[k].owner = o
    PROVE  OwnedBy(s \o t, o) = t
<1> DEFINE u == s \o t
           J == {k \in DOMAIN u : u[k].owner = o}
           h == [k \in 1 .. Len(t) |-> Len(s) + k]
<1>1. /\ IsPath(u) /\ Len(u) = Len(s) + Len(t) /\ Len(s) \in Nat /\ Len(t) \in Nat
      /\ \A k \in 1 .. Len(s) : u[k] = s[k]
      /\ \A k \in 1 .. Len(t) : u[Len(s) + k] = t[k]
  BY JoinedElements
<1>2. DOMAIN s = 1 .. Len(s) /\ DOMAIN t = 1 .. Len(t) /\ DOMAIN u = 1 .. Len(s) + Len(t)
      /\ t = [k \in 1 .. Len(t) |-> t[k]]
  BY <1>1 DEF IsPath
<1> HIDE DEF u
<1>3. \A k \in 1 .. Len(t) : Len(s) + k \in J
  BY <1>1, <1>2
<1>4. ASSUME NEW i \in J PROVE \E k \in 1 .. Len(t) : h[k] = i
  <2>1. i \in 1 .. Len(s) + Len(t) /\ u[i].owner = o
    BY <1>2
  <2>2. ~(i <= Len(s))
    <3> SUFFICES ASSUME i <= Len(s) PROVE FALSE
      OBVIOUS
    <3>1. i \in 1 .. Len(s)
      BY <1>1, <2>1
    <3> QED
      BY <1>1, <1>2, <2>1, <3>1
  <2>3. i - Len(s) \in 1 .. Len(t) /\ Len(s) + (i - Len(s)) = i
    BY <1>1, <2>1, <2>2
  <2> QED
    BY <2>3
<1>5. J \in SUBSET Nat
  BY <1>1, <1>2
<1>6. h \in [1 .. Len(t) -> J]
  BY <1>3
<1>7. \A k, m \in 1 .. Len(t) : k < m => h[k] < h[m]
  BY <1>1
<1>8. \A k \in 1 .. Len(t) : h[k] = Len(s) + k
  OBVIOUS
<1> HIDE DEF h, J
<1>9. Cardinality(J) = Len(t) /\ \A k \in 1 .. Len(t) : NthOf(J, k) = h[k]
  BY <1>1, <1>4, <1>5, <1>6, <1>7, Numbered
<1>10. \A k \in 1 .. Len(t) : u[NthOf(J, k)] = t[k]
  BY <1>1, <1>8, <1>9
<1>11. ElementsAt(u, J) = [k \in 1 .. Len(t) |-> t[k]]
  BY <1>9, <1>10 DEF ElementsAt
<1> QED
  BY <1>2, <1>11 DEF OwnedBy, u, J

\* The part of a path of n entries that a request may show.
CutAt(q, n) == IF n <= q.through THEN n ELSE q.through + 1

\* The edges between facts that are shown together.
EdgesOn(ids) == {e \in ids \X ids : e[1] \in Range(CausedBy[e[2]])}

\* The owners that a request shows something of, if it shows all that was there at first.
Due(q, asked) ==
    {o \in Range(Owners) : pathMatches(q.path, o) /\ Wanted(q, o, CutAt(q, asked[o])) # << >>}

\* What a read of one path adds to the records are rows of that owner, with the ids read.
LEMMA RowsRead ==
    ASSUME NEW path, IsPath(path), NEW read \in SUBSET DOMAIN path, NEW owner
    PROVE  LET more == PathRecords(owner, path, read)
           IN  /\ IsPath(more)
               /\ \A k \in DOMAIN more : more[k].owner = owner
               /\ IdsOf(more) = ElementsAt(path, read)
<1> DEFINE row == [n \in DOMAIN path |->
                     [id |-> path[n], owner |-> owner, ordinal |-> LastOrdinal(path, read, path[n])]]
           more == PathRecords(owner, path, read)
<1>1. IsPath(row) /\ DOMAIN row = DOMAIN path
  <2>1. row = [n \in DOMAIN path |-> row[n]] /\ DOMAIN row = DOMAIN path
    OBVIOUS
  <2> HIDE DEF row
  <2> QED
    BY <2>1, MapIsPath
<1>2. \A n \in DOMAIN path : row[n].id = path[n] /\ row[n].owner = owner
  OBVIOUS
<1>3. more = ElementsAt(row, read)
  BY DEF PathRecords
<1> HIDE DEF row, more
<1>4. /\ IsPath(more) /\ Len(more) = Cardinality(read)
      /\ \A k \in 1 .. Len(more) : NthOf(read, k) \in read /\ more[k] = row[NthOf(read, k)]
  BY <1>1, <1>3, ElementsAreThose
<1>5. DOMAIN more = 1 .. Len(more)
  BY <1>4 DEF IsPath
<1>6. \A k \in DOMAIN more : more[k].owner = owner /\ more[k].id = path[NthOf(read, k)]
  BY <1>2, <1>4, <1>5
<1>7. IdsOf(more) = [k \in 1 .. Cardinality(read) |-> path[NthOf(read, k)]]
  BY <1>4, <1>5, <1>6 DEF IdsOf
<1> QED
  BY <1>4, <1>6, <1>7 DEF ElementsAt, more

\* What a read of a path takes is what the request wants of all that is there.
LEMMA ReadIsWanted ==
    ASSUME NEW q, q.through \in Nat, NEW o, IsPath(paths[o])
    PROVE  LET read == ReadOwnerPrefix(paths[o], q.through, parseMode(q.mode))
           IN  /\ read \in SUBSET DOMAIN paths[o]
               /\ ElementsAt(paths[o], read) = Wanted(q, o, CutAt(q, Len(paths[o])))
<1> DEFINE path == paths[o]
           m == parseMode(q.mode)
           read == ReadOwnerPrefix(path, q.through, m)
           wanted == {k \in 1 .. CutAt(q, Len(path)) : ModeAdmits(m, path[k])}
<1>1. Len(path) \in Nat /\ DOMAIN path = 1 .. Len(path)
  BY DEF IsPath
<1>2. \A k \in Nat : k \in 1 .. CutAt(q, Len(path)) <=> k \in 1 .. Len(path) /\ k - 1 <= q.through
  BY <1>1 DEF CutAt
<1>3. read = {k \in 1 .. Len(path) : k - 1 <= q.through /\ ModeAdmits(m, path[k])}
  BY <1>1 DEF ReadOwnerPrefix
<1>4. \A k : k \in read <=> k \in wanted
  <2> HIDE DEF path, m, read
  <2>1. \A k : k \in 1 .. Len(path) => k \in Nat
    BY <1>1
  <2>2. \A k : k \in 1 .. CutAt(q, Len(path)) => k \in Nat
    BY <1>1 DEF CutAt
  <2> QED
    BY <1>2, <1>3, <2>1, <2>2
<1>5. read = wanted
  BY <1>4
<1> QED
  BY <1>1, <1>3, <1>5 DEF Wanted

\* What is wanted of the first entries of a path remains so while it grows.
LEMMA WantedStays ==
    ASSUME NEW q, NEW o, IsPath(paths[o]), Continues(paths[o], paths'[o]),
           NEW n \in Nat, n <= Len(paths[o])
    PROVE  Wanted(q, o, n)' = Wanted(q, o, n)
<1> DEFINE m == parseMode(q.mode)
           old == paths[o]
           new == paths'[o]
           I == {k \in 1 .. n : ModeAdmits(m, old[k])}
           J == {k \in 1 .. n : ModeAdmits(m, new[k])}
<1>1. DOMAIN old = 1 .. Len(old) /\ Len(old) \in Nat /\ \A k \in 1 .. Len(old) : new[k] = old[k]
  BY DEF IsPath, Continues
<1>2. \A k \in 1 .. n : k \in DOMAIN old /\ new[k] = old[k]
  BY <1>1
<1>3. I = J /\ I \in SUBSET DOMAIN old /\ \A k \in I : old[k] = new[k]
  BY <1>2
<1>4. Wanted(q, o, n) = ElementsAt(old, I) /\ Wanted(q, o, n)' = ElementsAt(new, J)
  BY DEF Wanted
<1> HIDE DEF I, J
<1> QED
  BY <1>3, <1>4, SameSelection

\* The edges of one slice are those between the facts it shows.
LEMMA EdgesRead ==
    ASSUME NEW path \in Seq(Ids), NEW read \in SUBSET DOMAIN path
    PROVE  /\ IsPath(PathEdges(path, read))
           /\ Range(PathEdges(path, read)) = EdgesOn({path[k] : k \in read})
<1> DEFINE ids == {path[k] : k \in read}
           Inside(id) == {i \in DOMAIN CausedBy[id] : CausedBy[id][i] \in ids}
           In(id) == ElementsAt(CausedBy[id], Inside(id))
           EdgesOf(id) == [i \in DOMAIN In(id) |-> <<In(id)[i], id>>]
           lists == [k \in DOMAIN path |-> IF k \in read THEN EdgesOf(path[k]) ELSE << >>]
<1>1. PathEdges(path, read) = FlattenSeq(lists)
  BY DEF PathEdges
<1>2. ASSUME NEW id \in Ids
      PROVE  IsPath(EdgesOf(id)) /\ Range(EdgesOf(id)) = {<<x, id>> : x \in ids \cap Range(CausedBy[id])}
  <2>1. IsPath(CausedBy[id])
    <3>1. CausedBy[id] \in Seq(Ids)
      BY UIAssumption
    <3> QED
      BY <3>1, OverOwnRange DEF IsPath
  <2>2. Inside(id) \in SUBSET DOMAIN CausedBy[id]
    OBVIOUS
  <2>3. Range(In(id)) = {CausedBy[id][i] : i \in Inside(id)} /\ IsPath(In(id))
    <3> HIDE DEF Inside
    <3> QED
      BY <2>1, <2>2, SelectedRange, SelectionIsPath
  <2>4. Range(In(id)) = ids \cap Range(CausedBy[id])
    BY <2>3 DEF Range
  <2> DEFINE in == In(id)
             e == EdgesOf(id)
  <2>5. e = [i \in DOMAIN in |-> e[i]] /\ DOMAIN e = DOMAIN in /\ \A i \in DOMAIN in : e[i] = <<in[i], id>>
    OBVIOUS
  <2> HIDE DEF in, e
  <2>6. IsPath(in) /\ Range(in) = ids \cap Range(CausedBy[id])
    BY <2>3, <2>4 DEF in
  <2>7. IsPath(e)
    BY <2>5, <2>6, MapIsPath
  <2>8. Range(e) = {<<x, id>> : x \in Range(in)}
    BY <2>5 DEF Range
  <2>9. Range(e) = {<<x, id>> : x \in ids \cap Range(CausedBy[id])}
    BY <2>6, <2>8
  <2> QED
    BY <2>7, <2>9 DEF e
<1>3. IsPath(path) /\ \A k \in DOMAIN path : path[k] \in Ids
  BY OverOwnRange DEF IsPath
<1> HIDE DEF EdgesOf
<1>4. lists = [k \in DOMAIN path |-> lists[k]] /\ DOMAIN lists = DOMAIN path
      /\ \A k \in DOMAIN path : lists[k] = IF k \in read THEN EdgesOf(path[k]) ELSE << >>
  OBVIOUS
<1> HIDE DEF lists, ids
<1>5. IsPath(lists)
  BY <1>3, <1>4, MapIsPath
<1>6. IsPath(<< >>) /\ Range(<< >>) = {}
  BY DEF IsPath, Range
<1>7. \A k \in DOMAIN lists : IsPath(lists[k])
  BY <1>2, <1>3, <1>4, <1>6
<1>8. IsPath(FlattenSeq(lists)) /\ Range(FlattenSeq(lists)) = UNION {Range(lists[k]) : k \in DOMAIN lists}
  BY <1>5, <1>7, FlatElements
<1>9. \A k \in DOMAIN lists :
        Range(lists[k]) = IF k \in read THEN {<<x, path[k]>> : x \in ids \cap Range(CausedBy[path[k]])} ELSE {}
  BY <1>2, <1>3, <1>4, <1>6
<1>10. UNION {Range(lists[k]) : k \in DOMAIN lists} \subseteq EdgesOn(ids)
  <2> SUFFICES ASSUME NEW k \in DOMAIN lists, NEW e \in Range(lists[k]) PROVE e \in EdgesOn(ids)
    OBVIOUS
  <2>1. k \in read
    BY <1>9
  <2>2. path[k] \in ids
    BY <2>1 DEF ids
  <2>3. PICK x \in ids \cap Range(CausedBy[path[k]]) : e = <<x, path[k]>>
    BY <1>9, <2>1
  <2> QED
    BY <2>2, <2>3 DEF EdgesOn
<1>11. EdgesOn(ids) \subseteq UNION {Range(lists[k]) : k \in DOMAIN lists}
  <2> SUFFICES ASSUME NEW e \in EdgesOn(ids) PROVE \E k \in DOMAIN lists : e \in Range(lists[k])
    OBVIOUS
  <2>1. PICK x \in ids, y \in ids : e = <<x, y>> /\ x \in Range(CausedBy[y])
    BY DEF EdgesOn
  <2>2. PICK k \in read : y = path[k]
    BY DEF ids
  <2>3. k \in DOMAIN lists
    BY <1>4
  <2>4. e \in {<<z, path[k]>> : z \in ids \cap Range(CausedBy[path[k]])}
    BY <2>1, <2>2
  <2> QED
    BY <1>9, <2>2, <2>3, <2>4
<1> QED
  BY <1>1, <1>8, <1>10, <1>11 DEF ids

\* Edges that are already there, or came twice, are not added again.
LEMMA EdgesAdded ==
    ASSUME NEW edges, NEW more, IsPath(edges), IsInjective(edges), IsPath(more)
    PROVE  /\ IsPath(NewEdges(edges, more)) /\ IsInjective(NewEdges(edges, more))
           /\ Range(NewEdges(edges, more)) = Range(edges) \cup Range(more)
<1> DEFINE I == {k \in DOMAIN more : /\ more[k] \notin Range(edges)
                                     /\ \A j \in 1 .. k - 1 : more[j] # more[k]}
           new == ElementsAt(more, I)
           all == edges \o new
<1>1. I \in SUBSET DOMAIN more
  OBVIOUS
<1>2. DOMAIN more = 1 .. Len(more) /\ Len(more) \in Nat
  BY DEF IsPath
<1>3. \A k \in I : more[k] \notin Range(edges) /\ \A j \in 1 .. k - 1 : more[j] # more[k]
  OBVIOUS
<1>4. ASSUME NEW e \in Range(more), e \notin Range(edges) PROVE \E k \in I : more[k] = e
  <2> DEFINE at == {k \in DOMAIN more : more[k] = e}
  <2>1. at \in SUBSET Nat /\ at # {}
    BY <1>2 DEF Range
  <2>2. PICK k \in at : \A j \in at : k <= j
    <3> HIDE DEF at
    <3> QED
      BY <2>1, LeastExists
  <2>3. k \in 1 .. Len(more) /\ more[k] = e
    BY <1>2
  <2>4. ASSUME NEW j \in 1 .. k - 1 PROVE more[j] # more[k]
    <3>1. j \in DOMAIN more /\ ~(k <= j)
      BY <1>2, <2>3
    <3> QED
      BY <2>2, <2>3, <3>1
  <2> QED
    BY <1>2, <1>4, <2>3, <2>4
<1> HIDE DEF I
<1>5. IsPath(new) /\ Range(new) = {more[k] : k \in I}
  BY <1>1, SelectedRange, SelectionIsPath
<1>6. /\ Len(new) \in Nat /\ DOMAIN new = 1 .. Len(new)
      /\ \A k \in 1 .. Len(new) : NthOf(I, k) \in I /\ new[k] = more[NthOf(I, k)]
      /\ \A k, m \in 1 .. Len(new) : k < m => NthOf(I, k) < NthOf(I, m)
  <2>1. DOMAIN new = 1 .. Len(new) /\ Len(new) \in Nat
    BY <1>5 DEF IsPath
  <2> QED
    BY <1>1, <2>1, ElementsAreThose
<1> HIDE DEF new
<1>7. /\ IsPath(all) /\ Len(all) = Len(edges) + Len(new) /\ Len(edges) \in Nat
      /\ \A k \in 1 .. Len(edges) : all[k] = edges[k]
      /\ \A k \in 1 .. Len(new) : all[Len(edges) + k] = new[k]
      /\ Range(all) = Range(edges) \cup Range(new)
  BY <1>5, JoinedElements
<1> HIDE DEF all
<1>8. DOMAIN all = 1 .. Len(edges) + Len(new) /\ DOMAIN edges = 1 .. Len(edges)
  BY <1>7 DEF IsPath
<1>9. Range(all) = Range(edges) \cup Range(more)
  <2>1. Range(new) \subseteq Range(more)
    BY <1>1, <1>5 DEF Range
  <2>2. Range(more) \subseteq Range(edges) \cup Range(new)
    BY <1>4, <1>5
  <2> QED
    BY <1>7, <2>1, <2>2
<1>10. ASSUME NEW k \in 1 .. Len(new), NEW m \in 1 .. Len(new), k < m PROVE new[k] # new[m]
  <2>1. NthOf(I, k) \in I /\ NthOf(I, m) \in I /\ NthOf(I, k) < NthOf(I, m)
    BY <1>6, <1>10
  <2>2. NthOf(I, k) \in 1 .. NthOf(I, m) - 1
    BY <1>1, <1>2, <2>1
  <2> QED
    BY <1>3, <1>6, <2>1, <2>2
<1>11. \A k \in 1 .. Len(new) : new[k] \notin Range(edges)
  BY <1>3, <1>6
<1>12. ASSUME NEW a \in DOMAIN all, NEW b \in DOMAIN all, a < b PROVE all[a] # all[b]
  <2>1. CASE b <= Len(edges)
    <3>1. a \in DOMAIN edges /\ b \in DOMAIN edges /\ a # b
      BY <1>7, <1>8, <1>12, <2>1
    <3> QED
      BY <1>7, <1>8, <3>1 DEF IsInjective
  <2>2. CASE a <= Len(edges) /\ ~(b <= Len(edges))
    <3>1. a \in DOMAIN edges /\ b - Len(edges) \in 1 .. Len(new) /\ Len(edges) + (b - Len(edges)) = b
      BY <1>6, <1>7, <1>8, <2>2
    <3>2. all[a] \in Range(edges) /\ all[b] = new[b - Len(edges)]
      BY <1>7, <1>8, <3>1 DEF Range
    <3> QED
      BY <1>11, <3>1, <3>2
  <2>3. CASE ~(a <= Len(edges))
    <3> DEFINE k == a - Len(edges)
               m == b - Len(edges)
    <3>1. /\ k \in 1 .. Len(new) /\ m \in 1 .. Len(new) /\ k < m
          /\ Len(edges) + k = a /\ Len(edges) + m = b
      <4>1. /\ a \in 1 .. Len(edges) + Len(new) /\ b \in 1 .. Len(edges) + Len(new)
            /\ Len(edges) \in Nat /\ Len(new) \in Nat
        BY <1>6, <1>7, <1>8
      <4> QED
        BY <1>12, <2>3, <4>1
    <3>2. all[a] = new[k] /\ all[b] = new[m]
      BY <1>7, <3>1
    <3> QED
      BY <1>10, <3>1, <3>2
  <2> QED
    BY <1>7, <1>8, <1>12, <2>1, <2>2, <2>3
<1>13. IsInjective(all)
  <2> SUFFICES ASSUME NEW a \in DOMAIN all, NEW b \in DOMAIN all, a # b PROVE all[a] # all[b]
    BY DEF IsInjective
  <2>1. a < b \/ b < a
    BY <1>6, <1>7, <1>8
  <2> QED
    BY <1>12, <2>1
<1>14. NewEdges(edges, more) = all
  BY DEF NewEdges, all, new, I
<1> QED
  BY <1>7, <1>9, <1>13, <1>14

-----------------------------------------------------------------------------
\* A request that was admitted, and how long the paths were when it came.
Admitted(q, asked) ==
    /\ q \in Requests /\ q.through \in Nat
    /\ asked \in [Range(Owners) -> Nat]
    /\ \A o \in Range(Owners) : asked[o] <= Len(paths[o])

\* The rows are those of some of the owners, each as its path was at some moment since the
\* request came, and the edges are those between the facts that one of them shows.
Told(q, asked, records, edges, done) ==
    /\ IsPath(records)
    /\ \A k \in DOMAIN records : records[k].owner \in done
    /\ \A o \in done :
         \E n \in asked[o] .. Len(paths[o]) : IdsOf(OwnedBy(records, o)) = Wanted(q, o, CutAt(q, n))
    /\ IsPath(edges) /\ IsInjective(edges)
    /\ Range(edges) = UNION {EdgesOn(Range(IdsOf(OwnedBy(records, o)))) : o \in done}

\* A request under way has told of the owners that it will not read any more.
Telling(k) ==
    /\ Admitted(k.request, k.asked)
    /\ IsInjective(k.left)
    /\ Range(k.left) \subseteq Due(k.request, k.asked)
    /\ Told(k.request, k.asked, k.records, k.edges, Due(k.request, k.asked) \ Range(k.left))

\* A response has told of them all.
ToldAll(r) ==
    /\ Admitted(r.request, r.asked)
    /\ Told(r.request, r.asked, r.records, r.causal_edges, Due(r.request, r.asked))

Calls == {call[c] : c \in Clients}
Responses == {client[c].response : c \in Clients}

TellInv ==
    /\ \A k \in Calls : k.step = "reading" => Telling(k)
    /\ \A r \in Responses : r.status = "ok" => ToldAll(r)

-----------------------------------------------------------------------------
\* What a string prefix with a delimiter finds is what descends from a path.
LEMMA SubtreeIsAncestry ==
    ASSUME NEW prefix \in Seq(STRING), NEW owner \in Seq(STRING)
    PROVE  pathMatches(prefix, owner) <=> prefix = << >> \/ prefix \in Ancestry(owner)
<1> DEFINE n == Len(prefix)
           x == ":"
           u == prefix \o <<x>>
<1> HIDE DEF x
<1>1. /\ n \in Nat /\ Len(owner) \in Nat /\ DOMAIN owner = 1 .. Len(owner)
      /\ prefix = [i \in 1 .. n |-> prefix[i]]
  OBVIOUS
<1>2. /\ IsPath(u) /\ Len(u) = n + 1 /\ u[n + 1] = x
      /\ \A i \in 1 .. n : u[i] = prefix[i]
  <2>1. IsPath(prefix)
    BY OverOwnRange DEF IsPath
  <2>2. IsPath(<<x>>) /\ Len(<<x>>) = 1 /\ <<x>>[1] = x
    BY DEF IsPath, Range
  <2> QED
    BY <2>1, <2>2, OneJoined
<1> HIDE DEF u, n
<1>3. SubSeq(u, 1, n + 1) = [i \in 1 .. n + 1 |-> u[i]]
  BY <1>1, <1>2 DEF IsPath
<1>4. ASSUME n + 1 <= Len(owner)
      PROVE  /\ SubSeq(owner, 1, n + 1) = [i \in 1 .. n + 1 |-> owner[i]]
             /\ SubSeq(owner, 1, n) = [i \in 1 .. n |-> owner[i]]
  BY <1>1, <1>4
<1>5. IsPrefix(u, owner) <=> n + 1 <= Len(owner) /\ SubSeq(u, 1, n + 1) = SubSeq(owner, 1, n + 1)
  BY <1>2 DEF IsPrefix
<1>6. ASSUME IsPrefix(u, owner) PROVE prefix \in Ancestry(owner)
  <2>1. \A i \in 1 .. n + 1 : u[i] = owner[i]
    <3>1. [i \in 1 .. n + 1 |-> u[i]] = [i \in 1 .. n + 1 |-> owner[i]]
      BY <1>3, <1>4, <1>5, <1>6
    <3> DEFINE f == [i \in 1 .. n + 1 |-> u[i]]
               g == [i \in 1 .. n + 1 |-> owner[i]]
    <3>2. \A i \in 1 .. n + 1 : f[i] = u[i] /\ g[i] = owner[i]
      OBVIOUS
    <3>3. f = g
      BY <3>1
    <3> HIDE DEF f, g
    <3> QED
      BY <3>2, <3>3
  <2>2. n + 1 \in DOMAIN owner /\ owner[n + 1] = x
    BY <1>1, <1>2, <1>5, <1>6, <2>1
  <2>3. \A i \in 1 .. n : owner[i] = prefix[i]
    BY <1>1, <1>2, <2>1
  <2>4. prefix = [i \in 1 .. n |-> owner[i]]
    BY <1>1, <2>3
  <2>5. prefix = SubSeq(owner, 1, (n + 1) - 1)
    <3>1. (n + 1) - 1 = n
      BY <1>1
    <3> QED
      BY <1>4, <1>5, <1>6, <2>4, <3>1
  <2> QED
    BY <2>2, <2>5 DEF Ancestry, x
<1>7. ASSUME NEW k \in DOMAIN owner, owner[k] = x, prefix = SubSeq(owner, 1, k - 1)
      PROVE  IsPrefix(u, owner)
  <2>1. k \in Nat /\ k >= 1 /\ k <= Len(owner) /\ k - 1 \in Nat
    BY <1>1
  <2>2. SubSeq(owner, 1, k - 1) = [i \in 1 .. k - 1 |-> owner[i]]
    BY <2>1
  <2>3. n = k - 1
    BY <1>7, <2>1 DEF n
  <2>4. n + 1 = k
    BY <2>1, <2>3
  <2>5. \A i \in 1 .. n : prefix[i] = owner[i]
    BY <1>7, <2>2, <2>3
  <2>6. \A i \in 1 .. n + 1 : u[i] = owner[i]
    <3> TAKE i \in 1 .. n + 1
    <3>1. i \in 1 .. n \/ i = n + 1
      BY <1>1
    <3> QED
      BY <1>2, <1>7, <2>4, <2>5, <3>1
  <2>7. [i \in 1 .. n + 1 |-> u[i]] = [i \in 1 .. n + 1 |-> owner[i]]
    BY <2>6
  <2> QED
    BY <1>3, <1>4, <1>5, <2>1, <2>4, <2>7
<1>8. prefix \in Ancestry(owner) <=>
        prefix = owner \/ \E k \in DOMAIN owner : owner[k] = x /\ prefix = SubSeq(owner, 1, k - 1)
  BY DEF Ancestry, x
<1>9. pathMatches(prefix, owner) <=> prefix = << >> \/ owner = prefix \/ IsPrefix(u, owner)
  BY DEF pathMatches, u, x
<1> QED
  BY <1>6, <1>7, <1>8, <1>9

\* A client that has been told all has been told the truth.
LEMMA ToldIsTrue == TellInv => ResponsesAreTrue
<1> SUFFICES ASSUME TellInv, NEW c \in Clients, client[c].response.status = "ok"
             PROVE  LET r == client[c].response
                        Cut(n) == IF n <= r.request.through THEN n ELSE r.request.through + 1
                        On(o) == Range(Shown(r, o))
                    IN  /\ \A o \in Range(Owners) :
                             IF /\ r.request.path = << >> \/ r.request.path \in Ancestry(o)
                                /\ Wanted(r.request, o, Cut(r.asked[o])) # << >>
                             THEN \E n \in r.asked[o] .. Len(paths[o]) :
                                    Shown(r, o) = Wanted(r.request, o, Cut(n))
                             ELSE Shown(r, o) = << >>
                        /\ IsInjective(r.causal_edges)
                        /\ Range(r.causal_edges) =
                             UNION {{e \in On(o) \X On(o) : e[1] \in Range(CausedBy[e[2]])} : o \in Range(Owners)}
  BY DEF ResponsesAreTrue, ResponsesCoverTheirStart, EdgesAreThoseOfPaths
<1> DEFINE r == client[c].response
           q == r.request
           On(o) == Range(Shown(r, o))
           due == Due(q, r.asked)
<1>1. ToldAll(r)
  BY DEF TellInv, Responses
<1>2. q \in Requests /\ q.path \in Seq(STRING)
  BY <1>1, UIAssumption DEF ToldAll, Admitted
<1>3. \A o \in Range(Owners) : o \in Seq(STRING)
  BY UIAssumption DEF Range
<1>4. ASSUME NEW o \in Range(Owners)
      PROVE  o \in due <=> /\ q.path = << >> \/ q.path \in Ancestry(o)
                           /\ Wanted(q, o, CutAt(q, r.asked[o])) # << >>
  BY <1>2, <1>3, SubtreeIsAncestry DEF Due
<1>5. ASSUME NEW o \in due
      PROVE  \E n \in r.asked[o] .. Len(paths[o]) : Shown(r, o) = Wanted(q, o, CutAt(q, n))
  BY <1>1 DEF ToldAll, Told, Shown
<1>6. ASSUME NEW o \in Range(Owners), o \notin due
      PROVE  Shown(r, o) = << >>
  <2>1. IsPath(r.records) /\ \A k \in DOMAIN r.records : r.records[k].owner # o
    BY <1>1, <1>6 DEF ToldAll, Told
  <2>2. {k \in DOMAIN r.records : r.records[k].owner = o} = {}
    BY <2>1
  <2>3. OwnedBy(r.records, o) = << >>
    BY <2>1, <2>2, NoneSelected DEF OwnedBy
  <2> QED
    BY <2>3 DEF Shown, IdsOf
<1>7. IsInjective(r.causal_edges) /\ Range(r.causal_edges) = UNION {EdgesOn(On(o)) : o \in due}
  BY <1>1 DEF ToldAll, Told, Shown
<1>8. due \subseteq Range(Owners)
  BY DEF Due
<1>9. \A o \in Range(Owners) \ due : EdgesOn(On(o)) = {}
  BY <1>6 DEF EdgesOn, Range
<1>10. UNION {EdgesOn(On(o)) : o \in due} = UNION {EdgesOn(On(o)) : o \in Range(Owners)}
  <2> HIDE DEF due, On
  <2> QED
    BY <1>8, <1>9
<1>11. Range(r.causal_edges) =
         UNION {{e \in On(o) \X On(o) : e[1] \in Range(CausedBy[e[2]])} : o \in Range(Owners)}
  BY <1>7, <1>10 DEF EdgesOn
<1> HIDE DEF due
<1>12. \A n : CutAt(q, n) = IF n <= q.through THEN n ELSE q.through + 1
  BY DEF CutAt
<1>13. ASSUME NEW o \in Range(Owners)
       PROVE  IF /\ q.path = << >> \/ q.path \in Ancestry(o)
                 /\ Wanted(q, o, CutAt(q, r.asked[o])) # << >>
              THEN \E n \in r.asked[o] .. Len(paths[o]) : Shown(r, o) = Wanted(q, o, CutAt(q, n))
              ELSE Shown(r, o) = << >>
  BY <1>4, <1>5, <1>6
<1> QED
  BY <1>7, <1>11, <1>13 DEF CutAt

\* Paths only grow.
PathsGrow == \A o \in Range(Owners) : Continues(paths[o], paths'[o])

\* No step takes anything from a path.
LEMMA NextGrowsPaths == GapInv /\ [Next]_vars => PathsGrow
<1> SUFFICES ASSUME GapInv, [Next]_vars PROVE PathsGrow
  OBVIOUS
<1>1. DOMAIN paths = Range(Owners) /\ \A o \in Range(Owners) : paths[o] \in Seq(Ids) /\ IsPath(paths[o])
  BY OverOwnRange DEF GapInv, LogTyped, IsPath
<1>2. ASSUME paths' = paths PROVE PathsGrow
  BY <1>1, <1>2, SameContinues DEF PathsGrow
<1>3. ASSUME NEW b \in Batches, Commit(b) PROVE PathsGrow
  <2> SUFFICES ASSUME NEW o \in Range(Owners) PROVE Continues(paths[o], paths'[o])
    BY DEF PathsGrow
  <2>1. b \in Seq(Entry)
    BY UIAssumption DEF Entry
  <2> DEFINE s == paths[o]
             t == IdsOf(OwnedBy(b, o))
  <2>2. t \in Seq(Ids)
    BY <2>1, BatchEntries
  <2>3. IsPath(s) /\ IsPath(t)
    BY <1>1, <2>2, OverOwnRange DEF IsPath
  <2>4. paths'[o] = s \o t
    BY <1>1, <1>3 DEF Commit
  <2> HIDE DEF s, t
  <2>5. Continues(s, s \o t)
    BY <2>3, ConcatContinues
  <2> QED
    BY <2>4, <2>5 DEF s
<1>4. CASE ~\E b \in Batches : Commit(b)
  <2>1. paths' = paths
    BY <1>4 DEF Next, PublishNext, NameStream, StreamStep, SubscribeStream, Hello, Deliver, EndStream,
       AskRecords, ReadNextOwner, Respond, vars, storeVars
  <2> QED
    BY <1>2, <2>1
<1> QED
  BY <1>3, <1>4

\* What a request wanted, and has been told, stays so while paths grow.
LEMMA TellingStays ==
    ASSUME LogTyped, LogTyped', PathsGrow
    PROVE  /\ \A k : Telling(k) => Telling(k)'
           /\ \A r : ToldAll(r) => ToldAll(r)'
<1>1. \A o \in Range(Owners) :
        /\ IsPath(paths[o]) /\ Len(paths[o]) \in Nat /\ Len(paths'[o]) \in Nat
        /\ Len(paths[o]) <= Len(paths'[o])
        /\ Continues(paths[o], paths'[o])
  BY OverOwnRange DEF LogTyped, IsPath, PathsGrow, Continues
<1>2. ASSUME NEW q, q.through \in Nat, NEW o \in Range(Owners), NEW n \in Nat, n <= Len(paths[o])
      PROVE  Wanted(q, o, CutAt(q, n))' = Wanted(q, o, CutAt(q, n))
  <2> DEFINE m == CutAt(q, n)
  <2>1. m \in Nat /\ m <= Len(paths[o])
    BY <1>1, <1>2 DEF CutAt
  <2> HIDE DEF m
  <2>2. Wanted(q, o, m)' = Wanted(q, o, m)
    BY <1>1, <2>1, WantedStays
  <2> QED
    BY <2>2 DEF m
<1>3. ASSUME NEW q, NEW asked, Admitted(q, asked)
      PROVE  Admitted(q, asked)' /\ Due(q, asked)' = Due(q, asked)
  <2>1. Admitted(q, asked)'
    BY <1>1, <1>3 DEF Admitted
  <2>2. \A o \in Range(Owners) : asked[o] \in Nat /\ asked[o] <= Len(paths[o]) /\ q.through \in Nat
    BY <1>3 DEF Admitted
  <2>3. \A o \in Range(Owners) : Wanted(q, o, CutAt(q, asked[o]))' = Wanted(q, o, CutAt(q, asked[o]))
    BY <1>2, <2>2
  <2> QED
    BY <2>1, <2>3 DEF Due
<1>4. ASSUME NEW q, NEW asked, Admitted(q, asked), NEW done \in SUBSET Range(Owners), NEW records, NEW edges,
             Told(q, asked, records, edges, done)
      PROVE  Told(q, asked, records, edges, done)'
  <2>1. ASSUME NEW o \in done
        PROVE  \E n \in asked[o] .. Len(paths'[o]) :
                 IdsOf(OwnedBy(records, o)) = Wanted(q, o, CutAt(q, n))'
    <3>1. PICK n \in asked[o] .. Len(paths[o]) : IdsOf(OwnedBy(records, o)) = Wanted(q, o, CutAt(q, n))
      BY <1>4 DEF Told
    <3>2. n \in Nat /\ n <= Len(paths[o]) /\ q.through \in Nat /\ n \in asked[o] .. Len(paths'[o])
      BY <1>1, <1>4 DEF Admitted
    <3> QED
      BY <1>2, <3>1, <3>2
  <2> QED
    BY <1>4, <2>1 DEF Told
<1>5. \A q, asked : Due(q, asked) \in SUBSET Range(Owners)
  BY DEF Due
<1>6. ASSUME NEW k, Telling(k) PROVE Telling(k)'
  <2> DEFINE D == Due(k.request, k.asked) \ Range(k.left)
  <2>1. Admitted(k.request, k.asked) /\ Told(k.request, k.asked, k.records, k.edges, D)
    BY <1>6 DEF Telling
  <2>2. Admitted(k.request, k.asked)' /\ Due(k.request, k.asked)' = Due(k.request, k.asked)
    BY <1>3, <2>1
  <2>3. PICK done \in SUBSET Range(Owners) : done = D
    BY <1>5
  <2>4. Told(k.request, k.asked, k.records, k.edges, done)'
    BY <1>4, <2>1, <2>3
  <2>5. done = D'
    BY <2>2, <2>3
  <2> QED
    BY <1>6, <2>2, <2>4, <2>5 DEF Telling, Told
<1>7. ASSUME NEW r, ToldAll(r) PROVE ToldAll(r)'
  <2> DEFINE D == Due(r.request, r.asked)
  <2>1. Admitted(r.request, r.asked) /\ Told(r.request, r.asked, r.records, r.causal_edges, D)
    BY <1>7 DEF ToldAll
  <2>2. Admitted(r.request, r.asked)' /\ D' = D
    BY <1>3, <2>1
  <2>3. PICK done \in SUBSET Range(Owners) : done = D
    BY <1>5
  <2>4. Told(r.request, r.asked, r.records, r.causal_edges, done)'
    BY <1>4, <2>1, <2>3
  <2>5. done = D'
    BY <2>2, <2>3
  <2> QED
    BY <2>2, <2>4, <2>5 DEF ToldAll, Told
<1> QED
  BY <1>6, <1>7

\* A step that starts, continues or answers a request as it should.
LEMMA TellStep ==
    ASSUME GapInv, GapInv', TellInv, PathsGrow,
           \A k \in Calls' : k \in Calls \/ k.step # "reading" \/ Telling(k)',
           \A r \in Responses' : r \in Responses \/ r.status # "ok" \/ ToldAll(r)'
    PROVE  TellInv'
<1>1. /\ \A k : Telling(k) => Telling(k)'
      /\ \A r : ToldAll(r) => ToldAll(r)'
  BY TellingStays DEF GapInv
<1>2. \A k \in Calls' : k.step = "reading" => Telling(k)'
  BY <1>1 DEF TellInv
<1>3. \A r \in Responses' : r.status = "ok" => ToldAll(r)'
  BY <1>1 DEF TellInv
<1> QED
  BY <1>2, <1>3 DEF TellInv

\* The owners that a request will read are those that it shows something of.
LEMMA OwnersToReadAreDue ==
    ASSUME LogTyped, NEW q, q.through \in Nat, NEW asked, \A o \in Range(Owners) : asked[o] = Len(paths[o])
    PROVE  IsInjective(OwnersToRead(q)) /\ Range(OwnersToRead(q)) = Due(q, asked)
<1> DEFINE I == {i \in DOMAIN Owners :
                   /\ pathMatches(q.path, Owners[i])
                   /\ ReadOwnerPrefix(paths[Owners[i]], q.through, parseMode(q.mode)) # {}}
           r == ElementsAt(Owners, I)
<1>1. IsPath(Owners) /\ IsInjective(Owners)
  BY UIAssumption, OverOwnRange DEF IsPath
<1>2. I \in SUBSET DOMAIN Owners /\ OwnersToRead(q) = r
  BY DEF OwnersToRead
<1>3. ASSUME NEW o \in Range(Owners)
      PROVE  ReadOwnerPrefix(paths[o], q.through, parseMode(q.mode)) # {} <=>
               Wanted(q, o, CutAt(q, asked[o])) # << >>
  <2> DEFINE read == ReadOwnerPrefix(paths[o], q.through, parseMode(q.mode))
  <2>1. IsPath(paths[o])
    BY OverOwnRange DEF LogTyped, IsPath
  <2>2. read \in SUBSET DOMAIN paths[o] /\ ElementsAt(paths[o], read) = Wanted(q, o, CutAt(q, Len(paths[o])))
    BY <2>1, ReadIsWanted
  <2> HIDE DEF read
  <2>3. ElementsAt(paths[o], read) = << >> <=> read = {}
    BY <2>1, <2>2, NoneSelected
  <2> QED
    BY <2>2, <2>3 DEF read
<1>4. \A i \in DOMAIN Owners : i \in I <=> Owners[i] \in Due(q, asked)
  BY <1>3 DEF Due, Range
<1> HIDE DEF I
<1>5. Range(r) = {Owners[i] : i \in I}
  BY <1>1, <1>2, SelectedRange
<1>6. Range(r) = Due(q, asked)
  <2>1. Range(r) \subseteq Due(q, asked)
    BY <1>2, <1>4, <1>5
  <2>2. \A o \in Due(q, asked) : \E i \in DOMAIN Owners : Owners[i] = o
    BY DEF Due, Range
  <2> QED
    BY <1>4, <1>5, <2>1, <2>2
<1>7. IsInjective(r)
  <2>1. /\ IsPath(r)
        /\ \A k \in 1 .. Len(r) : NthOf(I, k) \in I /\ r[k] = Owners[NthOf(I, k)]
        /\ \A k, m \in 1 .. Len(r) : k < m => NthOf(I, k) < NthOf(I, m)
        /\ I \in SUBSET Nat
    BY <1>1, <1>2, ElementsAreThose
  <2> HIDE DEF r
  <2>2. DOMAIN r = 1 .. Len(r) /\ Len(r) \in Nat
    BY <2>1 DEF IsPath
  <2>3. ASSUME NEW k \in DOMAIN r, NEW m \in DOMAIN r, r[k] = r[m], k < m PROVE FALSE
    <3>1. NthOf(I, k) \in I /\ NthOf(I, m) \in I /\ NthOf(I, k) < NthOf(I, m)
      BY <2>1, <2>2, <2>3
    <3>2. Owners[NthOf(I, k)] = Owners[NthOf(I, m)]
      BY <2>1, <2>2, <2>3
    <3>3. NthOf(I, k) = NthOf(I, m)
      BY <1>1, <1>2, <3>1, <3>2 DEF IsInjective
    <3> QED
      BY <2>1, <3>1, <3>3
  <2> SUFFICES ASSUME NEW k \in DOMAIN r, NEW m \in DOMAIN r, r[k] = r[m] PROVE k = m
    BY DEF IsInjective
  <2>4. k < m \/ m < k \/ k = m
    BY <2>2
  <2> QED
    BY <2>3, <2>4
<1> QED
  BY <1>2, <1>6, <1>7

\* A request starts with everything to tell and nothing told.
LEMMA AskTells ==
    ASSUME GapInv, GapInv', TellInv, PathsGrow, NEW c \in Clients, NEW q \in Requests, AskRecords(c, q)
    PROVE  TellInv'
<1>1. /\ DOMAIN call = Clients /\ DOMAIN client = Clients /\ paths' = paths
      /\ DOMAIN paths = Range(Owners) /\ \A o \in Range(Owners) : Len(paths[o]) \in Nat
  BY DEF AskRecords, storeVars, GapInv, CallsTyped, LogTyped
<1>2. \A d \in Clients : client[d] = [asks |-> client[d].asks, view |-> client[d].view,
                                      backfilled |-> client[d].backfilled,
                                      response |-> client[d].response]
  BY DEF GapInv, CallsTyped
<1>3. CASE q.through < 0 \/ ~ParsesMode(q.mode)
  <2>1. /\ call' = call
        /\ client' = [client EXCEPT ![c].asks = @ + 1,
                                    ![c].response = [status |-> "refused", request |-> q]]
    BY <1>3 DEF AskRecords
  <2>2. \A d \in Clients : client'[d].response = client[d].response \/ client'[d].response.status = "refused"
    BY <1>1, <1>2, <2>1
  <2>3. Calls' = Calls /\ \A r \in Responses' : r \in Responses \/ r.status # "ok"
    BY <2>1, <2>2 DEF Calls, Responses
  <2> QED
    BY <2>3, TellStep
<1>4. CASE ~(q.through < 0 \/ ~ParsesMode(q.mode))
  <2> DEFINE asked == [o \in DOMAIN paths |-> Len(paths[o])]
             left == OwnersToRead(q)
             k == [step    |-> "reading",
                   request |-> q,
                   greeted |-> stream[c].greeted,
                   lost    |-> lost[c],
                   asked   |-> asked,
                   left    |-> left,
                   records |-> << >>,
                   edges   |-> << >>]
  <2>1. call' = [call EXCEPT ![c] = k] /\ client' = [client EXCEPT ![c].asks = @ + 1]
    BY <1>4 DEF AskRecords
  <2>2. \A d \in Clients : client'[d].response = client[d].response
    BY <1>1, <1>2, <2>1
  <2>3. Responses' = Responses
    BY <2>2 DEF Responses
  <2>4. asked \in [Range(Owners) -> Nat] /\ \A o \in Range(Owners) : asked[o] = Len(paths[o])
    BY <1>1
  <2>5. q.through \in Nat
    BY <1>4, UIAssumption
  <2>6. /\ k.request = q /\ k.asked = asked /\ k.left = left /\ k.records = << >> /\ k.edges = << >>
    OBVIOUS
  <2> HIDE DEF k, asked, left
  <2>7. Admitted(q, asked)
    BY <1>1, <2>4, <2>5 DEF Admitted
  <2>8. IsInjective(left) /\ Range(left) = Due(q, asked)
    BY <2>4, <2>5, OwnersToReadAreDue DEF GapInv, left
  <2>9. IsPath(<< >>) /\ Range(<< >>) = {} /\ IsInjective(<< >>) /\ DOMAIN << >> = {}
    BY DEF IsPath, Range, IsInjective
  <2>10. Told(q, asked, << >>, << >>, Due(q, asked) \ Range(left))
    <3>1. Due(q, asked) \ Range(left) = {}
      BY <2>8
    <3>2. UNION {EdgesOn(Range(IdsOf(OwnedBy(<< >>, o)))) : o \in {}} = {}
      OBVIOUS
    <3>3. Told(q, asked, << >>, << >>, {})
      BY <2>9, <3>2 DEF Told
    <3> QED
      BY <3>1, <3>3
  <2>11. Telling(k)
    BY <2>6, <2>7, <2>8, <2>10 DEF Telling
  <2>12. PICK new : new = k
    OBVIOUS
  <2>13. Telling(new)'
    BY <2>11, <2>12, TellingStays DEF GapInv
  <2>14. \A d \in Clients : call'[d] = call[d] \/ call'[d] = new
    BY <1>1, <2>1, <2>12
  <2>15. \A x \in Calls' : x \in Calls \/ Telling(x)'
    BY <2>13, <2>14 DEF Calls
  <2> QED
    BY <2>3, <2>15, TellStep
<1> QED
  BY <1>3, <1>4

\* A read of the next path tells of one owner more.
LEMMA ReadTells ==
    ASSUME GapInv, GapInv', TellInv, PathsGrow, NEW c \in Clients, ReadNextOwner(c)
    PROVE  TellInv'
<1> DEFINE k == call[c]
           q == k.request
           owner == Head(k.left)
           path == paths[owner]
           read == ReadOwnerPrefix(path, q.through, parseMode(q.mode))
           more == PathRecords(owner, path, read)
           between == PathEdges(path, read)
           rest == Tail(k.left)
           all == k.records \o more
           edges == NewEdges(k.edges, between)
           done == Due(q, k.asked) \ Range(k.left)
<1>1. /\ k.step = "reading" /\ k.left # << >>
      /\ paths' = paths /\ client' = client
      /\ DOMAIN call = Clients
  BY DEF ReadNextOwner, storeVars, GapInv, CallsTyped
<1>2. /\ k = [step |-> "reading", request |-> q, greeted |-> k.greeted, lost |-> k.lost,
              asked |-> k.asked, left |-> k.left, records |-> k.records, edges |-> k.edges]
      /\ k.left \in Seq(Range(Owners))
  <2>1. CallTyped(k)
    BY DEF GapInv, CallsTyped
  <2>2. k # NoCall
    BY <1>1 DEF NoCall
  <2> QED
    BY <2>1, <2>2 DEF CallTyped
<1>3. Telling(k)
  BY <1>1 DEF TellInv, Calls
<1>4. call' = [call EXCEPT ![c].left = rest, ![c].records = all, ![c].edges = edges]
  BY DEF ReadNextOwner
<1>5. /\ owner \in Range(Owners) /\ rest \in Seq(Range(Owners))
      /\ Range(k.left) = {owner} \cup Range(rest)
  BY <1>1, <1>2, QueueElements
<1>6. path \in Seq(Ids) /\ IsPath(path) /\ Len(path) \in Nat
  BY <1>5, OverOwnRange DEF GapInv, LogTyped, IsPath
<1>7. /\ q.through \in Nat /\ k.asked[owner] \in Nat /\ k.asked[owner] <= Len(path)
  BY <1>3, <1>5 DEF Telling, Admitted
<1>8. read \in SUBSET DOMAIN path /\ ElementsAt(path, read) = Wanted(q, owner, CutAt(q, Len(path)))
  BY <1>6, <1>7, ReadIsWanted
<1> HIDE DEF read
<1>9. /\ IsPath(more) /\ \A i \in DOMAIN more : more[i].owner = owner
      /\ IdsOf(more) = ElementsAt(path, read)
  BY <1>6, <1>8, RowsRead
<1>10. Range(IdsOf(more)) = {path[i] : i \in read}
  BY <1>6, <1>8, <1>9, SelectedRange
<1>11. IsPath(between) /\ Range(between) = EdgesOn(Range(IdsOf(more)))
  BY <1>6, <1>8, <1>10, EdgesRead
<1>12. /\ IsPath(k.edges) /\ IsInjective(k.edges) /\ IsPath(k.records)
       /\ \A i \in DOMAIN k.records : k.records[i].owner \in done
       /\ Range(k.edges) = UNION {EdgesOn(Range(IdsOf(OwnedBy(k.records, o)))) : o \in done}
  BY <1>3 DEF Telling, Told
<1>13. IsPath(edges) /\ IsInjective(edges) /\ Range(edges) = Range(k.edges) \cup Range(between)
  BY <1>11, <1>12, EdgesAdded
<1>14. /\ IsInjective(rest) /\ owner \notin Range(rest)
       /\ \A o \in Range(rest) : o \in Range(k.left)
  <2> DEFINE s == k.left
  <2>1. IsInjective(s) /\ s \in Seq(Range(Owners)) /\ s # << >>
    BY <1>1, <1>2, <1>3 DEF Telling
  <2>2. IsPath(s)
    BY <2>1, OverOwnRange DEF IsPath
  <2> HIDE DEF s
  <2>3. /\ IsPath(Tail(s)) /\ Len(s) \in Nat /\ Len(s) >= 1 /\ Len(Tail(s)) = Len(s) - 1
        /\ Head(s) = s[1]
        /\ \A i \in 1 .. Len(s) - 1 : Tail(s)[i] = s[i + 1]
    BY <2>1, <2>2, TailIsPath
  <2>4. DOMAIN s = 1 .. Len(s) /\ DOMAIN Tail(s) = 1 .. Len(s) - 1
    BY <2>2, <2>3 DEF IsPath
  <2>5. \A i \in DOMAIN Tail(s) : i + 1 \in DOMAIN s /\ i + 1 # 1 /\ 1 \in DOMAIN s /\ i \in Nat
    BY <2>3, <2>4
  <2>6. IsInjective(Tail(s))
    <3> SUFFICES ASSUME NEW i \in DOMAIN Tail(s), NEW j \in DOMAIN Tail(s), Tail(s)[i] = Tail(s)[j]
                 PROVE  i = j
      BY DEF IsInjective
    <3>1. s[i + 1] = s[j + 1]
      BY <2>3, <2>4
    <3>2. i + 1 = j + 1
      BY <2>1, <2>5, <3>1 DEF IsInjective
    <3> QED
      BY <2>5, <3>2
  <2>7. Head(s) \notin Range(Tail(s))
    <3> SUFFICES ASSUME NEW i \in DOMAIN Tail(s), Tail(s)[i] = s[1] PROVE FALSE
      BY <2>3 DEF Range
    <3>1. s[i + 1] = s[1]
      BY <2>3, <2>4
    <3> QED
      BY <2>1, <2>5, <3>1 DEF IsInjective
  <2>8. Head(s) = owner /\ Tail(s) = rest
    BY DEF s
  <2> QED
    BY <1>5, <2>6, <2>7, <2>8
<1>15. owner \in Due(q, k.asked) /\ Range(rest) \subseteq Due(q, k.asked) /\ owner \notin done
  BY <1>3, <1>5 DEF Telling
<1>16. Due(q, k.asked) \ Range(rest) = done \cup {owner}
  BY <1>5, <1>14, <1>15
<1>17. PICK kc, kq, ka, kr, ke, ow, ds, mr, bt, al, ed, rs, pa :
         /\ kc = k /\ kq = q /\ ka = k.asked /\ kr = k.records /\ ke = k.edges /\ ow = owner /\ ds = done
         /\ mr = more /\ bt = between /\ al = all /\ ed = edges /\ rs = rest /\ pa = path
  OBVIOUS
<1> HIDE DEF k, q, owner, path, more, between, rest, all, edges, done
<1>18. \A o \in ds :
         /\ OwnedBy(al, o) = OwnedBy(kr, o)
         /\ \E n \in ka[o] .. Len(paths[o]) : IdsOf(OwnedBy(kr, o)) = Wanted(kq, o, CutAt(kq, n))
  <2> SUFFICES ASSUME NEW o \in ds
               PROVE  /\ OwnedBy(al, o) = OwnedBy(kr, o)
                      /\ \E n \in ka[o] .. Len(paths[o]) : IdsOf(OwnedBy(kr, o)) = Wanted(kq, o, CutAt(kq, n))
    OBVIOUS
  <2>1. o # ow
    BY <1>15, <1>17
  <2>2. IsPath(kr) /\ IsPath(mr) /\ \A i \in DOMAIN mr : mr[i].owner # o
    BY <1>9, <1>12, <1>17, <2>1
  <2>3. OwnedBy(kr \o mr, o) = OwnedBy(kr, o)
    BY <2>2, OthersRows
  <2>4. al = kr \o mr
    BY <1>17 DEF all
  <2>5. Told(kq, ka, kr, ke, ds)
    BY <1>3, <1>17 DEF Telling, done, k, q
  <2> QED
    BY <2>3, <2>4, <2>5 DEF Told
<1>19. OwnedBy(al, ow) = mr
  <2>1. IsPath(kr) /\ IsPath(mr) /\ \A i \in DOMAIN mr : mr[i].owner = ow
    BY <1>9, <1>12, <1>17
  <2>2. \A i \in DOMAIN kr : kr[i].owner # ow
    BY <1>12, <1>15, <1>17
  <2>3. OwnedBy(kr \o mr, ow) = mr
    BY <2>1, <2>2, OwnRows
  <2> QED
    BY <1>17, <2>3 DEF all
<1>20. IsPath(al) /\ \A i \in DOMAIN al : al[i].owner \in ds \cup {ow}
  <2>1. IsPath(kr) /\ IsPath(mr) /\ al = kr \o mr
    BY <1>9, <1>12, <1>17 DEF all
  <2>2. IsPath(kr \o mr) /\ Range(kr \o mr) = Range(kr) \cup Range(mr)
    BY <2>1, JoinedElements
  <2>3. \A x \in Range(kr) : x.owner \in ds
    BY <1>12, <1>17 DEF Range
  <2>4. \A x \in Range(mr) : x.owner = ow
    BY <1>9, <1>17 DEF Range
  <2> QED
    BY <2>1, <2>2, <2>3, <2>4 DEF Range
<1>21. Told(kq, ka, al, ed, ds \cup {ow})
  <2>1. ASSUME NEW o \in ds \cup {ow}
        PROVE  \E n \in ka[o] .. Len(paths[o]) : IdsOf(OwnedBy(al, o)) = Wanted(kq, o, CutAt(kq, n))
    <3>1. CASE o \in ds
      BY <1>18, <3>1
    <3>2. CASE o = ow
      <4>1. Len(paths[o]) \in ka[o] .. Len(paths[o])
        BY <1>6, <1>7, <1>17, <3>2 DEF path
      <4>2. IdsOf(OwnedBy(al, o)) = Wanted(kq, o, CutAt(kq, Len(paths[o])))
        BY <1>8, <1>9, <1>17, <1>19, <3>2 DEF path
      <4> QED
        BY <4>1, <4>2
    <3> QED
      BY <3>1, <3>2
  <2>2. Range(ed) = UNION {EdgesOn(Range(IdsOf(OwnedBy(al, o)))) : o \in ds \cup {ow}}
    <3>1. Range(ed) = Range(ke) \cup Range(bt)
      BY <1>13, <1>17
    <3>2. Range(ke) = UNION {EdgesOn(Range(IdsOf(OwnedBy(al, o)))) : o \in ds}
      <4>1. Range(ke) = UNION {EdgesOn(Range(IdsOf(OwnedBy(kr, o)))) : o \in ds}
        BY <1>12, <1>17
      <4> QED
        BY <1>18, <4>1
    <3>3. Range(bt) = EdgesOn(Range(IdsOf(OwnedBy(al, ow))))
      BY <1>11, <1>17, <1>19
    <3> QED
      BY <3>1, <3>2, <3>3
  <2> QED
    BY <1>13, <1>17, <1>20, <2>1, <2>2 DEF Told
<1> DEFINE new == [step |-> "reading", request |-> q, greeted |-> k.greeted, lost |-> k.lost,
                   asked |-> k.asked, left |-> rest, records |-> all, edges |-> edges]
<1>22. /\ call'[c] = new /\ \A d \in Clients \ {c} : call'[d] = call[d]
  <2>1. \A d \in Clients \ {c} : call'[d] = call[d]
    BY <1>1, <1>4
  <2>2. call'[c] = [[[k EXCEPT !.left = rest] EXCEPT !.records = all] EXCEPT !.edges = edges]
    BY <1>1, <1>4 DEF k
  <2>3. PICK x1, x2, x3, x4, x5, x6, x7 :
          k = [step |-> "reading", request |-> x1, greeted |-> x2, lost |-> x3, asked |-> x4, left |-> x5,
               records |-> x6, edges |-> x7]
    BY <1>2
  <2>4. q = x1 /\ k.greeted = x2 /\ k.lost = x3 /\ k.asked = x4
    BY <2>3 DEF q
  <2> DEFINE k1 == [k EXCEPT !.left = rest]
             k2 == [k1 EXCEPT !.records = all]
  <2>5. k1 = [step |-> "reading", request |-> x1, greeted |-> x2, lost |-> x3, asked |-> x4,
              left |-> rest, records |-> x6, edges |-> x7]
    BY <2>3
  <2> HIDE DEF k1
  <2>6. k2 = [step |-> "reading", request |-> x1, greeted |-> x2, lost |-> x3, asked |-> x4,
              left |-> rest, records |-> all, edges |-> x7]
    BY <2>5
  <2>7. call'[c] = [k2 EXCEPT !.edges = edges]
    BY <2>2 DEF k1
  <2> HIDE DEF k2
  <2>8. call'[c] = [step |-> "reading", request |-> x1, greeted |-> x2, lost |-> x3, asked |-> x4,
                    left |-> rest, records |-> all, edges |-> edges]
    BY <2>6, <2>7
  <2> QED
    BY <2>1, <2>4, <2>8
<1>23. /\ new.request = q /\ new.asked = k.asked /\ new.left = rest /\ new.records = all /\ new.edges = edges
  OBVIOUS
<1>24. PICK x : x = new
  OBVIOUS
<1> HIDE DEF new
<1>25. Telling(x)
  <2>1. Admitted(q, k.asked)
    BY <1>3 DEF Telling, q
  <2>2. Told(q, k.asked, all, edges, Due(q, k.asked) \ Range(rest))
    BY <1>16, <1>17, <1>21
  <2> QED
    BY <1>14, <1>15, <1>23, <1>24, <2>1, <2>2 DEF Telling
<1>26. Telling(x)'
  BY <1>25, TellingStays DEF GapInv
<1>27. \A d \in Clients : call'[d] = call[d] \/ call'[d] = x
  BY <1>22, <1>24
<1>28. \A y \in Calls' : y \in Calls \/ Telling(y)'
  BY <1>26, <1>27 DEF Calls
<1>29. Responses' = Responses
  BY <1>1 DEF Responses
<1> QED
  BY <1>28, <1>29, TellStep

\* When nothing is left to read, all is told.
LEMMA RespondTells ==
    ASSUME GapInv, GapInv', TellInv, PathsGrow, NEW c \in Clients, Respond(c)
    PROVE  TellInv'
<1> DEFINE k == call[c]
           r == [status |-> "ok", request |-> k.request, asked |-> k.asked,
                 records |-> k.records, causal_edges |-> k.edges]
<1>1. /\ k.step = "reading" /\ k.left = << >>
      /\ call' = [call EXCEPT ![c] = NoCall] /\ paths' = paths
      /\ DOMAIN call = Clients /\ DOMAIN client = Clients
  BY DEF Respond, storeVars, GapInv, CallsTyped
<1>2. PICK v, f : client' = [client EXCEPT ![c].view = v, ![c].backfilled = f, ![c].response = r]
  BY DEF Respond
<1>3. Telling(k)
  BY <1>1 DEF TellInv, Calls
<1>4. /\ r.request = k.request /\ r.asked = k.asked /\ r.records = k.records /\ r.causal_edges = k.edges
  OBVIOUS
<1>5. Range(k.left) = {}
  BY <1>1 DEF Range
<1> HIDE DEF k, r
<1>6. ToldAll(r)
  <2>1. Due(k.request, k.asked) \ Range(k.left) = Due(k.request, k.asked)
    BY <1>5
  <2> QED
    BY <1>3, <1>4, <2>1 DEF Telling, ToldAll
<1>7. PICK x : x = r
  OBVIOUS
<1>8. ToldAll(x)'
  BY <1>6, <1>7, TellingStays DEF GapInv
<1>9. \A d \in Clients : client'[d].response = client[d].response \/ client'[d].response = x
  <2>1. \A d \in Clients : client[d] = [asks |-> client[d].asks, view |-> client[d].view,
                                        backfilled |-> client[d].backfilled,
                                        response |-> client[d].response]
    BY DEF GapInv, CallsTyped
  <2>2. \A d \in Clients \ {c} : client'[d] = client[d]
    BY <1>1, <1>2
  <2>3. client'[c] = [[[client[c] EXCEPT !.view = v] EXCEPT !.backfilled = f] EXCEPT !.response = r]
    BY <1>1, <1>2
  <2>4. client'[c].response = r
    BY <2>1, <2>3
  <2> QED
    BY <1>7, <2>2, <2>4
<1>10. \A y \in Responses' : y \in Responses \/ ToldAll(y)'
  BY <1>8, <1>9 DEF Responses
<1>11. \A d \in Clients : call'[d] = call[d] \/ call'[d].step # "reading"
  BY <1>1 DEF NoCall
<1>12. \A y \in Calls' : y \in Calls \/ y.step # "reading"
  BY <1>11 DEF Calls
<1> QED
  BY <1>10, <1>12, TellStep

\* No other step changes a request under way or a response.
LEMMA OthersTell ==
    ASSUME GapInv, GapInv', TellInv, PathsGrow, call' = call,
           \A c \in Clients : client'[c].response = client[c].response
    PROVE  TellInv'
<1>1. Calls' = Calls /\ Responses' = Responses
  BY DEF Calls, Responses
<1> QED
  BY <1>1, TellStep

\* Every step tells what is true.
LEMMA NextTells == GapInv /\ GapInv' /\ TellInv /\ [Next]_vars => TellInv'
<1> SUFFICES ASSUME GapInv, GapInv', TellInv, [Next]_vars PROVE TellInv'
  OBVIOUS
<1>0. PathsGrow
  BY NextGrowsPaths
<1>1. CASE (\E b \in Batches : Commit(b)) \/ PublishNext
  BY <1>0, <1>1, OthersTell DEF Commit, PublishNext
<1>2. ASSUME NEW c \in Clients, NameStream(c) \/ SubscribeStream(c) \/ Hello(c) \/ EndStream(c)
      PROVE  TellInv'
  BY <1>0, <1>2, OthersTell DEF NameStream, SubscribeStream, Hello, EndStream
<1>3. ASSUME NEW c \in Clients, Deliver(c) PROVE TellInv'
  <2>1. call' = call
    BY <1>3 DEF Deliver
  <2>2. PICK v : client' = [client EXCEPT ![c].view = v]
    BY <1>3 DEF Deliver
  <2>3. DOMAIN client = Clients /\
        \A d \in Clients : client[d] = [asks |-> client[d].asks, view |-> client[d].view,
                                        backfilled |-> client[d].backfilled,
                                        response |-> client[d].response]
    BY DEF GapInv, CallsTyped
  <2>4. \A d \in Clients : client'[d].response = client[d].response
    BY <2>2, <2>3
  <2> QED
    BY <1>0, <2>1, <2>4, OthersTell
<1>4. ASSUME NEW c \in Clients, (\E q \in Requests : AskRecords(c, q)) \/ ReadNextOwner(c) \/ Respond(c)
      PROVE  TellInv'
  BY <1>0, <1>4, AskTells, ReadTells, RespondTells
<1>5. CASE UNCHANGED vars
  BY <1>0, <1>5, OthersTell DEF vars
<1> QED
  BY <1>1, <1>2, <1>3, <1>4, <1>5 DEF Next, StreamStep

\* records.go:37: a response to /api/records is true, whatever is appended while its paths
\* are read one by one: each path is what it was at some moment since the request came, cut
\* where the request cuts it, none that descends from the requested path is missing or
\* added, and the edges are those between facts shown on one and the same path, each once.
THEOREM ResponsesStayTrue == Spec => []ResponsesAreTrue
<1>1. Init => TellInv
  <2> SUFFICES ASSUME Init PROVE TellInv
    OBVIOUS
  <2>1. \A k \in Calls : k = NoCall
    BY DEF Init, Calls
  <2>2. \A r \in Responses : r = NoResponse
    BY DEF Init, Responses
  <2> QED
    BY <2>1, <2>2 DEF TellInv, NoCall, NoResponse
<1> QED
  BY <1>1, InitGapInv, NextKeepsGap, NextTells, ToldIsTrue, PTL DEF Spec
=============================================================================
