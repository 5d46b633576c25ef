------------------------------ MODULE TraceUI ------------------------------
(***************************************************************************)
(* The trace UI service beside the store and the bus: /api/events, which   *)
(* streams events from a subscription of its own, and /api/records, which  *)
(* enumerates the owner paths and then reads each of them.                 *)
(*                                                                         *)
(* The store is taken as TraceLog says it is: a batch enters its paths in  *)
(* one step, and its events are published before the next batch commits.   *)
(* A batch's quiet entries (witnesses, the facts that describe frontiers)  *)
(* have no event.  A read of a path is one step, since                     *)
(* SliceReads!PrefixesAreSnapshots says that it is as good as one.         *)
(*                                                                         *)
(* A client opens a stream, and asks for records whenever it likes; it     *)
(* keeps what it was sent.  An owner is the sequence of its characters,    *)
(* because a subtree is decided by a string prefix; an entry is a record   *)
(* id, and Mode and CausedBy tell its mode and its parents.                *)
(***************************************************************************)
EXTENDS Integers, Sequences, FiniteSets, SequencesExt, Functions, Subsequences

CONSTANTS
    Owners,         \* the owner paths, in the order SQLite sorts their names
    Ids,            \* record ids
    Mode,           \* Ids -> {"capture", "declaration"}
    CausedBy,       \* Ids -> sequence of ids
    Batches,        \* sequences of [owner, id, quiet]; each is appended once
    Clients,
    Streamers,      \* the clients that open a stream
    MaxAsks,        \* how often each client may ask for records, at most
    ServiceOf,      \* the service (of the same bus) that a client talks to
    BufferSize,
    maxThrough,     \* the largest ordinal, and the cutoff of a request that gives none
    Requests        \* [path, through, mode]: the queries of /api/records

ASSUME UIAssumption ==
    /\ Owners \in Seq(Seq(STRING)) /\ IsInjective(Owners)
    /\ Mode \in [Ids -> {"capture", "declaration"}]
    /\ CausedBy \in [Ids -> Seq(Ids)]
    /\ \A b \in Batches : b \in Seq([owner : Range(Owners), id : Ids, quiet : BOOLEAN])
    /\ BufferSize \in Nat \ {0}
    /\ maxThrough \in Nat
    /\ \A q \in Requests : /\ q = [path |-> q.path, through |-> q.through, mode |-> q.mode]
                           /\ q.path \in Seq(STRING) /\ q.through \in Int
    /\ DOMAIN ServiceOf = Clients
    /\ Streamers \subseteq Clients
    /\ MaxAsks \in [Clients -> Nat]

VARIABLES
    committed,      \* the batches that have been appended
    paths,          \* the entries of every path
    unpublished,    \* the events of the last batch that the bus has not been given
    subSeq,         \* the counter of subscriptions
    subs,           \* the bus: subscription id -> the client whose channel it is
    channel,        \* the buffered events of each client's channel, and whether it is open
    stream,         \* what each client's /api/events handler has done
    call,           \* what each client's /api/records handler is doing
    client,         \* what each client knows
    lost            \* what was dropped from each client's channel and not read since

storeVars == <<committed, paths, unpublished>>
busVars   == <<subs, channel, lost>>
vars      == <<storeVars, subSeq, busVars, stream, call, client>>

NoCall == [step |-> "none"]
NoResponse == [status |-> "none"]

Init ==
    /\ committed = {}
    /\ paths = [o \in Range(Owners) |-> << >>]
    /\ unpublished = << >>
    /\ subSeq = [s \in Range(ServiceOf) |-> 0]
    /\ subs = << >>
    /\ channel = [c \in Clients |-> [open |-> FALSE, events |-> << >>]]
    /\ stream = [c \in Clients |-> [id |-> 0, subscribed |-> FALSE, greeted |-> FALSE, ended |-> FALSE]]
    /\ call = [c \in Clients |-> NoCall]
    /\ client = [c \in Clients |-> [asks |-> 0, view |-> {}, backfilled |-> FALSE, response |-> NoResponse]]
    /\ lost = [c \in Clients |-> {}]

-----------------------------------------------------------------------------
(***************************************************************************)
(* The writer.                                                             *)
(***************************************************************************)
IdsOf(rows) == [k \in DOMAIN rows |-> rows[k].id]

OwnedBy(rows, o) == ElementsAt(rows, {k \in DOMAIN rows : rows[k].owner = o})
Announcing(b) == ElementsAt(b, {k \in DOMAIN b : ~b[k].quiet})

Commit(b) ==
    /\ b \in Batches \ committed
    /\ unpublished = << >>
    /\ committed' = committed \cup {b}
    /\ paths' = [o \in DOMAIN paths |-> paths[o] \o IdsOf(OwnedBy(b, o))]
    /\ \A o \in DOMAIN paths : Len(paths'[o]) <= maxThrough + 1
    /\ unpublished' = Announcing(b)
    /\ UNCHANGED <<subSeq, busVars, stream, call, client>>

Place(e) == <<e.owner, e.id>>

\* The bus gives an event to every subscription; a full channel loses its oldest.
PublishNext ==
    /\ unpublished # << >>
    /\ LET e == Head(unpublished)
           on == {subs[i] : i \in DOMAIN subs}
           Full(c) == Len(channel[c].events) = BufferSize
           Room(c) == IF Full(c) THEN Tail(channel[c].events) ELSE channel[c].events
       IN  /\ channel' = [c \in Clients |->
                            IF c \in on THEN [channel[c] EXCEPT !.events = Append(Room(c), e)]
                            ELSE channel[c]]
           /\ lost' = [c \in Clients |->
                            IF c \in on /\ Full(c) THEN lost[c] \cup {Place(Head(channel[c].events))}
                            ELSE lost[c]]
    /\ unpublished' = Tail(unpublished)
    /\ UNCHANGED <<committed, paths, subSeq, subs, stream, call, client>>

-----------------------------------------------------------------------------
(***************************************************************************)
(* /api/events.                                                            *)
(***************************************************************************)
Counter_PerService(c) == ServiceOf[c]
\* subSeq is a variable of the package: the services of a process share it.
Counter(c) == CHOOSE s \in Range(ServiceOf) : TRUE

NameStream(c) ==
    /\ c \in Streamers
    /\ stream[c].id = 0
    /\ subSeq' = [subSeq EXCEPT ![Counter(c)] = @ + 1]
    /\ stream' = [stream EXCEPT ![c].id = subSeq'[Counter(c)]]
    /\ UNCHANGED <<storeVars, busVars, call, client>>

\* EffectBus.Subscribe: a subscription of the same id is closed and replaced.
SubscribeStream(c) ==
    /\ stream[c].id # 0
    /\ ~stream[c].subscribed
    /\ channel' = [d \in Clients |->
                     IF d = c THEN [open |-> TRUE, events |-> << >>]
                     ELSE IF stream[c].id \in DOMAIN subs /\ subs[stream[c].id] = d
                     THEN [channel[d] EXCEPT !.open = FALSE] ELSE channel[d]]
    /\ subs' = [i \in DOMAIN subs \cup {stream[c].id} |-> IF i = stream[c].id THEN c ELSE subs[i]]
    /\ stream' = [stream EXCEPT ![c].subscribed = TRUE]
    /\ UNCHANGED <<storeVars, subSeq, lost, call, client>>

HelloDue_BeforeSubscribing(c) == stream[c].id # 0
HelloDue(c) == stream[c].subscribed

\* The headers and the hello event are flushed: the client knows its stream is open.
Hello(c) ==
    /\ HelloDue(c)
    /\ ~stream[c].greeted
    /\ stream' = [stream EXCEPT ![c].greeted = TRUE]
    /\ UNCHANGED <<storeVars, subSeq, busVars, call, client>>

Streaming(c) == stream[c].subscribed /\ stream[c].greeted /\ ~stream[c].ended

Deliver_KeepsOne(c) ==
    /\ Streaming(c)
    /\ channel[c].events # << >>
    /\ channel' = [channel EXCEPT ![c].events = << >>]
    /\ client' = [client EXCEPT ![c].view = @ \cup {Place(Head(channel[c].events))}]
    /\ UNCHANGED <<storeVars, subSeq, subs, lost, stream, call>>

\* A closed channel yields what it has buffered before it ends the handler.
Deliver(c) ==
    /\ Streaming(c)
    /\ channel[c].events # << >>
    /\ channel' = [channel EXCEPT ![c].events = Tail(@)]
    /\ client' = [client EXCEPT ![c].view = @ \cup {Place(Head(channel[c].events))}]
    /\ UNCHANGED <<storeVars, subSeq, subs, lost, stream, call>>

\* The handler returns when the client is gone or its channel is closed and empty, and
\* unsubscribes its id.
EndStream(c) ==
    /\ Streaming(c)
    /\ stream' = [stream EXCEPT ![c].ended = TRUE]
    /\ LET id == stream[c].id
       IN  IF id \in DOMAIN subs
           THEN /\ subs' = Restrict(subs, DOMAIN subs \ {id})
                /\ channel' = [channel EXCEPT ![subs[id]].open = FALSE]
           ELSE UNCHANGED <<subs, channel>>
    /\ UNCHANGED <<storeVars, subSeq, lost, call, client>>

-----------------------------------------------------------------------------
(***************************************************************************)
(* /api/records.                                                           *)
(***************************************************************************)
ModeNames ==
    [both |-> {"", "both"}, captures |-> {"captures", "captures_only"},
     declarations |-> {"declarations", "declarations_only"}]

ParsesMode(raw) == \E m \in DOMAIN ModeNames : raw \in ModeNames[m]
parseMode(raw) == CHOOSE m \in DOMAIN ModeNames : raw \in ModeNames[m]

ModeAdmits(mode, id) ==
    CASE mode = "captures"     -> Mode[id] = "capture"
      [] mode = "declarations" -> Mode[id] = "declaration"
      [] OTHER                 -> TRUE

pathMatches_NoDelimiter(prefix, owner) == IsPrefix(prefix, owner)

pathMatches(prefix, owner) ==
    \/ prefix = << >>
    \/ owner = prefix
    \/ IsPrefix(prefix \o <<":">>, owner)

\* A prefix read of a path: the places of its entries whose ordinals, which are one less,
\* go up to and with through.
ReadOwnerPrefix(path, through, mode) ==
    {k \in DOMAIN path : k - 1 <= through /\ ModeAdmits(mode, path[k])}

\* The paths of the subtree that one read of all paths finds something on.
OwnersToRead(q) ==
    ElementsAt(Owners, {i \in DOMAIN Owners :
                          /\ pathMatches(q.path, Owners[i])
                          /\ ReadOwnerPrefix(paths[Owners[i]], q.through, parseMode(q.mode)) # {}})

\* A request is refused, or starts with one read of every path.
AskRecords(c, q) ==
    /\ call[c] = NoCall
    /\ client[c].asks < MaxAsks[c]
    /\ IF q.through < 0 \/ ~ParsesMode(q.mode)
       THEN /\ client' = [client EXCEPT ![c].asks = @ + 1,
                                        ![c].response = [status |-> "refused", request |-> q]]
            /\ UNCHANGED call
       ELSE /\ call' = [call EXCEPT ![c] =
                 [step    |-> "reading",
                  request |-> q,
                  greeted |-> stream[c].greeted,
                  lost    |-> lost[c],
                  asked   |-> [o \in DOMAIN paths |-> Len(paths[o])],
                  left    |-> OwnersToRead(q),
                  records |-> << >>,
                  edges   |-> << >>]]
            /\ client' = [client EXCEPT ![c].asks = @ + 1]
    /\ UNCHANGED <<storeVars, subSeq, busVars, stream>>

\* FactsByID keeps one record per id: the last of the path's entries that were read.
LastOrdinal(path, read, id) ==
    CHOOSE n \in {k - 1 : k \in read} :
      /\ path[n + 1] = id
      /\ \A k \in read : path[k] = id => k - 1 <= n

PathRecords(owner, path, read) ==
    ElementsAt([k \in DOMAIN path |->
                  [id |-> path[k], owner |-> owner, ordinal |-> LastOrdinal(path, read, path[k])]],
               read)

\* The edges of one slice, in the order of its entries.
PathEdges(path, read) ==
    LET ids == {path[k] : k \in read}
        EdgesOf(id) == LET causes == CausedBy[id]
                           inside == ElementsAt(causes, {i \in DOMAIN causes : causes[i] \in ids})
                       IN  [i \in DOMAIN inside |-> <<inside[i], id>>]
    IN  FlattenSeq([k \in DOMAIN path |-> IF k \in read THEN EdgesOf(path[k]) ELSE << >>])

NewEdges_All(edges, more) == edges \o more
NewEdges(edges, more) ==
    edges \o ElementsAt(more, {k \in DOMAIN more : /\ more[k] \notin Range(edges)
                                                  /\ \A j \in 1 .. k - 1 : more[j] # more[k]})

ReadNextOwner(c) ==
    /\ call[c].step = "reading"
    /\ call[c].left # << >>
    /\ LET owner == Head(call[c].left)
           path  == paths[owner]
           read  == ReadOwnerPrefix(path, call[c].request.through, parseMode(call[c].request.mode))
       IN  call' = [call EXCEPT ![c].left = Tail(@),
                                ![c].records = @ \o PathRecords(owner, path, read),
                                ![c].edges = NewEdges(@, PathEdges(path, read))]
    /\ UNCHANGED <<storeVars, subSeq, busVars, stream, client>>

\* A response to a request for everything backfills the client, and repairs what was
\* dropped before it was asked for.
Whole(q) ==
    /\ q.path = << >>
    /\ parseMode(q.mode) = "both"
    /\ q.through = maxThrough

Respond(c) ==
    /\ call[c].step = "reading"
    /\ call[c].left = << >>
    /\ client' = [client EXCEPT
         ![c].view = @ \cup {<<r.owner, r.id>> : r \in Range(call[c].records)},
         ![c].backfilled = @ \/ (call[c].greeted /\ Whole(call[c].request)),
         ![c].response = [status |-> "ok", request |-> call[c].request, asked |-> call[c].asked,
                          records |-> call[c].records, causal_edges |-> call[c].edges]]
    /\ lost' = [lost EXCEPT ![c] = IF Whole(call[c].request) THEN @ \ call[c].lost ELSE @]
    /\ call' = [call EXCEPT ![c] = NoCall]
    /\ UNCHANGED <<storeVars, subSeq, subs, channel, stream>>

-----------------------------------------------------------------------------
StreamStep(c) == SubscribeStream(c) \/ Hello(c) \/ Deliver(c)

Next ==
    \/ \E b \in Batches : Commit(b)
    \/ PublishNext
    \/ \E c \in Clients :
         \/ NameStream(c)
         \/ StreamStep(c)
         \/ EndStream(c)
         \/ \E q \in Requests : AskRecords(c, q)
         \/ ReadNextOwner(c)
         \/ Respond(c)

Spec == Init /\ [][Next]_vars

\* The goroutines of the store's caller and of both handlers keep running.  A client is
\* never obliged to ask, nor to leave.
FairSpec ==
    /\ Spec
    /\ WF_vars(PublishNext)
    /\ \A c \in Clients :
         /\ WF_vars(StreamStep(c))
         /\ WF_vars(ReadNextOwner(c) \/ Respond(c))
=============================================================================
