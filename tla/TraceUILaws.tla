---------------------------- MODULE TraceUILaws ----------------------------
(***************************************************************************)
(* What a client of the trace UI may rely on.                              *)
(***************************************************************************)
EXTENDS TraceUI

Buffered(c) == Range(channel[c].events)

\* The entries that events announce.
Announced == {Place(e) : e \in UNION {{f \in Range(b) : ~f.quiet} : b \in committed}}

\* doc.go:30: a client that opened its stream and then backfilled misses nothing: what is
\* committed it has seen, or is about to be sent, or was dropped since it last read
\* everything.  It is the order of the subscription and of the hello that keeps the two
\* requests from leaving a gap between them.
BackfilledClientMissesNothing ==
    \A c \in Clients :
      (client[c].backfilled /\ ~stream[c].ended) =>
        Announced \subseteq
          client[c].view \cup lost[c] \cup
            {Place(e) : e \in Buffered(c) \cup Range(unpublished)}

\* service.go:45: the streams of all services on one bus keep apart.  A stream that is
\* under way has its channel on the bus, and no other stream's end or start closes it.
StreamsKeepTheirChannels ==
    \A c \in Clients :
      (stream[c].subscribed /\ ~stream[c].ended) =>
        /\ channel[c].open
        /\ stream[c].id \in DOMAIN subs
        /\ subs[stream[c].id] = c

-----------------------------------------------------------------------------
\* An owner's parent is what precedes one of its colons.
Ancestry(owner) ==
    {owner} \cup {SubSeq(owner, 1, k - 1) : k \in {j \in DOMAIN owner : owner[j] = ":"}}

\* The ids a response shows for an owner, in its order.
Shown(r, o) == IdsOf(OwnedBy(r.records, o))

\* The ids of the first n entries of an owner that the request asks for.
Wanted(q, o, n) ==
    ElementsAt(paths[o], {k \in 1 .. n : ModeAdmits(parseMode(q.mode), paths[o][k])})

\* records.go:43: a response is made of many reads, and each of its paths is what that path
\* was at some moment since the request came, cut at through: nothing that was there at
\* first is missing, nothing is skipped, and no path outside the subtree is shown.
ResponsesCoverTheirStart ==
    \A c \in Clients : client[c].response.status = "ok" =>
      LET r == client[c].response
          Cut(n) == IF n <= r.request.through THEN n ELSE r.request.through + 1
      IN  \A o \in Range(Owners) :
            IF /\ r.request.path = << >> \/ r.request.path \in Ancestry(o)
               /\ Wanted(r.request, o, Cut(r.asked[o])) # << >>
            THEN \E n \in r.asked[o] .. Len(paths[o]) : Shown(r, o) = Wanted(r.request, o, Cut(n))
            ELSE Shown(r, o) = << >>

\* records.go:104: the edges of a response are those of its paths.  An edge is there if and
\* only if one path shows both its ends, and then once, although several paths may; each
\* path is read for itself, so an edge between facts that no path shows both of is left out.
EdgesAreThoseOfPaths ==
    \A c \in Clients : client[c].response.status = "ok" =>
      LET r == client[c].response
          On(o) == Range(Shown(r, o))
      IN  /\ IsInjective(r.causal_edges)
          /\ Range(r.causal_edges) =
               UNION {{e \in On(o) \X On(o) : e[1] \in Range(CausedBy[e[2]])} : o \in Range(Owners)}

\* records.go:37: a response is true of its paths and of the graph that each one shows.
ResponsesAreTrue == ResponsesCoverTheirStart /\ EdgesAreThoseOfPaths

\* doc.go:25: an event that reached a stream's channel is sent to the client.  So once the
\* writer rests, a client that opened its stream, read everything and keeps its stream has
\* seen everything or lost it to a newer event, however the two requests raced.
BackfilledClientsCatchUp ==
    <>[](\A c \in Clients :
           (client[c].backfilled /\ ~stream[c].ended) => Announced \subseteq client[c].view \cup lost[c])
=============================================================================
