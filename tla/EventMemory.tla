---------------------------- MODULE EventMemory ----------------------------
(***************************************************************************)
(* The memory behind the causal parents of the events that one Append      *)
(* publishes.  An event does not own its parents: publishAppendEvents      *)
(* makes them with append(group.CausalParents, draft.CausedByFactIDs...),  *)
(* and what append returns lies in the caller's array when that has room   *)
(* for the causes, or when there is nothing to append.  So the event of a  *)
(* draft without causes shares the caller's array whatever its capacity,   *)
(* and the caller, who is done with Append, may write there.               *)
(*                                                                         *)
(* An array is the sequence of its elements, a slice [array, len] its      *)
(* first len elements; the array's length is the slice's capacity.  A      *)
(* batch is [groups, drafts], a group the parents the caller gave it and   *)
(* the spare capacity behind them, and a draft [group, causes].            *)
(***************************************************************************)
EXTENDS Integers, Sequences

CONSTANTS
    Ids,            \* the ids of facts
    Batches,        \* the batches a caller may append
    Blank,          \* an element that was never written
    Extra           \* what the caller writes to its own slice afterwards

ASSUME BatchesAssumption ==
    /\ Extra \in Ids
    /\ \A b \in Batches :
         /\ b.groups \in Seq([parents : Seq(Ids), spare : Nat])
         /\ b.drafts \in Seq([group : DOMAIN b.groups, causes : Seq(Ids)])

VARIABLES
    batch,          \* the batch being appended
    heap,           \* the arrays
    parents,        \* the caller's slice for each group
    next,           \* the draft whose event is published next
    channel,        \* the events a subscriber has not received: [draft, parents]
    handled,        \* what it read of the events it has: [draft, causal_parents]
    written         \* the groups in whose slice the caller has written since

memoryVars == <<batch, heap, parents, next, channel, handled, written>>

Blanks(n) == [i \in 1 .. n |-> Blank]

MemoryInit ==
    /\ batch \in Batches
    /\ heap = [g \in DOMAIN batch.groups |->
                 batch.groups[g].parents \o Blanks(batch.groups[g].spare)]
    /\ parents = [g \in DOMAIN batch.groups |->
                    [array |-> g, len |-> Len(batch.groups[g].parents)]]
    /\ next = 1
    /\ channel = << >>
    /\ handled = << >>
    /\ written = {}

-----------------------------------------------------------------------------
Elements(h, slice) == SubSeq(h[slice.array], 1, slice.len)

HasCapacity(h, slice, n) == slice.len + n <= Len(h[slice.array])

\* The array with values written behind the slice.
Overwritten(array, from, values) ==
    [i \in DOMAIN array |-> IF i \in from + 1 .. from + Len(values) THEN values[i - from] ELSE array[i]]

\* append(slice, values...): in place if they fit, else in a new array.
AppendTo(h, slice, values) ==
    IF HasCapacity(h, slice, Len(values))
    THEN [heap  |-> [h EXCEPT ![slice.array] = Overwritten(@, slice.len, values)],
          slice |-> [slice EXCEPT !.len = @ + Len(values)]]
    ELSE [heap  |-> Append(h, Elements(h, slice) \o values),
          slice |-> [array |-> Len(h) + 1, len |-> slice.len + Len(values)]]

Causes(d) == batch.drafts[d].causes
GroupSlice(d) == parents[batch.drafts[d].group]

\* One buffer, with room to spare, for all the events of a batch.
EventParents_Reused(h, d) ==
    LET values == Elements(h, GroupSlice(d)) \o Causes(d)
        buffer_ == IF d = 1 THEN Append(h, values \o Blanks(2))
                   ELSE [h EXCEPT ![Len(h)] = Overwritten(@, 0, values)]
    IN  [heap  |-> buffer_, slice |-> [array |-> Len(buffer_), len |-> Len(values)]]

EventParents(h, d) == AppendTo(h, GroupSlice(d), Causes(d))

PublishEvent ==
    /\ next <= Len(batch.drafts)
    /\ LET appended == EventParents(heap, next)
       IN  /\ heap' = appended.heap
           /\ channel' = Append(channel, [draft |-> next, parents |-> appended.slice])
    /\ next' = next + 1
    /\ UNCHANGED <<batch, parents, handled, written>>

\* The subscriber reads the parents when it handles the event, not before.
HandleEvent ==
    /\ channel # << >>
    /\ handled' = Append(handled, [draft          |-> Head(channel).draft,
                                     causal_parents |-> Elements(heap, Head(channel).parents)])
    /\ channel' = Tail(channel)
    /\ UNCHANGED <<batch, heap, parents, next, written>>

Returned == next > Len(batch.drafts)

\* Append has returned, and the caller goes on with a slice that is its own:
\* append(parents[:n], Extra).  A short n writes within the slice, as parents[n] = Extra
\* does and as reusing parents[:0] does.
CallerAppends(g, n) ==
    /\ Returned
    /\ n <= parents[g].len
    /\ LET appended == AppendTo(heap, [parents[g] EXCEPT !.len = n], <<Extra>>)
       IN  /\ heap' = appended.heap
           /\ parents' = [parents EXCEPT ![g] = appended.slice]
    /\ written' = IF n < parents[g].len THEN written \cup {g} ELSE written
    /\ UNCHANGED <<batch, next, channel, handled>>

MemoryNext ==
    \/ PublishEvent
    \/ HandleEvent
    \/ \E g \in DOMAIN batch.groups : \E n \in 0 .. parents[g].len : CallerAppends(g, n)

MemorySpec == MemoryInit /\ [][MemoryNext]_memoryVars

-----------------------------------------------------------------------------
OwnParents(g) == batch.groups[g].parents
ParentsOf(d) == OwnParents(batch.drafts[d].group) \o Causes(d)

\* What the event of a draft without causes shows: the caller's array, as the caller
\* gave it unless it has written there, and at each place the parent it gave or what it wrote.
ShowsTheCallersArray(read, g) ==
    /\ g \notin written => read = OwnParents(g)
    /\ Len(read) = Len(OwnParents(g))
    /\ \A i \in DOMAIN OwnParents(g) : read[i] \in {OwnParents(g)[i], Extra}

\* store_append.go:87, for slices without spare capacity.  What a subscriber reads of a
\* draft with causes, however late, are the parents the batch gave that draft: no other
\* draft of its group and nothing the caller does with its slice shows in them.  A draft
\* without causes shares the caller's array, and there only the caller's own writes show.
EventsShareOnlyTheCallersWrites ==
    \A k \in DOMAIN handled :
      LET d == handled[k].draft
          read == handled[k].causal_parents
      IN  IF Causes(d) # << >> THEN read = ParentsOf(d)
          ELSE ShowsTheCallersArray(read, batch.drafts[d].group)

\* The caller has left its slices as they were when it called Append.
Untouched ==
    written = {} /\ \A g \in DOMAIN batch.groups : parents[g].len = Len(OwnParents(g))

\* effect.go:28: an event's causal parents link to the records that precede it.  As long as
\* the caller touches nothing, what a subscriber reads are the parents the batch gave that draft.
EventsKeepTheirParents ==
    Untouched =>
      \A k \in DOMAIN handled : handled[k].causal_parents = ParentsOf(handled[k].draft)

=============================================================================
