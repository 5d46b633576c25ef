----------------------------- MODULE MCTraceUI -----------------------------
(***************************************************************************)
(* Instances of the trace UI for TLC.  A behaviour is of one scenario:     *)
(*                                                                         *)
(*   "streams"   two clients of two services stream, and the first asks    *)
(*               for everything;                                           *)
(*   "progress"  one client streams and asks twice, and more is published  *)
(*               than its channel holds;                                   *)
(*   "records"   nobody streams, and one client asks about a path.         *)
(***************************************************************************)
EXTENDS TraceUILaws

CONSTANTS c1, c2, x, y, z, w, Scenarios

VARIABLE scenario

MCOwners == << <<"a">>, <<"a", ":", "b">>, <<"a", "b">>, <<"w">> >>
a == MCOwners[1]
child == MCOwners[2]
other == MCOwners[3]
witness == MCOwners[4]

MCIds == {x, y, z, w}
MCMode == (x :> "capture") @@ (y :> "declaration") @@ (z :> "capture") @@ (w :> "capture")
MCCausedBy == (x :> << >>) @@ (y :> <<x>>) @@ (z :> <<x, y>>) @@ (w :> << >>)

E(owner, id) == [owner |-> owner, id |-> id, quiet |-> FALSE]
Quiet(owner, id) == [owner |-> owner, id |-> id, quiet |-> TRUE]

First  == <<Quiet(witness, w), E(a, x), E(child, y)>>
Second == <<E(a, y), E(other, x)>>
Third  == <<E(child, x), E(child, z)>>

MCBatches == {First, Second, Third, <<E(a, y)>>, <<E(a, x), E(a, y)>>, <<E(a, z)>>}

Q(path, through, mode) == [path |-> path, through |-> through, mode |-> mode]
Everything == {Q(<< >>, maxThrough, "")}
Questions ==
    {Q(<< >>, maxThrough, "both"), Q(<<"a">>, maxThrough, "both"), Q(<<"a">>, 0, "captures"),
     Q(<<"a">>, 1, "declarations_only"), Q(<<"a">>, -1, ""), Q(<<"a">>, 1, "other")}

MCRequests == Everything \cup Questions

MCClients == {c1, c2}
MCServiceOf == (c1 :> 1) @@ (c2 :> 2)
MCMaxAsks == (c1 :> 2) @@ (c2 :> 0)

-----------------------------------------------------------------------------
BatchesHere ==
    CASE scenario = "streams"  -> {First, <<E(a, y)>>}
      [] scenario = "progress" -> {<<E(a, x), E(a, y)>>, <<E(a, z)>>}
      [] scenario = "records"  -> {First, Second, Third}

StreamersHere ==
    CASE scenario = "streams" -> MCClients [] scenario = "progress" -> {c1} [] scenario = "records" -> {}

RequestsHere == IF scenario = "records" THEN Questions ELSE Everything

MayAsk(c) == client[c].asks = 0 \/ scenario = "progress"

MCInit == Init /\ scenario \in Scenarios

MCNext ==
    /\ \/ \E b \in BatchesHere : Commit(b)
       \/ PublishNext
       \/ \E c \in StreamersHere : NameStream(c)
       \/ \E c \in Clients :
            \/ StreamStep(c)
            \/ EndStream(c)
            \/ MayAsk(c) /\ \E q \in RequestsHere : AskRecords(c, q)
            \/ ReadNextOwner(c)
            \/ Respond(c)
    /\ UNCHANGED scenario

allVars == <<vars, scenario>>

MCSpec == MCInit /\ [][MCNext]_allVars

\* FairSpec's fairness.
MCFairSpec ==
    /\ MCSpec
    /\ WF_allVars(PublishNext /\ UNCHANGED scenario)
    /\ \A c \in Clients :
         /\ WF_allVars(StreamStep(c) /\ UNCHANGED scenario)
         /\ WF_allVars((ReadNextOwner(c) \/ Respond(c)) /\ UNCHANGED scenario)
=============================================================================
