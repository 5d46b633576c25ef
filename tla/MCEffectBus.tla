---------------------------- MODULE MCEffectBus ----------------------------
(***************************************************************************)
(* Instances of the effect bus for TLC.  A behaviour is of one scenario:   *)
(*                                                                         *)
(*   "reuse"   two publishers, as on a bus two stores share, of an event   *)
(*             each, and more subscriptions than ids, so that one replaces *)
(*             another beside a third;                                     *)
(*   "shared"  two publishers with more events than a buffer holds;        *)
(*   "alone"   one publisher, as a store is that holds its append lock,    *)
(*             with twice as many events as a buffer holds;                *)
(*   "memory"  the events of one append and the arrays behind their        *)
(*             causal parents, which the caller goes on to use             *)
(*             (EventMemory).                                              *)
(***************************************************************************)
EXTENDS EffectBus, EventMemory

CONSTANTS p1, p2, s1, s2, c1, c2, c3, Scenarios

VARIABLE scenario

MCPublishers == {p1, p2}

allVars == <<vars, memoryVars, scenario>>

\* How many events publisher p has in a scenario.
EventsOf(p) ==
    CASE scenario = "reuse"  -> 1
      [] scenario = "shared" -> 2
      [] scenario = "alone"  -> IF p = p1 THEN MaxEvents ELSE 0
      [] scenario = "memory" -> 0

MCInit ==
    /\ scenario \in Scenarios
    /\ Init
    /\ MemoryInit
    /\ scenario # "memory" => batch = CHOOSE b \in Batches : TRUE

BusStep ==
    /\ Next
    /\ \A p \in Publishers : sent'[p] <= EventsOf(p)
    /\ scenario # "reuse" => state'[c3] = "new"

\* The caller's slice grows by one element at most, and is then written in place.
MemoryStep ==
    /\ MemoryNext
    /\ \A g \in DOMAIN parents' : parents'[g].len <= Len(OwnParents(g)) + 1

MCNext ==
    /\ \/ scenario # "memory" /\ BusStep /\ UNCHANGED memoryVars
       \/ scenario = "memory" /\ MemoryStep /\ UNCHANGED vars
    /\ UNCHANGED scenario

MCSpec == MCInit /\ [][MCNext]_allVars

\* The fairness of the bus: a publisher inside Publish keeps running.
MCFairSpec ==
    /\ MCSpec
    /\ \A p \in Publishers :
         WF_allVars(PublisherStep(p) /\ UNCHANGED <<memoryVars, scenario>>)

-----------------------------------------------------------------------------
(***************************************************************************)
(* Batches: one or two groups, two or three drafts.                        *)
(***************************************************************************)
CONSTANTS f1, f2, f3, f4

MCIds == {f1, f2, f3, f4}

G(parents_, spare_) == [parents |-> parents_, spare |-> spare_]
D(group, causes) == [group |-> group, causes |-> causes]

CauseLists == {<< >>, <<f2>>, <<f3>>}

\* Slices that were written out or clipped: no room behind them.
ClippedBatches ==
    {[groups |-> <<G(own, 0), G(<< >>, 0)>>, drafts |-> <<D(1, a), D(1, b), D(2, c)>>] :
       own \in {<< >>, <<f1>>, <<f1, f2>>}, a \in CauseLists, b \in CauseLists, c \in CauseLists}

\* A slice that append has grown: room for one more.
GrownBatches ==
    {[groups |-> <<G(<<f1>>, 1)>>, drafts |-> <<D(1, a), D(1, b)>>] :
       a \in CauseLists, b \in CauseLists}
=============================================================================
