----------------------------- MODULE MCRunTree -----------------------------
(***************************************************************************)
(* Instances of the run tree for TLC: a parent and a child.  A behaviour   *)
(* is of one scenario: in "tree" executions write their own paths, as the  *)
(* batch constructors make them; in "mixed" they do not.                   *)
(***************************************************************************)
EXTENDS RunTreeLaws

VARIABLE scenario

MCExecutions == {"parent", "child"}
MCFrontiers  == {"pf", "cf"}

Cut(f, target, through) ==
    [frontier_id |-> f, target |-> target, through |-> through, publisher |-> target]

Done(e) == Lifecycle("completed", e, "out")
Lost(e) == Lifecycle("failed", e, "err")
Link(b) == b.drafts[1]

\* A child that fails, is retried and completes; a parent that spawns it, adopts its
\* terminal frontier, and then abandons it for a second relation to the same child.
Spawn   == CreateExecutionRelationBatch("b1", "r1", "spawned", "parent", "child", "")
Adopt   == CreateExecutionRelationBatch("b2", "r1", "adopted", "parent", "child", "cf")
Abandon == CreateExecutionRelationBatch("", "r1", "abandoned", "parent", "child", "")
Respawn == CreateExecutionRelationBatch("", "r2", "spawned", "parent", "child", "cf")
Replace == Batch("b3", "parent", <<Link(Abandon), Link(Respawn)>>)

ChildRun == {CreateExecutionBatch("c1", "child", ""), FailExecutionBatch("c2", "child", "err"),
             CompleteExecutionBatch("c3", "child", "out")}

TreeBatches == {Spawn, Adopt, Replace} \cup ChildRun

\* The parent is cut anywhere, the child where it ended; a cut where the child started
\* is refused.
TreeCuts == {Cut("pf", "parent", Link(Adopt)), Cut("pf", "parent", Link(Abandon))}
TreeTerminalCuts == {Cut("cf", "child", Done("child")), Cut("cf", "child", Lost("child")),
                     Cut("cf", "child", Lifecycle("started", "child", ""))}

-----------------------------------------------------------------------------
\* Executions that write on each other's paths, facts that name no execution, a
\* completion after a failure, a relation that names another child, a kind nobody
\* knows, and a cut through a fact that is not on the target's path.
Nameless == [schema |-> "started", data |-> ""]
Foreign == Batch("x1", "parent", <<Nameless, Lifecycle("failed", "child", "err")>>)
Mislink == CreateExecutionRelationBatch("x2", "r1", "adopted", "parent", "parent", "cf")
Posted  == Batch("x3", "parent",
                 <<[schema |-> "published", data |-> "d"],
                   Link(CreateExecutionRelationBatch("", "r2", "merged", "parent", "child", ""))>>)

MixedBatches == {CreateExecutionBatch("p1", "parent", ""), CompleteExecutionBatch("p2", "parent", "out"),
                 CompleteExecutionBatch("c3", "child", "out"), Foreign, Mislink, Posted}

MixedCuts == {Cut("pf", "parent", Link(Mislink)), Cut("pf", "parent", Posted.drafts[2])}
MixedTerminalCuts == {Cut("cf", "child", Done("child")), Cut("cf", "child", Lost("child")),
                      Cut("pf", "parent", Lifecycle("started", "parent", ""))}

-----------------------------------------------------------------------------
MCBatches      == TreeBatches \cup MixedBatches
MCCuts         == TreeCuts \cup MixedCuts
MCTerminalCuts == TreeTerminalCuts \cup MixedTerminalCuts

MCInit == Init /\ scenario \in {"tree", "mixed"}

\* The calls of a scenario.
BatchesHere == IF scenario = "tree" THEN TreeBatches ELSE MixedBatches
CutsHere    == IF scenario = "tree" THEN TreeCuts ELSE MixedCuts
TerminalCutsHere == IF scenario = "tree" THEN TreeTerminalCuts ELSE MixedTerminalCuts

MCNext ==
    /\ \/ \E b \in BatchesHere : AppendBatch(b)
       \/ \E c \in CutsHere : PublishFrontier(c)
       \/ \E c \in TerminalCutsHere : PublishExecutionFrontier(c)
       \/ PublishTerminalFrontier
       \/ \E f \in FrontierIds, v \in {"payload", "shape_only"} : StartHistory(f, v)
       \/ ReaderStep
    /\ UNCHANGED scenario

MCSpec == MCInit /\ [][MCNext]_<<vars, scenario>>
=============================================================================
