------------------------------ MODULE RunTree ------------------------------
(***************************************************************************)
(* Executions, the relations between them, and the effective history of a  *)
(* run tree, on top of the trace store.                                    *)
(*                                                                         *)
(* The store is what TraceLog says it is: an owner path per execution to   *)
(* which a batch is added whole and once per intent, and frontiers that    *)
(* name a place of a path for ever.  Each query of a reader sees the       *)
(* committed paths, and appends run between any two of them.               *)
(*                                                                         *)
(* A fact stands for its id: equal drafts with equal causes and witness    *)
(* are one record.  Of a payload, only what the folds tell apart is kept:  *)
(* data stands for the inputs, the outputs or the error.                   *)
(*                                                                         *)
(* A definition X_Something is X with a mistake in it: no specification    *)
(* uses it, and the laws are known to tell it from X.                      *)
(***************************************************************************)
EXTENDS Naturals, Sequences, FiniteSets, SequencesExt, Subsequences

CONSTANTS
    Executions,     \* execution ids, each the owner of a path
    Batches,        \* the appends: [append_intent_id, trace_owner_id, drafts]
    FrontierIds,
    Cuts,           \* the calls of PublishFrontier: [frontier_id, target, through, publisher]
    TerminalCuts    \* the calls of PublishExecutionFrontier, of the same form

ASSUME CallsAssumption ==
    /\ \A b \in Batches : b.trace_owner_id \in Executions /\ b.drafts \in Seq(Range(b.drafts))
    /\ \A c \in Cuts \cup TerminalCuts : c.target \in Executions /\ c.publisher \in Executions

VARIABLES
    path,           \* execution -> the facts of its owner path
    intents,        \* the append intents committed so far
    frontiers,      \* frontier id -> [target, through, place]
    cut,            \* the terminal cut whose through fact was read, or NoCut
    readPc,         \* where ProjectEffectiveHistoryFromStore is
    visibility,     \* the visibility its caller asked for
    todo,           \* the frontiers it has still to resolve, the root's first
    row,            \* the index row of the one it is resolving
    slices,         \* the slices resolved so far, the root's first
    history         \* what it returns

storeVars  == <<path, intents, frontiers>>
readerVars == <<readPc, visibility, todo, row, slices, history>>
vars       == <<storeVars, cut, readerVars>>

NoCut     == [frontier_id |-> ""]
NoRow     == [target |-> ""]
NoFact    == [schema |-> ""]
NoHistory == [ok |-> FALSE]

Init ==
    /\ path = [e \in Executions |-> << >>]
    /\ intents = {}
    /\ frontiers = << >>
    /\ cut = NoCut
    /\ readPc = "idle"
    /\ visibility = "payload"
    /\ todo = << >>
    /\ row = NoRow
    /\ slices = << >>
    /\ history = NoHistory

-----------------------------------------------------------------------------
(***************************************************************************)
(* The canonical batches.                                                  *)
(***************************************************************************)
Lifecycle(schema, e, data) == [schema |-> schema, execution_id |-> e, data |-> data]

Batch(intent, owner, drafts) ==
    [append_intent_id |-> intent, trace_owner_id |-> owner, drafts |-> drafts]

CreateExecutionBatch(intent, e, inputs) ==
    Batch(intent, e, <<Lifecycle("created", e, inputs), Lifecycle("started", e, "")>>)

CompleteExecutionBatch(intent, e, outputs) ==
    Batch(intent, e, <<Lifecycle("completed", e, outputs)>>)

FailExecutionBatch(intent, e, error) ==
    Batch(intent, e, <<Lifecycle("failed", e, error)>>)

CreateExecutionRelationBatch(intent, relation, kind, parent, child, childFrontier) ==
    Batch(intent, parent,
          <<[schema |-> "relation", relation_id |-> relation, relation_kind |-> kind,
             parent_execution_id |-> parent, child_execution_id |-> child,
             child_frontier_id |-> childFrontier]>>)

-----------------------------------------------------------------------------
(***************************************************************************)
(* Appends and frontiers.  A frontier published without an intent of its   *)
(* own has the intent of its id, so publishing an id again changes         *)
(* nothing: it is a retry or a conflict.                                   *)
(***************************************************************************)
AppendBatch(b) ==
    /\ b.append_intent_id \notin intents
    /\ intents' = intents \cup {b.append_intent_id}
    /\ path' = [path EXCEPT ![b.trace_owner_id] = @ \o b.drafts]
    /\ UNCHANGED <<frontiers, cut, readerVars>>

Places(fact, owner) == {n \in DOMAIN path[owner] : path[owner][n] = fact}
LatestPlace(c) == Max(Places(c.through, c.target))

FrontierFact(c) ==
    [schema |-> "frontier", frontier_id |-> c.frontier_id, target |-> c.target,
     through |-> c.through, place |-> LatestPlace(c)]

Publish(c) ==
    IF c.frontier_id \in DOMAIN frontiers \/ Places(c.through, c.target) = {}
    THEN UNCHANGED <<path, frontiers>>
    ELSE /\ frontiers' = [f \in DOMAIN frontiers \cup {c.frontier_id} |->
                            IF f = c.frontier_id
                            THEN [target |-> c.target, through |-> c.through,
                                  place |-> LatestPlace(c)]
                            ELSE frontiers[f]]
         /\ path' = [path EXCEPT ![c.publisher] = Append(@, FrontierFact(c))]

PublishFrontier(c) ==
    /\ Publish(c)
    /\ UNCHANGED <<intents, cut, readerVars>>

IsTerminal_Lifecycle(fact) == fact.schema \in {"started", "completed", "failed"}
IsTerminal(fact) == fact.schema \in {"completed", "failed"}

Retained(fact) == \E e \in Executions : Places(fact, e) # {}

\* The terminal-frontier law looks at the through fact wherever it is retained, and
\* in a transaction before that of the frontier.
PublishExecutionFrontier(c) ==
    /\ cut = NoCut
    /\ Retained(c.through)
    /\ IsTerminal(c.through)
    /\ cut' = c
    /\ UNCHANGED <<storeVars, readerVars>>

PublishTerminalFrontier ==
    /\ cut # NoCut
    /\ Publish(cut)
    /\ cut' = NoCut
    /\ UNCHANGED <<intents, readerVars>>

-----------------------------------------------------------------------------
(***************************************************************************)
(* Projections: pure functions of a slice                                  *)
(*   [frontier_id, target, facts, visibility].                             *)
(***************************************************************************)
EnsureProjectionCompatible(slice) == slice.visibility # "shape_only"

OwnerPath(slice, owner) == IF owner = slice.target THEN slice.facts ELSE << >>

NewExecution(owner) ==
    [execution_id |-> owner, status |-> "pending", created |-> NoFact,
     started |-> NoFact, terminal |-> NoFact]

Skipped_Nothing(fact, owner) == FALSE
Skipped(fact, owner) ==
    "execution_id" \in DOMAIN fact /\ fact.execution_id # owner

FoldFact(owner, exec, fact) ==
    IF Skipped(fact, owner) THEN exec ELSE
    CASE fact.schema = "created"    -> [exec EXCEPT !.created = fact, !.status = "pending"]
      [] fact.schema = "started"    -> [exec EXCEPT !.started = fact, !.status = "running"]
      [] fact.schema = "completed"  -> [exec EXCEPT !.terminal = fact, !.status = "succeeded"]
      [] fact.schema = "failed"     -> [exec EXCEPT !.terminal = fact, !.status = "failed"]
      [] OTHER                      -> exec

ProjectExecution(slice, owner) ==
    LET facts == OwnerPath(slice, owner)
        exec[n \in 0 .. Len(facts)] ==
          IF n = 0 THEN NewExecution(owner) ELSE FoldFact(owner, exec[n - 1], facts[n])
    IN  exec[Len(facts)]

WithSchema(facts, schema) == ElementsAt(facts, {n \in DOMAIN facts : facts[n].schema = schema})

RelationFacts(slice, owner) == WithSchema(OwnerPath(slice, owner), "relation")

\* One relation of an unknown kind fails the projection of every slice it is in.
RelationKindsKnown(slice, owner) ==
    \A fact \in Range(RelationFacts(slice, owner)) :
      fact.relation_kind \in {"spawned", "adopted", "abandoned"}

ProjectExecutionRelations(slice, owner) ==
    LET facts == RelationFacts(slice, owner)
    IN  ElementsAt(facts, {n \in DOMAIN facts : facts[n].parent_execution_id = owner})

FactsOf(relations, id) == {i \in DOMAIN relations : relations[i].relation_id = id}

Latest_First(relations, id) == relations[Min(FactsOf(relations, id))]
Latest(relations, id) == relations[Max(FactsOf(relations, id))]

\* The latest fact of each relation, in the order the relations were first seen.
activeRelations(relations) ==
    LET first(n) == n = Min(FactsOf(relations, relations[n].relation_id))
        firsts == ElementsAt(relations, {n \in DOMAIN relations : first(n)})
        latest == [k \in DOMAIN firsts |-> Latest(relations, firsts[k].relation_id)]
    IN  ElementsAt(latest, {k \in DOMAIN latest : latest[k].relation_kind \in {"spawned", "adopted"}})

\* The frontiers of the active children that have one.
LinkedRelations(slice, owner) ==
    LET active == activeRelations(ProjectExecutionRelations(slice, owner))
    IN  ElementsAt(active, {k \in DOMAIN active : active[k].child_frontier_id # ""})

ProjectEffectiveHistory(root, owner, childSlices) ==
    LET childSlice(f) == CHOOSE s \in Range(childSlices) : s.frontier_id = f
        given(fact) == \E s \in Range(childSlices) : s.frontier_id = fact.child_frontier_id
        all    == LinkedRelations(root, owner)
        linked == ElementsAt(all, {k \in DOMAIN all : given(all[k])})
    IN  IF /\ EnsureProjectionCompatible(root)
           /\ RelationKindsKnown(root, owner)
           /\ \A fact \in Range(linked) :
                /\ childSlice(fact.child_frontier_id).target = fact.child_execution_id
                /\ EnsureProjectionCompatible(childSlice(fact.child_frontier_id))
        THEN [ok |-> TRUE,
              root |-> ProjectExecution(root, owner),
              relations |-> ProjectExecutionRelations(root, owner),
              children |-> [k \in DOMAIN linked |->
                 [relation |-> linked[k],
                  execution |-> ProjectExecution(childSlice(linked[k].child_frontier_id),
                                                 linked[k].child_execution_id)]],
              published |-> WithSchema(OwnerPath(root, owner), "published")]
        ELSE NoHistory

-----------------------------------------------------------------------------
(***************************************************************************)
(* ProjectEffectiveHistoryFromStore.  ResolveFrontier reads the index row  *)
(* of a frontier, then the entries up to its place.                        *)
(***************************************************************************)
Prefix_WholePath(paths, r) == paths[r.target]
Prefix(paths, r) == SubSeq(paths[r.target], 1, r.place)

SliceOf(paths, f, r, v) ==
    [frontier_id |-> f, target |-> r.target, facts |-> Prefix(paths, r), visibility |-> v]

StartHistory(f, v) ==
    /\ readPc = "idle"
    /\ todo' = <<f>>
    /\ visibility' = v
    /\ readPc' = "cutoff"
    /\ UNCHANGED <<storeVars, cut, row, slices, history>>

ReadCutoff ==
    /\ readPc = "cutoff"
    /\ Head(todo) \in DOMAIN frontiers
    /\ row' = frontiers[Head(todo)]
    /\ readPc' = "entries"
    /\ UNCHANGED <<storeVars, cut, visibility, todo, slices, history>>

UnknownFrontier ==
    /\ readPc = "cutoff"
    /\ Head(todo) \notin DOMAIN frontiers
    /\ readPc' = "done"
    /\ UNCHANGED <<storeVars, cut, visibility, todo, row, slices, history>>

Slice == SliceOf(path, Head(todo), row, visibility)

ChildFrontiers(slice) ==
    LET linked == LinkedRelations(slice, slice.target)
    IN  [k \in DOMAIN linked |-> linked[k].child_frontier_id]

StillToRead_ButTheLast ==
    IF slices = << >> /\ ChildFrontiers(Slice) # << >>
    THEN Front(ChildFrontiers(Slice)) ELSE Tail(todo)

StillToRead == IF slices = << >> THEN ChildFrontiers(Slice) ELSE Tail(todo)

\* The relations are projected from the root's slice as soon as it is resolved.
ReadEntries ==
    /\ readPc = "entries"
    /\ slices = << >> => /\ EnsureProjectionCompatible(Slice)
                         /\ RelationKindsKnown(Slice, Slice.target)
    /\ slices' = Append(slices, Slice)
    /\ todo' = StillToRead
    /\ readPc' = IF StillToRead = << >> THEN "project" ELSE "cutoff"
    /\ UNCHANGED <<storeVars, cut, visibility, row, history>>

RefuseRoot ==
    /\ readPc = "entries"
    /\ slices = << >>
    /\ ~(EnsureProjectionCompatible(Slice) /\ RelationKindsKnown(Slice, Slice.target))
    /\ readPc' = "done"
    /\ UNCHANGED <<storeVars, cut, visibility, todo, row, slices, history>>

Project ==
    /\ readPc = "project"
    /\ history' = ProjectEffectiveHistory(Head(slices), Head(slices).target, Tail(slices))
    /\ readPc' = "done"
    /\ UNCHANGED <<storeVars, cut, visibility, todo, row, slices>>

Return ==
    /\ readPc = "done"
    /\ readPc' = "idle"
    /\ visibility' = "payload"
    /\ todo' = << >>
    /\ row' = NoRow
    /\ slices' = << >>
    /\ history' = NoHistory
    /\ UNCHANGED <<storeVars, cut>>

-----------------------------------------------------------------------------
ReaderStep ==
    ReadCutoff \/ UnknownFrontier \/ ReadEntries \/ RefuseRoot \/ Project \/ Return

Next ==
    \/ \E b \in Batches : AppendBatch(b)
    \/ \E c \in Cuts : PublishFrontier(c)
    \/ \E c \in TerminalCuts : PublishExecutionFrontier(c)
    \/ PublishTerminalFrontier
    \/ \E f \in FrontierIds, v \in {"payload", "shape_only"} : StartHistory(f, v)
    \/ ReaderStep

Spec == Init /\ [][Next]_vars
=============================================================================
