---------------------------- MODULE RunTreeLaws ----------------------------
(***************************************************************************)
(* What a run tree promises: a published frontier tells one history for    *)
(* ever, whoever reads it and whatever is appended meanwhile.              *)
(***************************************************************************)
EXTENDS RunTree

Facts == UNION {Range(path[e]) : e \in Executions}

\* The owner paths, the frontier index and the reader have their types; a frontier
\* names a place of its target's path that holds its through fact.
TypeOK ==
    /\ DOMAIN path = Executions
    /\ \A fact \in Facts : "schema" \in DOMAIN fact
    /\ DOMAIN frontiers \subseteq FrontierIds
    /\ \A f \in DOMAIN frontiers :
         /\ frontiers[f].target \in Executions
         /\ frontiers[f].place \in DOMAIN path[frontiers[f].target]
         /\ path[frontiers[f].target][frontiers[f].place] = frontiers[f].through
    /\ cut \in {NoCut} \cup TerminalCuts
    /\ readPc \in {"idle", "cutoff", "entries", "project", "done"}
    /\ readPc \in {"cutoff", "entries"} => todo # << >>
    /\ readPc = "project" => todo = << >> /\ slices # << >>
    /\ Range(todo) \subseteq FrontierIds
    /\ \A s \in Range(slices) : s.frontier_id \in DOMAIN frontiers

-----------------------------------------------------------------------------
(***************************************************************************)
(* What a reader of frontier f would be told if nothing ran beside it.     *)
(***************************************************************************)
Resolved(paths, index, f) == SliceOf(paths, f, index[f], "payload")

HistoryIn(paths, index, f) ==
    IF f \notin DOMAIN index THEN NoHistory
    ELSE LET root   == Resolved(paths, index, f)
             linked == ChildFrontiers(root)
         IN  IF Range(linked) \subseteq DOMAIN index
             THEN ProjectEffectiveHistory(root, root.target,
                    [k \in DOMAIN linked |-> Resolved(paths, index, linked[k])])
             ELSE NoHistory

HistoryOf(f) == HistoryIn(path, frontiers, f)

\* Law 22 of docs/law-coverage.md for whole run trees: once a frontier has a history,
\* no later append, abandonment, re-adoption or cut of a child changes it.  (The first
\* disjunct is for TLC, which looks inside the brackets first.)
HistoriesNeverChange ==
    [][UNCHANGED storeVars \/ \A f \in FrontierIds :
         HistoryOf(f).ok => HistoryIn(path', frontiers', f) = HistoryOf(f)]_storeVars

\* ProjectEffectiveHistoryFromStore is many queries with appends between them, and
\* answers as if it had been one.
ReaderSeesOneHistory ==
    \A s \in Range(slices) :
      (readPc = "done" /\ history.ok /\ s = Head(slices)) => history = HistoryOf(s.frontier_id)

\* Executions write their own paths only, as the batch constructors have them do.
OwnPathsOnly ==
    \A e \in Executions : \A fact \in Range(path[e]) :
      "execution_id" \in DOMAIN fact => fact.execution_id = e

\* The terminal-frontier law looks at one fact, on whatever path and before the
\* frontier is published; still an execution projected at its terminal frontier has
\* ended, and with that fact, as long as executions write their own paths only.  A
\* frontier that PublishFrontier publishes is under no such law.
UnderTerminalLaw ==
    {c \in TerminalCuts : \A d \in Cuts : d.frontier_id # c.frontier_id \/ d.through # c.through}

TerminalCutsEnd ==
    OwnPathsOnly => \A c \in UnderTerminalLaw :
      (c.frontier_id \in DOMAIN frontiers /\ frontiers[c.frontier_id].through = c.through) =>
        LET cutoff == frontiers[c.frontier_id]
            exec   == ProjectExecution(Resolved(path, frontiers, c.frontier_id), cutoff.target)
        IN  exec.status \in {"succeeded", "failed"} /\ exec.terminal = cutoff.through

\* The children of one history that was told.
HasActiveChildren(told) ==
    LET relations == told.relations
        children  == told.children
        active    == {i \in DOMAIN relations :
                        /\ relations[i].relation_kind # "abandoned"
                        /\ relations[i].child_frontier_id # ""
                        /\ \A j \in i + 1 .. Len(relations) :
                             relations[j].relation_id # relations[i].relation_id}
    IN  /\ {children[k].relation : k \in DOMAIN children} = {relations[i] : i \in active}
        /\ Len(children) = Cardinality(active)
        /\ \A k \in DOMAIN children :
             LET child  == children[k]
                 cutoff == frontiers[child.relation.child_frontier_id]
             IN  /\ cutoff.target = child.relation.child_execution_id
                 /\ child.execution.execution_id = cutoff.target
                 /\ child.execution =
                      ProjectExecution(Resolved(path, frontiers, child.relation.child_frontier_id),
                                       cutoff.target)

\* The children of a history are exactly the relations whose last word up to the
\* frontier is spawned or adopted, with a frontier, each once; and a child's execution is
\* what the path of that very child tells up to the frontier, not that of another.
ChildrenAreActive ==
    \A told \in {HistoryOf(f) : f \in FrontierIds} : told.ok => HasActiveChildren(told)

\* What the fold over an owner path comes to: the last lifecycle fact that is not
\* another execution's decides the status, and the last such fact of each kind is the
\* one projected, whatever other executions' facts lie on the path.
SaysOf(fact, owner) == "execution_id" \in DOMAIN fact => fact.execution_id = owner

LastOf(facts, schemas, owner) ==
    LET own == {n \in DOMAIN facts : facts[n].schema \in schemas /\ SaysOf(facts[n], owner)}
    IN  IF own = {} THEN NoFact ELSE facts[Max(own)]

StatusAfter ==
    [s \in {"", "created", "started", "completed", "failed"} |->
       CASE s \in {"", "created"} -> "pending" [] s = "started" -> "running"
         [] s = "completed" -> "succeeded"     [] s = "failed" -> "failed"]

ExecutionsAreLastWins ==
    \A e \in Executions :
      LET slice == SliceOf(path, "", [target |-> e, place |-> Len(path[e])], "payload")
          exec  == ProjectExecution(slice, e)
          last  == LastOf(path[e], {"created", "started", "completed", "failed"}, e)
      IN  /\ exec.status = StatusAfter[last.schema]
          /\ exec.created = LastOf(path[e], {"created"}, e)
          /\ exec.started = LastOf(path[e], {"started"}, e)
          /\ exec.terminal = LastOf(path[e], {"completed", "failed"}, e)
=============================================================================
