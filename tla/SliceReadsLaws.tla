--------------------------- MODULE SliceReadsLaws ---------------------------
(***************************************************************************)
(* What a read promises although the writers run between its queries.  The *)
(* answer stays after the read has ended, so an invariant about it and db  *)
(* compares it with everything that is committed later as well.            *)
(***************************************************************************)
EXTENDS SliceReads

Answered(op) == answer.status = "ok" /\ answer.req.op = op
SliceAnswered == answer.status = "ok" /\ answer.req.op \in {"prefix", "closure", "frontier"}

FactsShown == {e.record_id : e \in Range(answer.path_facts)}
AnchorsShown == Range(answer.looked_up.external_anchors)

Wanted(id) == modeMatches(db.records[id], answer.req.mode_filter)

InPathOrder(entries) == \A i, j \in DOMAIN entries : i < j => EntryBefore(entries[i], entries[j])

\* The answer shows those of the rows that have the mode that was asked for, each once.
ShowsRows(rows) ==
    /\ Range(answer.path_facts) = {e \in rows : Wanted(e.record_id)}
    /\ InPathOrder(answer.path_facts)

\* The edge table between facts of the answer, and what it says lies outside of them.
EdgesAmong(ids) == {<<d.parent, d.child>> : d \in {c \in db.edges : {c.parent, c.child} \subseteq ids}}
ParentsOutside(ids) == {d.parent : d \in {c \in db.edges : c.child \in ids}} \ ids

-----------------------------------------------------------------------------
\* A prefix read, of one path or of all, shows the paths as they were at one moment,
\* without gap, repetition or reordering, whatever was appended while the entries
\* were loaded one by one.  A read whose context ends may show nothing instead.
PrefixesAreSnapshots ==
    (Answered("prefix") /\ answer.path_facts # << >>) =>
      ShowsRows({e \in db.paths : /\ answer.req.owner \in {"", e.path_ref}
                                  /\ e.path_ordinal <= answer.req.through
                                  /\ e.path_ordinal < answer.as_of[e.path_ref]})

\* A published cut reads the same for ever: its facts, their order, the edges among
\* them and the parents outside are what the index row cuts off now, however much was
\* appended since, to its path or to others.
CutsReadTheSame ==
    (Answered("frontier") /\ answer.path_facts # << >>) =>
      LET cut == db.frontiers[answer.req.frontier_id]
      IN  /\ ShowsRows({e \in db.paths : /\ e.path_ref = cut.target_trace_owner_id
                                         /\ e.path_ordinal <= cut.through_owner_ordinal})
          /\ answer.causal_edges = EdgesAmong(FactsShown)
          /\ {a.ref : a \in AnchorsShown} = ParentsOutside(FactsShown)

\* The records that every set with the roots and all its members' parents has.
Ancestors(roots) ==
    LET closed == {S \in SUBSET DOMAIN db.records :
                     roots \subseteq S /\ \A d \in db.edges : d.child \in S => d.parent \in S}
    IN  {id \in DOMAIN db.records : \A S \in closed : id \in S}

\* A closure is the roots and all their ancestors in the edge table, each once and in
\* path order, with every edge among them; the mode filter selects from it and does not
\* prune the walk, and the parents it filters out are anchored under
\* include_external_anchors only.
ClosuresAreExact ==
    (Answered("closure") /\ answer.path_facts # << >>) =>
      /\ FactsShown = {id \in Ancestors(Range(answer.req.roots)) : Wanted(id)}
      /\ InPathOrder(answer.path_facts)
      /\ \A e, f \in Range(answer.path_facts) : e.record_id = f.record_id => e = f
      /\ answer.causal_edges = EdgesAmong(FactsShown)
      /\ {a.ref : a \in AnchorsShown} =
           IF answer.req.policy = "visible_only" THEN {} ELSE ParentsOutside(FactsShown)

\* Failed lookups are swallowed: a context that cannot be read is left out and a
\* parent that cannot be read loses its shape.  No answer is short of either, because
\* the context that ended fails the witness queries that come after.
AnswersAreComplete ==
    SliceAnswered =>
      LET contexts == {e.context_ref : e \in Range(answer.path_facts)} \ {<< >>}
      IN  /\ IF answer.req.auth.visibility_profile = "shape_only"
             THEN Range(answer.looked_up.context_anchors) = contexts
             ELSE answer.looked_up.contexts = contexts
          /\ \A a \in AnchorsShown : a.hidden_reason = "outside_frontier"

\* The witnesses of an answer are closed to the root, each there once, whatever the
\* mode filter left of the facts: every witness that is cited is there, and nothing
\* that no fact or witness cites.
WitnessesAreClosed ==
    SliceAnswered =>
      LET shown == Range(answer.looked_up.witnesses)
      IN  /\ IsInjective(answer.looked_up.witnesses)
          /\ shown = {db.records[id].witness_ref : id \in FactsShown \cup shown} \ {RootWitnessRef}

\* store_read.go:236: what a read answers is not short of a context, an anchor or a witness.
AnswersAreWhole == AnswersAreComplete /\ WitnessesAreClosed

\* A read ends although appends keep extending what it reads: a closure walks from a
\* fact to older ones only.
ReadsEnd == rpc # "idle" ~> rpc = "idle"

-----------------------------------------------------------------------------
(***************************************************************************)
(* What the repository says and the code does not do.                      *)
(***************************************************************************)
\* store_read.go:82: ReadCausalClosure reads the causal closure of its roots.  When its
\* context ends after the walk, the query for the entries fails, its error is dropped
\* and an empty slice is returned as a success.
ClosuresHoldTheirRoots ==
    (Answered("closure") /\ answer.req.mode_filter = "both") =>
      Range(answer.req.roots) \subseteq FactsShown
=============================================================================
