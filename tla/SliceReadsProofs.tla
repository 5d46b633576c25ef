-------------------------- MODULE SliceReadsProofs --------------------------
(***************************************************************************)
(* Proofs about reads of the trace store, for every set of calls, owners   *)
(* and requests, with writers that may be cancelled or crash between any   *)
(* two queries.                                                            *)
(***************************************************************************)
EXTENDS SliceReadsLaws, TraceStoreProofs

-----------------------------------------------------------------------------
(***************************************************************************)
(* What a reader counts on.  No read checks that the causes of a record    *)
(* are a list, that the contexts its entries name are retained or that the *)
(* root witness stands alone; the writers see to it.                       *)
(***************************************************************************)
CausesListed(t) == \A id \in DOMAIN t.records : IsPath(t.records[id].caused_by)

\* Only the root witness cites no witness, and it has no schema in common with others.
RootAlone(t) ==
    \A id \in DOMAIN t.records :
      \/ t.records[id].schema_ref = RootWitnessSchemaRef
      \/ t.records[id].witness_ref = RootWitnessRef
      => id = RootWitnessRecordID

\* The contexts of entries are retained, and witnesses have none.
ContextsKept(t) ==
    \A e \in t.paths :
      e.context_ref # << >> => /\ e.context_ref \in DOMAIN t.contexts
                               /\ e.record_id # RootWitnessRecordID

\* No path is named by the empty string, which stands for all paths in a request.
PathsNamed(t) == \A e \in t.paths : e.path_ref # ""

Legible(t) == CausesListed(t) /\ RootAlone(t) /\ ContextsKept(t) /\ PathsNamed(t)

\* The context that the group of draft k will have.
ContextId(k) ==
    IF ContextOf(k).form = "reuse" THEN ContextOf(k).id
    ELSE contextIDFor(batch.append_intent_id, Draft(k).group,
                      contextPayload(DraftContent(ContextOf(k)), call.auth))

PreparedLegible(k) ==
    /\ IsPath(facts[k].caused_by)
    /\ facts[k].schema_ref # RootWitnessSchemaRef
    /\ facts[k].witness_ref # RootWitnessRef
    /\ facts[k].record_id # RootWitnessRecordID
    /\ facts[k].context_ref = ContextId(k)
    /\ facts[k].trace_owner_id # ""

LegibleInv ==
    /\ Legible(db) /\ Legible(work)
    /\ pc = "stage" => validateBatchShape(batch)
    /\ pc \in {"stage", "witness", "fact"} => \A k \in DOMAIN facts : PreparedLegible(k)
    /\ (pc \in {"witness", "fact"} /\ ~ctxDone) =>
         \A k \in DOMAIN facts : facts[k].context_ref \in DOMAIN work.contexts

\* The context of a group is named alike before and after it is retained.
LEMMA ContextNamed ==
    ASSUME NEW k
    PROVE  RetainedContext(k).context_id = ContextId(k)
  BY DEF RetainedContext, ContextId, ContextOf

\* A fact's row and entry are inserted and nothing else that a reader looks at.
LEMMA InsertAdds ==
    ASSUME NEW t, DOMAIN t = TableNames, NEW fact, NEW r
    PROVE  LET u == insertFactRow(t, fact, r)
           IN  /\ u.paths = t.paths \cup {Entry(fact, r)}
               /\ \A id \in DOMAIN u.records :
                    \/ id \in DOMAIN t.records /\ u.records[id] = t.records[id]
                    \/ id = fact.record_id /\ u.records[id] = Row(fact)
               /\ u.contexts = t.contexts
<1> DEFINE u == insertFactRow(t, fact, r)
           x == fact.record_id
<1>1. /\ u.paths = t.paths \cup {Entry(fact, r)}
      /\ x \in DOMAIN t.records => u.records = t.records /\ u.edges = t.edges
      /\ x \notin DOMAIN t.records =>
           /\ u.records = [id \in DOMAIN t.records \cup {x} |->
                             IF id = x THEN Row(fact) ELSE t.records[id]]
           /\ u.edges = t.edges \cup Edges(fact)
  BY InsertFactRowGraph
<1>2. u.contexts = t.contexts
  <2> DEFINE v == insertRecordIfMissing(t, fact)
  <2>1. v.contexts = t.contexts /\ DOMAIN v = TableNames
    BY DEF insertRecordIfMissing, TableNames
  <2>2. u = [v EXCEPT !.paths = @ \cup {Entry(fact, r)}]
    BY DEF insertFactRow
  <2> HIDE DEF v, u
  <2> QED
    BY <2>1, <2>2 DEF TableNames
<1> HIDE DEF u, x
<1>3. \A id \in DOMAIN u.records : \/ id \in DOMAIN t.records /\ u.records[id] = t.records[id]
                                   \/ id = x /\ u.records[id] = Row(fact)
  <2>1. CASE x \in DOMAIN t.records
    BY <1>1, <2>1
  <2>2. CASE x \notin DOMAIN t.records
    <3>1. u.records = [id \in DOMAIN t.records \cup {x} |->
                         IF id = x THEN Row(fact) ELSE t.records[id]]
      BY <1>1, <2>2
    <3> QED
      BY <3>1
  <2> QED
    BY <2>1, <2>2
<1> QED
  BY <1>1, <1>2, <1>3 DEF u, x

\* A row and an entry are inserted, and the contexts stay.
LEMMA InsertLegible ==
    ASSUME NEW t, DOMAIN t = TableNames, Legible(t), NEW fact, NEW r,
           IsPath(fact.caused_by),
           \/ fact.schema_ref = RootWitnessSchemaRef
           \/ fact.witness_ref = RootWitnessRef
           => fact.record_id = RootWitnessRecordID,
           fact.context_ref # << >> => /\ fact.context_ref \in DOMAIN t.contexts
                                       /\ fact.record_id # RootWitnessRecordID,
           fact.trace_owner_id # ""
    PROVE  Legible(insertFactRow(t, fact, r)) /\ insertFactRow(t, fact, r).contexts = t.contexts
<1> DEFINE u == insertFactRow(t, fact, r)
           e == Entry(fact, r)
<1>1. /\ u.paths = t.paths \cup {e}
      /\ \A id \in DOMAIN u.records :
           \/ id \in DOMAIN t.records /\ u.records[id] = t.records[id]
           \/ id = fact.record_id /\ u.records[id] = Row(fact)
      /\ u.contexts = t.contexts
  BY InsertAdds
<1>2. /\ e.context_ref = fact.context_ref /\ e.record_id = fact.record_id
      /\ e.path_ref = fact.trace_owner_id
  BY DEF Entry
<1>3. /\ Row(fact).caused_by = fact.caused_by /\ Row(fact).schema_ref = fact.schema_ref
      /\ Row(fact).witness_ref = fact.witness_ref
  BY DEF Row
<1> HIDE DEF u, e
<1>4. CausesListed(u) /\ RootAlone(u)
  BY <1>1, <1>3 DEF Legible, CausesListed, RootAlone
<1>5. ContextsKept(u) /\ PathsNamed(u)
  BY <1>1, <1>2 DEF Legible, ContextsKept, PathsNamed
<1> QED
  BY <1>1, <1>4, <1>5 DEF Legible, u

\* Only records, paths and contexts matter, and more contexts do no harm.
LEMMA SameLegible ==
    ASSUME NEW t, NEW u, u.records = t.records, u.paths = t.paths,
           DOMAIN t.contexts \subseteq DOMAIN u.contexts, Legible(t)
    PROVE  Legible(u)
  BY DEF Legible, CausesListed, RootAlone, ContextsKept, PathsNamed

\* The causes of a draft are a list.
LEMMA CausesAreListed ==
    ASSUME SoundBatch(batch), NEW k \in DOMAIN batch.drafts
    PROVE  IsPath(resolvedCauses(k))
<1> DEFINE local == [i \in DOMAIN Draft(k).caused_by_local_refs |->
                       facts[Max(LocalDrafts(Draft(k).caused_by_local_refs[i]))].record_id]
           ps == GroupOf(batch, k).causal_parents
           qs == Draft(k).caused_by_fact_ids
           refs == Draft(k).caused_by_local_refs
           cs == resolvedCauses(k)
<1>1. cs = (ps \o qs) \o local
  BY DEF resolvedCauses
<1>2. ps \in Seq(Range(ps)) /\ qs \in Seq(Range(qs)) /\ refs \in Seq(Range(refs))
  BY DEF SoundBatch, Draft
<1>3. local = [i \in DOMAIN refs |-> local[i]]
  OBVIOUS
<1> HIDE DEF local, ps, qs, refs, cs
<1>4. IsPath(local)
  BY <1>2, <1>3, MapIsPath DEF IsPath
<1> DEFINE S == Range(ps) \cup Range(qs) \cup Range(local)
<1>5. ps \in Seq(S) /\ qs \in Seq(S) /\ local \in Seq(S)
  BY <1>2, <1>4 DEF Range, IsPath
<1> HIDE DEF S
<1>6. cs \in Seq(S)
  BY <1>1, <1>5
<1>7. IsPath(cs)
  BY <1>6, OverOwnRange DEF IsPath
<1> QED
  BY <1>7 DEF cs

\* A draft is prepared.
LEMMA StageDraftLegible ==
    ASSUME TypeOK, PreparedWitnessed, ContentInv, LegibleInv, StageDraft
    PROVE  LegibleInv'
<1> DEFINE f == PreparedFact(at)
<1>1. /\ pc = "stage" /\ pc' = pc /\ db' = db /\ work' = work /\ facts' = Append(facts, f)
      /\ batch' = batch /\ call' = call /\ at \in DOMAIN batch.drafts
      /\ ValidateRecordInput(Draft(at).schema_ref, Draft(at).mode)
  BY DEF StageDraft
<1>2. IsPath(resolvedCauses(at))
  BY <1>1, CausesAreListed DEF ContentInv
<1>3. /\ f.caused_by = resolvedCauses(at) /\ f.schema_ref = Draft(at).schema_ref
      /\ f.record_id[1] = Draft(at).schema_ref
      /\ f.witness_ref = WitnessOf(at).record_id
      /\ f.context_ref = RetainedContext(at).context_id
  BY DigestFields DEF PreparedFact
<1>4. f.schema_ref # RootWitnessSchemaRef /\ f.record_id # RootWitnessRecordID
  <2>1. RootWitnessRecordID[1] = RootWitnessSchemaRef
    BY DigestFields DEF RootWitnessRecordID
  <2> QED
    BY <1>1, <1>3, <2>1 DEF ValidateRecordInput
<1>5. f.witness_ref # RootWitnessRef
  <2>1. \A content, auth : ordinaryWitnessPlan(content, auth).record_id # << >>
    BY DEF ordinaryWitnessPlan, RecordDigest
  <2> QED
    BY <1>3, <2>1 DEF WitnessOf, RootWitnessRef
<1>6. f.context_ref = ContextId(at) /\ f.trace_owner_id # ""
  <2>1. f.trace_owner_id = GroupOf(batch, at).trace_owner_id
    BY DEF PreparedFact
  <2>2. Draft(at).group \in DOMAIN batch.groups
    BY <1>1 DEF ContentInv, SoundBatch, Draft
  <2>3. GroupOf(batch, at).trace_owner_id # ""
    BY <1>1, <2>2 DEF LegibleInv, validateBatchShape, GroupOf, Draft
  <2> QED
    BY <1>3, <2>1, <2>3, ContextNamed
<1> HIDE DEF f
<1>7. /\ Len(facts) \in Nat /\ DOMAIN facts = 1 .. Len(facts) /\ at = Len(facts) + 1
      /\ DOMAIN facts' = 1 .. Len(facts) + 1
      /\ \A k \in 1 .. Len(facts) : facts'[k] = facts[k]
      /\ facts'[Len(facts) + 1] = f
  BY <1>1, AppendOverRange DEF TypeOK, PreparedWitnessed
<1>8. ASSUME NEW k \in DOMAIN facts' PROVE PreparedLegible(k)'
  <2>1. ContextId(k)' = ContextId(k)
    BY <1>1 DEF ContextId, ContextOf, Draft
  <2>2. CASE k = at
    BY <1>2, <1>3, <1>4, <1>5, <1>6, <1>7, <2>1, <2>2 DEF PreparedLegible
  <2>3. CASE k \in DOMAIN facts
    <3>1. PreparedLegible(k) /\ facts'[k] = facts[k]
      BY <1>1, <1>7, <2>3 DEF LegibleInv
    <3> QED
      BY <2>1, <3>1 DEF PreparedLegible
  <2> QED
    BY <1>7, <2>2, <2>3
<1> QED
  BY <1>1, <1>8 DEF LegibleInv

\* The intent is retained with the contexts of its groups.
LEMMA RetainIntentLegible ==
    ASSUME TypeOK, LegibleInv, RetainIntent
    PROVE  LegibleInv'
<1>1. /\ pc = "stage" /\ pc' = "witness" /\ db' = db /\ facts' = facts /\ batch' = batch /\ call' = call
      /\ work' = [work EXCEPT !.intents = WithIntent(work), !.contexts = WithContexts(work)]
  BY DEF RetainIntent
<1>2. DOMAIN work = TableNames
  BY EmptyTablesFields DEF TypeOK, TablesTypeOK
<1>3. work'.records = work.records /\ work'.paths = work.paths /\ work'.contexts = WithContexts(work)
  BY <1>1, <1>2 DEF TableNames
<1>4. DOMAIN work'.contexts = DOMAIN work.contexts \cup {c.context_id : c \in NewContexts}
  BY <1>3 DEF WithContexts
<1>5. Legible(work')
  BY <1>3, <1>4, SameLegible DEF LegibleInv
<1>6. ASSUME NEW k \in DOMAIN facts
      PROVE  PreparedLegible(k)' /\ facts[k].context_ref \in DOMAIN work'.contexts
  <2>1. PreparedLegible(k)
    BY <1>1 DEF LegibleInv
  <2>2. PreparedLegible(k)'
    BY <1>1, <2>1 DEF PreparedLegible, ContextId, ContextOf, Draft
  <2>3. facts[k].context_ref = RetainedContext(k).context_id
    BY <2>1, ContextNamed DEF PreparedLegible
  <2>4. CASE RetainedContext(k).context_id \in DOMAIN work.contexts
    BY <1>4, <2>2, <2>3, <2>4
  <2>5. CASE RetainedContext(k).context_id \notin DOMAIN work.contexts
    <3>1. RetainedContext(k) \in NewContexts
      BY <2>5 DEF NewContexts
    <3> QED
      BY <1>4, <2>2, <2>3, <3>1
  <2> QED
    BY <2>4, <2>5
<1> QED
  BY <1>1, <1>5, <1>6 DEF LegibleInv

\* A witness has no context, and only the root's cites none.
LEMMA InsertWitnessLegible ==
    ASSUME TypeOK, LegibleInv, InsertWitness
    PROVE  LegibleInv'
<1> DEFINE plan == Plan(at)
           f == WitnessFact(plan)
           r == <<"witness", plan.record_id>>
           t == insertFactRow(work, f, r)
           n == [t.next EXCEPT ![witnessTraceOwnerID] = @ + 1]
<1>1. /\ pc = "witness" /\ pc' = pc /\ db' = db /\ facts' = facts /\ batch' = batch /\ call' = call
      /\ ~ctxDone /\ ctxDone' = ctxDone
  BY DEF InsertWitness
<1>2. \/ plan.schema_ref = RootWitnessSchemaRef
      \/ plan.witness_ref = RootWitnessRef
      => plan.record_id = RootWitnessRecordID
  <2>1. \A content, auth : /\ ordinaryWitnessPlan(content, auth).schema_ref = WitnessSchemaRef
                           /\ ordinaryWitnessPlan(content, auth).witness_ref = RootWitnessRecordID
    BY DEF ordinaryWitnessPlan
  <2>2. rootWitnessPlan.record_id = RootWitnessRecordID
    BY DEF rootWitnessPlan
  <2>3. RootWitnessRecordID # RootWitnessRef /\ WitnessSchemaRef # RootWitnessSchemaRef
    BY DEF RootWitnessRecordID, RecordDigest, RootWitnessRef, WitnessSchemaRef, RootWitnessSchemaRef
  <2>4. plan = rootWitnessPlan \/ plan = WitnessOf(at)
    BY DEF Plan
  <2> QED
    BY <2>1, <2>2, <2>3, <2>4 DEF WitnessOf
<1>3. /\ f.record_id = plan.record_id /\ f.schema_ref = plan.schema_ref
      /\ f.witness_ref = plan.witness_ref /\ f.caused_by = << >> /\ f.context_ref = << >>
      /\ f.trace_owner_id # ""
  BY DEF WitnessFact, witnessTraceOwnerID
<1>4. IsPath(<< >>)
  BY DEF IsPath
<1>5. DOMAIN work = TableNames
  BY EmptyTablesFields DEF TypeOK, TablesTypeOK
<1>6. work' = [t EXCEPT !.next = n]
  BY DEF InsertWitness
<1> HIDE DEF plan, f, r, n
<1>7. Legible(t) /\ t.contexts = work.contexts /\ DOMAIN t = TableNames
  BY <1>2, <1>3, <1>4, <1>5, InsertLegible, InsertFactRowFields DEF LegibleInv
<1> HIDE DEF t
<1>8. work'.records = t.records /\ work'.paths = t.paths /\ work'.contexts = t.contexts
  BY <1>6, <1>7 DEF TableNames
<1>9. Legible(work')
  BY <1>7, <1>8, SameLegible
<1>10. \A k \in DOMAIN facts : PreparedLegible(k)' <=> PreparedLegible(k)
  BY <1>1 DEF PreparedLegible, ContextId, ContextOf, Draft
<1> QED
  BY <1>1, <1>7, <1>8, <1>9, <1>10 DEF LegibleInv

\* A fact is inserted with a context that is retained.
LEMMA InsertFactLegible ==
    ASSUME TypeOK, LegibleInv, InsertFact
    PROVE  LegibleInv'
<1> DEFINE f == facts[at]
           r == <<"commit", f.commit>>
<1>1. /\ pc = "fact" /\ pc' = pc /\ db' = db /\ facts' = facts /\ batch' = batch /\ call' = call
      /\ ~ctxDone /\ ctxDone' = ctxDone
      /\ at \in DOMAIN facts /\ work' = insertFactRow(work, f, r)
  BY DEF InsertFact
<1>2. /\ IsPath(f.caused_by) /\ f.schema_ref # RootWitnessSchemaRef
      /\ f.witness_ref # RootWitnessRef /\ f.record_id # RootWitnessRecordID
      /\ f.context_ref \in DOMAIN work.contexts /\ f.trace_owner_id # ""
  BY <1>1 DEF LegibleInv, PreparedLegible
<1>3. DOMAIN work = TableNames
  BY EmptyTablesFields DEF TypeOK, TablesTypeOK
<1> HIDE DEF f, r
<1>4. Legible(work') /\ work'.contexts = work.contexts
  BY <1>1, <1>2, <1>3, InsertLegible DEF LegibleInv
<1>5. \A k \in DOMAIN facts : PreparedLegible(k)' <=> PreparedLegible(k)
  BY <1>1 DEF PreparedLegible, ContextId, ContextOf, Draft
<1> QED
  BY <1>1, <1>4, <1>5 DEF LegibleInv

\* The others write no records, no entries and no contexts, or drop or commit what is
\* written.
LEMMA OthersLegible ==
    ASSUME TypeOK, PathInv, LegibleInv, [Next]_vars,
           ~StageDraft, ~RetainIntent, ~InsertWitness, ~InsertFact
    PROVE  LegibleInv'
<1>1. /\ Legible(db') /\ Legible(work')
      /\ work' # db => work'.contexts = work.contexts
  <2>1. CASE AdvanceCounters \/ IndexFrontier
    <3>1. DOMAIN work = TableNames
      BY EmptyTablesFields DEF TypeOK, TablesTypeOK
    <3>2. /\ db' = db /\ work'.records = work.records /\ work'.paths = work.paths
          /\ work'.contexts = work.contexts
      BY <2>1, <3>1 DEF AdvanceCounters, IndexFrontier, TableNames
    <3> QED
      BY <3>2, SameLegible DEF LegibleInv
  <2>2. CASE ~AdvanceCounters /\ ~IndexFrontier
    <3>1. (db' = db \/ db' = work) /\ (work' = work \/ work' = db)
      BY <2>2, OthersKeepTables DEF Writes
    <3> QED
      BY <3>1 DEF LegibleInv
  <2> QED
    BY <2>1, <2>2
<1>2. CASE pc' \notin {"stage", "witness", "fact"}
  BY <1>1, <1>2 DEF LegibleInv
<1>3. CASE /\ facts' = facts /\ batch' = batch /\ call' = call
           /\ pc \in {"stage", "witness", "fact"} /\ (pc' = "stage" => pc = "stage")
           /\ (pc' \in {"witness", "fact"} /\ ~ctxDone') =>
                pc \in {"witness", "fact"} /\ ~ctxDone /\ work' = work
  <2>1. \A k \in DOMAIN facts : PreparedLegible(k)' <=> PreparedLegible(k)
    BY <1>3 DEF PreparedLegible, ContextId, ContextOf, Draft
  <2> QED
    BY <1>1, <1>3, <2>1 DEF LegibleInv
<1>4. CASE /\ facts' = facts /\ batch' = batch /\ pc = "lookup" /\ pc' \in {"lookup", "stage"}
           /\ pc' = "stage" => validateBatchShape(batch)
  <2>1. facts' = << >>
    BY <1>4 DEF PathInv, PreparedInv
  <2>2. DOMAIN facts' = {}
    BY <2>1
  <2> QED
    BY <1>1, <1>4, <2>2 DEF LegibleInv
<1>5. CASE Begin \/ ResolveThrough \/ Errors \/ Crash \/ Return \/ AnswerRetry \/ AdvanceCounters
           \/ IndexFrontier \/ KeepFrontier \/ CommitTx \/ PublishEvent \/ EndPublish
  BY <1>2, <1>5, ErrorsFail DEF Begin, BeginAppend, BeginPublish, RefuseCaller, ResolveThrough, Fail,
     Crash, Return, Forget, AnswerRetry, AdvanceCounters, IndexFrontier, KeepFrontier, CommitTx,
     PublishEvent, EndPublish
<1>6. CASE StartStaging
  BY <1>4, <1>6 DEF StartStaging
<1>7. CASE KeepWitness \/ EndWitnesses
  BY <1>3, <1>7 DEF KeepWitness, EndWitnesses
<1>8. CASE Cancel \/ UNCHANGED vars
  <2>1. /\ facts' = facts /\ batch' = batch /\ call' = call /\ pc' = pc
        /\ ctxDone' \/ (ctxDone' = ctxDone /\ work' = work)
    BY <1>8 DEF Cancel, vars, scratch
  <2> QED
    BY <1>2, <1>3, <2>1
<1> QED
  BY <1>5, <1>6, <1>7, <1>8 DEF Next, Step, Errors

\* At every statement the tables are what a reader counts on.
LEMMA TablesLegible == Spec => []LegibleInv
<1>1. Init => LegibleInv
  <2> SUFFICES ASSUME Init PROVE LegibleInv
    OBVIOUS
  <2>1. EmptyTables.paths = {} /\ EmptyTables.records = << >>
    BY DEF EmptyTables
  <2>2. Legible(EmptyTables)
    BY <2>1 DEF Legible, CausesListed, RootAlone, ContextsKept, PathsNamed
  <2> QED
    BY <2>2 DEF Init, LegibleInv
<1>2. TypeOK /\ PathInv /\ WitnessInv /\ ContentInv /\ LegibleInv /\ [Next]_vars => LegibleInv'
  BY StageDraftLegible, RetainIntentLegible, InsertWitnessLegible, InsertFactLegible, OthersLegible
     DEF WitnessInv
<1> QED
  BY <1>1, <1>2, TypeCorrect, PathInvHolds, WitnessInvHolds, ContentInvHolds, PTL DEF Spec

-----------------------------------------------------------------------------
(***************************************************************************)
(* The tables a reader finds, whenever it asks.                            *)
(***************************************************************************)
\* A reader only adds to the behaviours of the writers.
LEMMA ReadersDoNotWrite == ReadingSpec => Spec
<1>1. ReadingInit => Init
  BY DEF ReadingInit
<1>2. [ReadingNext]_allVars => [Next]_vars
  BY DEF ReadingNext, allVars
<1> QED
  BY <1>1, <1>2, PTL DEF ReadingSpec, Spec

\* The root witness cites no witness, and no other record cites none or has its schema.
RootAtEnd(t) ==
    \A id \in DOMAIN t.records :
      t.records[id].schema_ref = RootWitnessSchemaRef <=> t.records[id].witness_ref = RootWitnessRef

\* An entry of a record that cites no witness has no causes and no context.
RootBare(t) ==
    \A e \in t.paths :
      t.records[e.record_id].witness_ref = RootWitnessRef =>
        t.records[e.record_id].caused_by = << >> /\ e.context_ref = << >>

\* A frontier's place is on its path.
CutsOnPaths(t) ==
    \A f \in DOMAIN t.frontiers :
      \E e \in t.paths : /\ e.path_ref = t.frontiers[f].target_trace_owner_id
                         /\ e.path_ordinal = t.frontiers[f].through_owner_ordinal

Sound(t) ==
    /\ \A e \in t.paths : e.path_ref \in Paths /\ e.path_ordinal \in Nat
    /\ t.next \in [Paths -> Nat]
    /\ Contiguous(t) /\ KeysUnique(t)
    /\ EdgesMirror(t) /\ Filed(t)
    /\ CausesListed(t) /\ ContextsKept(t) /\ PathsNamed(t)
    /\ RootAtEnd(t) /\ RootBare(t) /\ CutsOnPaths(t)

\* What was proved of the committed tables is enough.
LEMMA CommittedIsSound ==
    ASSUME TypeOK, PathInv, GraphInv, WitnessInv, ContentInv, FrontiersHold, LegibleInv
    PROVE  Sound(db)
<1>1. /\ \A e \in db.paths : e.path_ref \in Paths /\ e.path_ordinal \in Nat
      /\ db.next \in [Paths -> Nat]
  BY DEF TypeOK, TablesTypeOK, EntryTypeOK
<1>2. Contiguous(db) /\ KeysUnique(db) /\ EdgesMirror(db) /\ Filed(db)
  BY DEF PathInv, TablesInv, GraphInv, GraphOK
<1>3. CausesListed(db) /\ ContextsKept(db) /\ RootAlone(db) /\ PathsNamed(db)
  BY DEF LegibleInv, Legible
<1>4. /\ RootWitnessRecordID[1] = RootWitnessSchemaRef
      /\ RootWitnessRecordID[4] = << >>
      /\ RootWitnessRecordID[5] = RootWitnessRef
  BY DEF RootWitnessRecordID, RecordDigest
<1>5. RootAtEnd(db)
  BY <1>3, <1>4 DEF RootAlone, RootAtEnd, WitnessInv, WitnessedOK, Told
<1>6. RootBare(db)
  <2> SUFFICES ASSUME NEW e \in db.paths, db.records[e.record_id].witness_ref = RootWitnessRef
               PROVE  db.records[e.record_id].caused_by = << >> /\ e.context_ref = << >>
    BY DEF RootBare
  <2>1. e.record_id \in DOMAIN db.records
    BY <1>2 DEF Filed
  <2>2. e.record_id = RootWitnessRecordID
    BY <1>3, <2>1 DEF RootAlone
  <2>3. db.records[e.record_id].caused_by = e.record_id[4]
    BY <2>1 DEF ContentInv, Spelled, Spells
  <2>4. db.records[e.record_id].caused_by = << >>
    BY <1>4, <2>2, <2>3
  <2>5. e.context_ref = << >>
    BY <1>3, <2>2 DEF ContextsKept
  <2> QED
    BY <2>4, <2>5
<1>7. CutsOnPaths(db)
  BY DEF FrontiersHold, Places, CutsOnPaths
<1> QED
  BY <1>1, <1>2, <1>3, <1>5, <1>6, <1>7 DEF Sound

\* Records that are retained are retained as they were.
LEMMA RowsStay ==
    ASSUME NEW t, NEW u, Grown(t, u), NEW id \in DOMAIN t.records
    PROVE  id \in DOMAIN u.records /\ u.records[id] = t.records[id]
  BY DEF Grown, Extends

\* Both ends of an edge are retained, and an edge says what its child says.
LEMMA EdgesAreCauses ==
    ASSUME Sound(db)
    PROVE  /\ \A d \in db.edges : /\ d.child \in DOMAIN db.records /\ d.parent \in DOMAIN db.records
                                  /\ d.parent \in Range(db.records[d.child].caused_by)
           /\ \A id \in DOMAIN db.records : \A x \in Range(db.records[id].caused_by) :
                \E d \in db.edges : d.child = id /\ d.parent = x
<1>1. db.edges = UNION {{[parent |-> db.records[id].caused_by[i], child |-> id, position |-> i - 1] :
                            i \in DOMAIN db.records[id].caused_by} : id \in DOMAIN db.records}
  BY DEF Sound, EdgesMirror
<1>2. ASSUME NEW d \in db.edges
      PROVE  /\ d.child \in DOMAIN db.records /\ d.parent \in DOMAIN db.records
             /\ d.parent \in Range(db.records[d.child].caused_by)
  <2>1. PICK id \in DOMAIN db.records : \E i \in DOMAIN db.records[id].caused_by :
               d = [parent |-> db.records[id].caused_by[i], child |-> id, position |-> i - 1]
    BY <1>1
  <2>2. d.parent \in DOMAIN db.records
    BY DEF Sound, EdgesMirror
  <2> QED
    BY <2>1, <2>2 DEF Range
<1>3. ASSUME NEW id \in DOMAIN db.records, NEW x \in Range(db.records[id].caused_by)
      PROVE  \E d \in db.edges : d.child = id /\ d.parent = x
  <2>1. PICK i \in DOMAIN db.records[id].caused_by : db.records[id].caused_by[i] = x
    BY DEF Range
  <2>2. [parent |-> db.records[id].caused_by[i], child |-> id, position |-> i - 1] \in db.edges
    BY <1>1
  <2> QED
    BY <2>1, <2>2
<1> QED
  BY <1>2, <1>3

\* A record that is retained has no new edges.
LEMMA EdgesStay ==
    ASSUME NEW t, NEW u, Sound(t), Sound(u), Grown(t, u),
           NEW d \in u.edges, d.child \in DOMAIN t.records
    PROVE  d \in t.edges
<1>1. PICK id \in DOMAIN u.records : \E i \in DOMAIN u.records[id].caused_by :
             d = [parent |-> u.records[id].caused_by[i], child |-> id, position |-> i - 1]
  BY DEF Sound, EdgesMirror
<1>2. id \in DOMAIN t.records /\ u.records[id] = t.records[id]
  BY <1>1, RowsStay
<1>3. PICK i \in DOMAIN t.records[id].caused_by :
             d = [parent |-> t.records[id].caused_by[i], child |-> id, position |-> i - 1]
  BY <1>1, <1>2
<1> QED
  BY <1>2, <1>3 DEF Sound, EdgesMirror

\* Entries come only behind those that are there.
LEMMA EntriesStay ==
    ASSUME NEW t, NEW u, Sound(t), Sound(u), Grown(t, u)
    PROVE  /\ \A e \in t.paths : /\ e \in u.paths /\ e.record_id \in DOMAIN t.records
                                 /\ e.path_ref \in Paths /\ e.path_ordinal \in Nat
                                 /\ e.path_ordinal < t.next[e.path_ref]
           /\ \A e \in u.paths : e.path_ordinal < t.next[e.path_ref] => e \in t.paths
           /\ \A p \in Paths : t.next[p] \in Nat /\ u.next[p] \in Nat /\ t.next[p] <= u.next[p]
<1>1. \A p \in Paths : t.next[p] \in Nat /\ u.next[p] \in Nat
  BY DEF Sound
<1>2. \A e \in t.paths : e \in u.paths /\ e.record_id \in DOMAIN t.records
                         /\ e.path_ref \in Paths /\ e.path_ordinal \in Nat
  BY DEF Sound, Grown, Filed
<1>3. ASSUME NEW e \in t.paths PROVE e.path_ordinal < t.next[e.path_ref]
  <2>1. e.path_ordinal \in Ordinals(t, e.path_ref)
    BY DEF Ordinals, Entries
  <2>2. e.path_ordinal \in 0 .. t.next[e.path_ref] - 1
    BY <1>2, <2>1 DEF Sound, Contiguous
  <2> QED
    BY <1>1, <1>2, <2>2
<1>4. ASSUME NEW e \in u.paths, e.path_ordinal < t.next[e.path_ref] PROVE e \in t.paths
  <2>1. e.path_ref \in Paths /\ e.path_ordinal \in Nat
    BY DEF Sound
  <2>2. e.path_ordinal \in 0 .. t.next[e.path_ref] - 1
    BY <1>1, <1>4, <2>1
  <2>3. e.path_ordinal \in Ordinals(t, e.path_ref)
    BY <2>1, <2>2 DEF Sound, Contiguous
  <2>4. PICK f \in t.paths : f.path_ref = e.path_ref /\ f.path_ordinal = e.path_ordinal
    BY <2>3 DEF Ordinals, Entries
  <2>5. f = e
    BY <1>2, <2>4 DEF Sound, KeysUnique
  <2> QED
    BY <2>5
<1>5. ASSUME NEW p \in Paths PROVE t.next[p] <= u.next[p]
  <2>1. Ordinals(t, p) \subseteq Ordinals(u, p)
    BY DEF Ordinals, Entries, Grown
  <2>2. 0 .. t.next[p] - 1 \subseteq 0 .. u.next[p] - 1
    BY <2>1 DEF Sound, Contiguous
  <2> QED
    BY <1>1, <2>2
<1> QED
  BY <1>1, <1>2, <1>3, <1>4, <1>5

-----------------------------------------------------------------------------
(***************************************************************************)
(* What holds while a read is under way.                                   *)
(***************************************************************************)
SliceOps == {"prefix", "closure", "frontier"}

\* Which operation is where, and what it has touched until then.
PhaseInv ==
    /\ rpc \in {"idle", "fact", "scan", "visit", "cutoff", "confirm", "through", "entries",
                "load", "lookup"}
    /\ rpc # "idle" => req \in Requests /\ RequestAccepted(req)
    /\ rpc \in {"fact", "scan"} => req.op = rpc
    /\ rpc = "visit" => req.op = "closure"
    /\ rpc \in {"cutoff", "confirm", "through"} => req.op = "frontier"
    /\ rpc = "entries" => req.op \in {"prefix", "frontier"}
    /\ rpc \in {"load", "lookup"} => req.op \in SliceOps
    /\ rpc = "idle" => seen = {}
    /\ rpc \notin {"load", "lookup"} => todo = {} /\ loaded = << >>
    /\ rpc # "lookup" => built = Nothing
    /\ (rpc \notin {"idle", "cutoff"} /\ req.op = "frontier") =>
         req.frontier_id \in DOMAIN db.frontiers

\* A set that has the parents of all its members.
ClosedUpwards(S) == \A d \in db.edges : d.child \in S => d.parent \in S

\* The walk keeps to the ancestors, and what it has left behind is closed but for what
\* is pending.
VisitInv ==
    rpc = "visit" =>
      /\ IsPath(pending)
      /\ seen \subseteq DOMAIN db.records
      /\ Range(req.roots) \subseteq seen \cup Range(pending)
      /\ \A d \in db.edges : d.child \in seen => d.parent \in seen \cup Range(pending)
      /\ \A S \in SUBSET (DOMAIN db.records \cup Range(req.roots)) :
           (Range(req.roots) \subseteq S /\ ClosedUpwards(S)) => seen \cup Range(pending) \subseteq S

\* The entries that were loaded and those that are still to be.
Collected == Range(loaded) \cup (IF rpc = "load" THEN todo ELSE {})

Matches(id) == modeMatches(db.records[id], req.mode_filter)

\* The entries that a prefix or a frontier is about.
Scope ==
    IF req.op = "prefix"
    THEN {e \in db.paths : /\ req.owner \in {"", e.path_ref}
                           /\ e.path_ordinal <= req.through
                           /\ e.path_ordinal < asOf[e.path_ref]}
    ELSE {e \in db.paths : /\ e.path_ref = Cutoff.target_trace_owner_id
                           /\ e.path_ordinal <= Cutoff.through_owner_ordinal}

Complete ==
    IF req.op = "closure"
    THEN /\ {e.record_id : e \in {f \in Collected : Matches(f.record_id)}} = {id \in seen : Matches(id)}
         /\ \A e, f \in Collected : e.record_id = f.record_id => e = f
    ELSE {e \in Collected : Matches(e.record_id)} = {e \in Scope : Matches(e.record_id)}

\* The entries come in path order, and those that were not loaded come behind; a read
\* that lost some of them has lost its context and will load no more.
CollectInv ==
    rpc \in {"load", "lookup"} =>
      /\ IsPath(loaded)
      /\ InPathOrder(loaded)
      /\ Collected \subseteq db.paths
      /\ rpc = "load" => \A e \in Range(loaded), f \in todo : EntryBefore(e, f)
      /\ \A e \in Range(loaded) : Matches(e.record_id)
      /\ Complete \/ (gone /\ loaded = << >>)
      /\ \A p \in Paths : asOf[p] \in Nat /\ asOf[p] <= db.next[p]
      /\ req.op = "closure" => /\ Range(req.roots) \subseteq DOMAIN db.records
                               /\ seen = Ancestors(Range(req.roots))

\* A lookup is for a cause, or for the context of an entry.
ForCause(p) == p[2] \in DOMAIN CausesOf(loaded[p[1]])
CauseAt(p)  == CausesOf(loaded[p[1]])[p[2]]

LookedUp == Lookups \ todo

ContextsLookedUp == {loaded[p[1]].context_ref : p \in {q \in LookedUp : ~ForCause(q)}}

\* No lookup has failed, or none can have.
Unharmed == ~gone \/ built.witnesses # << >>

LookupInv ==
    rpc = "lookup" =>
      /\ DOMAIN built = DOMAIN Nothing
      /\ todo \subseteq Lookups
      /\ IsPath(built.external_anchors) /\ IsPath(built.context_anchors)
      /\ {a.ref : a \in Range(built.external_anchors)}
           = {CauseAt(p) : p \in {q \in LookedUp : ForCause(q)}}
      /\ IF req.auth.visibility_profile = "shape_only"
         THEN Range(built.context_anchors) = ContextsLookedUp
         ELSE /\ built.contexts \subseteq ContextsLookedUp
              /\ Unharmed => built.contexts = ContextsLookedUp
      /\ Unharmed => \A a \in Range(built.external_anchors) : a.hidden_reason = "outside_frontier"

\* The chain of witnesses so far: each is there once, is cited, and leads on, but for
\* the last one.
ChainInv ==
    rpc = "lookup" =>
      LET met == Range(built.witnesses)
      IN  /\ IsPath(built.witnesses) /\ IsInjective(built.witnesses)
          /\ built.witnesses # << >> => todo = {}
          /\ met \subseteq DOMAIN db.records
          /\ met \subseteq {db.records[id].witness_ref : id \in Selected \cup met} \ {RootWitnessRef}
          /\ \A k \in 1 .. Len(built.witnesses) - 1 :
               db.records[built.witnesses[k]].witness_ref \in met \cup {RootWitnessRef}

\* An answer refers to what is retained, and the laws hold of it.
AnswerInv ==
    SliceAnswered =>
      /\ Range(answer.path_facts) \subseteq db.paths
      /\ \A p \in Paths : answer.as_of[p] \in Nat /\ answer.as_of[p] <= db.next[p]
      /\ answer.req.op = "frontier" => answer.req.frontier_id \in DOMAIN db.frontiers
      /\ answer.req.op = "closure" => Range(answer.req.roots) \subseteq DOMAIN db.records
      /\ Range(answer.looked_up.witnesses) \subseteq DOMAIN db.records
      /\ PrefixesAreSnapshots /\ CutsReadTheSame /\ ClosuresAreExact /\ AnswersAreWhole

ReaderInv == PhaseInv /\ VisitInv /\ CollectInv /\ LookupInv /\ ChainInv /\ AnswerInv

-----------------------------------------------------------------------------
(***************************************************************************)
(* The order of the rows.                                                  *)
(***************************************************************************)
\* Every path has a rank of its own.
LEMMA RanksOfPaths ==
    ASSUME NEW p \in Paths
    PROVE  PathRank(p) \in Nat /\ PathOrder[PathRank(p)] = p
<1>1. PathOrder \in Seq(Paths) /\ Range(PathOrder) = Paths
  BY PathOrderAssumption
<1>2. PICK n \in DOMAIN PathOrder : PathOrder[n] = p
  BY <1>1 DEF Range
<1>3. PathRank(p) \in DOMAIN PathOrder /\ PathOrder[PathRank(p)] = p
  BY <1>2 DEF PathRank
<1> QED
  BY <1>1, <1>3

\* Of rows with places of their own one is the first.
LEMMA FirstIsFirst ==
    ASSUME NEW rows, rows # {},
           \A e \in rows : e.path_ref \in Paths /\ e.path_ordinal \in Nat,
           \A e, f \in rows : e.path_ref = f.path_ref /\ e.path_ordinal = f.path_ordinal => e = f
    PROVE  /\ First(rows) \in rows
           /\ \A f \in rows : f = First(rows) \/ EntryBefore(First(rows), f)
<1> DEFINE ranks == {PathRank(e.path_ref) : e \in rows}
<1>1. \A e \in rows : PathRank(e.path_ref) \in Nat /\ PathOrder[PathRank(e.path_ref)] = e.path_ref
  BY RanksOfPaths
<1>2. ranks \in SUBSET Nat /\ ranks # {}
  BY <1>1
<1> HIDE DEF ranks
<1>3. PICK r \in ranks : \A k \in ranks : r <= k
  BY <1>2, LeastExists
<1> DEFINE ordinals == {e.path_ordinal : e \in {f \in rows : PathRank(f.path_ref) = r}}
<1>4. ordinals \in SUBSET Nat /\ ordinals # {}
  BY <1>3 DEF ranks
<1> HIDE DEF ordinals
<1>5. PICK n \in ordinals : \A k \in ordinals : n <= k
  BY <1>4, LeastExists
<1>6. PICK e \in rows : PathRank(e.path_ref) = r /\ e.path_ordinal = n
  BY <1>5 DEF ordinals
<1>7. ASSUME NEW f \in rows PROVE f = e \/ EntryBefore(e, f)
  <2>1. PathRank(f.path_ref) \in ranks /\ PathRank(f.path_ref) \in Nat /\ r \in Nat
    BY <1>1, <1>2 DEF ranks
  <2>2. CASE PathRank(f.path_ref) # r
    <3>1. r < PathRank(f.path_ref)
      BY <1>3, <2>1, <2>2
    <3> QED
      BY <1>6, <3>1 DEF EntryBefore
  <2>3. CASE PathRank(f.path_ref) = r
    <3>1. f.path_ref = e.path_ref
      BY <1>1, <1>6, <2>3
    <3>2. f.path_ordinal \in ordinals
      BY <2>3 DEF ordinals
    <3>3. n <= f.path_ordinal /\ f.path_ordinal \in Nat /\ n \in Nat
      BY <1>4, <1>5, <3>2
    <3>4. CASE f.path_ordinal = n
      BY <1>6, <3>1, <3>4
    <3>5. CASE n < f.path_ordinal
      BY <1>6, <3>1, <3>5 DEF EntryBefore
    <3> QED
      BY <3>3, <3>4, <3>5
  <2> QED
    BY <2>2, <2>3
<1> QED
  BY <1>7 DEF First

\* So it is of places to look up.
LEMMA NextIsNext ==
    ASSUME todo # {}, \A p \in todo : p = <<p[1], p[2]>> /\ p[1] \in Nat /\ p[2] \in Nat
    PROVE  NextLookup \in todo
<1> DEFINE firsts == {p[1] : p \in todo}
<1>1. firsts \in SUBSET Nat /\ firsts # {}
  OBVIOUS
<1> HIDE DEF firsts
<1>2. PICK k \in firsts : \A m \in firsts : k <= m
  BY <1>1, LeastExists
<1> DEFINE seconds == {p[2] : p \in {q \in todo : q[1] = k}}
<1>3. seconds \in SUBSET Nat /\ seconds # {}
  BY <1>2 DEF firsts
<1> HIDE DEF seconds
<1>4. PICK i \in seconds : \A m \in seconds : i <= m
  BY <1>3, LeastExists
<1>5. PICK p \in todo : p[1] = k /\ p[2] = i
  BY <1>4 DEF seconds
<1>6. ASSUME NEW q \in todo PROVE q = p \/ PlaceBefore(p, q)
  <2>1. q[1] \in firsts /\ q[1] \in Nat /\ k \in Nat /\ k <= q[1]
    BY <1>1, <1>2 DEF firsts
  <2>2. CASE k < q[1]
    BY <1>5, <2>2 DEF PlaceBefore
  <2>3. CASE q[1] = k
    <3>1. q[2] \in seconds /\ q[2] \in Nat /\ i \in Nat
      BY <1>3, <2>3 DEF seconds
    <3>2. i <= q[2]
      BY <1>4, <3>1
    <3>3. CASE i < q[2]
      BY <1>5, <2>3, <3>3 DEF PlaceBefore
    <3>4. CASE q[2] = i
      BY <1>5, <2>3, <3>4
    <3> QED
      BY <3>1, <3>2, <3>3, <3>4
  <2> QED
    BY <2>1, <2>2, <2>3
<1> QED
  BY <1>6 DEF NextLookup

-----------------------------------------------------------------------------
(***************************************************************************)
(* The writers run on between two queries.                                 *)
(***************************************************************************)
\* The ancestors of retained records are what they were.
LEMMA AncestorsStay ==
    ASSUME Sound(db), Sound(db'), Grown(db, db'), NEW R, R \subseteq DOMAIN db.records
    PROVE  Ancestors(R)' = Ancestors(R) /\ Ancestors(R) \subseteq DOMAIN db.records
<1>1. DOMAIN db.records \subseteq DOMAIN db'.records /\ db.edges \subseteq db'.edges
  BY RowsStay DEF Grown
<1>2. \A d \in db.edges : d.child \in DOMAIN db.records /\ d.parent \in DOMAIN db.records
  BY EdgesAreCauses
<1>3. \A d \in db'.edges : d.child \in DOMAIN db.records => d \in db.edges
  BY EdgesStay
<1>4. ASSUME NEW x, x \in Ancestors(R) PROVE x \in Ancestors(R)'
  <2>1. x \in DOMAIN db.records
    BY <1>4 DEF Ancestors
  <2>2. SUFFICES ASSUME NEW S \in SUBSET DOMAIN db'.records, R \subseteq S,
                        \A d \in db'.edges : d.child \in S => d.parent \in S
                 PROVE  x \in S
    BY <1>1, <2>1 DEF Ancestors
  <2> DEFINE T == S \cap DOMAIN db.records
  <2>3. T \in SUBSET DOMAIN db.records /\ R \subseteq T
    BY <2>2
  <2>4. \A d \in db.edges : d.child \in T => d.parent \in T
    BY <1>1, <1>2, <2>2
  <2> HIDE DEF T
  <2>5. x \in T
    BY <1>4, <2>3, <2>4 DEF Ancestors
  <2> QED
    BY <2>5 DEF T
<1>5. ASSUME NEW x, x \in Ancestors(R)' PROVE x \in Ancestors(R)
  <2>1. ASSUME NEW S \in SUBSET DOMAIN db.records, R \subseteq S,
               \A d \in db.edges : d.child \in S => d.parent \in S
        PROVE  x \in S
    <3>1. S \in SUBSET DOMAIN db'.records /\ \A d \in db'.edges : d.child \in S => d.parent \in S
      BY <1>1, <1>3, <2>1
    <3> QED
      BY <1>5, <2>1, <3>1 DEF Ancestors
  <2>2. x \in DOMAIN db.records
    <3>1. \A d \in db.edges : d.child \in DOMAIN db.records => d.parent \in DOMAIN db.records
      BY <1>2
    <3> QED
      BY <2>1, <3>1
  <2> QED
    BY <2>1, <2>2 DEF Ancestors
<1> QED
  BY <1>4, <1>5 DEF Ancestors

\* The tables may have grown.
Grows == Sound(db) /\ Sound(db') /\ Grown(db, db')

\* The writers have moved, and the reader has not.
Beside == Grows /\ UNCHANGED readerVars

\* A walk goes on from where it is.
LEMMA WritersKeepVisit ==
    ASSUME Beside, VisitInv
    PROVE  VisitInv'
<1> SUFFICES ASSUME rpc = "visit" PROVE VisitInv'
  BY DEF Beside, Grows, readerVars, VisitInv
<1>1. rpc' = rpc /\ pending' = pending /\ seen' = seen /\ req' = req
  BY DEF Beside, Grows, readerVars, readerScratch
<1>2. DOMAIN db.records \subseteq DOMAIN db'.records /\ db.edges \subseteq db'.edges
  BY RowsStay DEF Beside, Grows, Grown
<1>3. \A d \in db'.edges : d.child \in DOMAIN db.records => d \in db.edges
  BY EdgesStay DEF Beside, Grows
<1>4. \A d \in db.edges : d.parent \in DOMAIN db.records
  BY EdgesAreCauses DEF Beside, Grows
<1>5. ASSUME NEW S \in SUBSET (DOMAIN db'.records \cup Range(req.roots)), Range(req.roots) \subseteq S,
             \A d \in db'.edges : d.child \in S => d.parent \in S
      PROVE  seen \cup Range(pending) \subseteq S
  <2> DEFINE T == S \cap (DOMAIN db.records \cup Range(req.roots))
  <2>1. T \in SUBSET (DOMAIN db.records \cup Range(req.roots)) /\ Range(req.roots) \subseteq T
    BY <1>5
  <2>2. \A d \in db.edges : d.child \in T => d.parent \in T
    BY <1>2, <1>4, <1>5
  <2> HIDE DEF T
  <2>3. seen \cup Range(pending) \subseteq T
    BY <2>1, <2>2 DEF VisitInv, ClosedUpwards
  <2> QED
    BY <2>3 DEF T
<1>6. \A d \in db'.edges : d.child \in seen => d.parent \in seen \cup Range(pending)
  BY <1>3 DEF VisitInv
<1> QED
  BY <1>1, <1>2, <1>5, <1>6 DEF VisitInv, ClosedUpwards

\* What was collected stays what was asked for.
LEMMA WritersKeepCollected ==
    ASSUME Beside, PhaseInv, CollectInv
    PROVE  CollectInv'
<1> SUFFICES ASSUME rpc \in {"load", "lookup"} PROVE CollectInv'
  BY DEF Beside, Grows, readerVars, CollectInv
<1>1. /\ rpc' = rpc /\ req' = req /\ gone' = gone /\ seen' = seen /\ todo' = todo
      /\ loaded' = loaded /\ asOf' = asOf
  BY DEF Beside, Grows, readerVars, readerScratch
<1>2. \A id \in DOMAIN db.records : id \in DOMAIN db'.records /\ db'.records[id] = db.records[id]
  BY RowsStay DEF Beside, Grows
<1>3. /\ \A e \in db.paths : /\ e \in db'.paths /\ e.record_id \in DOMAIN db.records
                             /\ e.path_ref \in Paths /\ e.path_ordinal \in Nat
                             /\ e.path_ordinal < db.next[e.path_ref]
      /\ \A e \in db'.paths : e.path_ordinal < db.next[e.path_ref] => e \in db.paths
      /\ \A p \in Paths : db.next[p] \in Nat /\ db'.next[p] \in Nat /\ db.next[p] <= db'.next[p]
  BY EntriesStay DEF Beside, Grows
<1>4. Collected' = Collected /\ Collected \subseteq db.paths
  BY <1>1 DEF Collected, CollectInv
<1>5. \A id \in DOMAIN db.records : Matches(id)' <=> Matches(id)
  BY <1>1, <1>2 DEF Matches
<1>6. \A p \in Paths : asOf[p] \in Nat /\ asOf[p] <= db'.next[p]
  <2> SUFFICES ASSUME NEW p \in Paths PROVE asOf[p] \in Nat /\ asOf[p] <= db'.next[p]
    OBVIOUS
  <2>1. asOf[p] \in Nat /\ asOf[p] <= db.next[p]
    BY DEF CollectInv
  <2> QED
    BY <1>3, <2>1
<1>7. ASSUME req.op # "closure", Complete PROVE Complete'
  <2>1. {e \in Collected : Matches(e.record_id)}' = {e \in Collected : Matches(e.record_id)}
    BY <1>3, <1>4, <1>5
  <2>2. Scope' = Scope
    <3>1. CASE req.op = "prefix"
      <4>1. ASSUME NEW e \in db'.paths, e.path_ordinal < asOf[e.path_ref] PROVE e \in db.paths
        <5>1. e.path_ref \in Paths /\ e.path_ordinal \in Nat
          BY DEF Beside, Grows, Sound
        <5>2. asOf[e.path_ref] \in Nat /\ asOf[e.path_ref] <= db.next[e.path_ref] /\ db.next[e.path_ref] \in Nat
          BY <1>3, <5>1 DEF CollectInv
        <5>3. e.path_ordinal < db.next[e.path_ref]
          BY <4>1, <5>1, <5>2
        <5> QED
          BY <1>3, <5>3
      <4> QED
        BY <1>1, <1>3, <3>1, <4>1 DEF Scope
    <3>2. CASE req.op # "prefix"
      <4>1. req.op = "frontier" /\ req.frontier_id \in DOMAIN db.frontiers
        BY <1>7, <3>2 DEF PhaseInv, SliceOps
      <4>2. Cutoff' = Cutoff
        BY <1>1, <4>1 DEF Cutoff, Beside, Grows, Grown, Extends
      <4>3. PICK c \in db.paths : /\ c.path_ref = Cutoff.target_trace_owner_id
                                  /\ c.path_ordinal = Cutoff.through_owner_ordinal
        BY <4>1 DEF Cutoff, Beside, Grows, Sound, CutsOnPaths
      <4>4. ASSUME NEW e \in db'.paths, e.path_ref = c.path_ref, e.path_ordinal <= c.path_ordinal
            PROVE  e \in db.paths
        <5>1. e.path_ordinal \in Nat
          BY DEF Beside, Grows, Sound
        <5>2. /\ c.path_ordinal \in Nat /\ db.next[c.path_ref] \in Nat
              /\ c.path_ordinal < db.next[c.path_ref]
          BY <1>3
        <5>3. e.path_ordinal < db.next[e.path_ref]
          BY <4>4, <5>1, <5>2
        <5> QED
          BY <1>3, <5>3
      <4> QED
        BY <1>1, <1>3, <3>2, <4>2, <4>3, <4>4 DEF Scope
    <3> QED
      BY <3>1, <3>2
  <2>3. \A e \in Scope : e.record_id \in DOMAIN db.records
    BY <1>3 DEF Scope
  <2>4. {e \in Scope : Matches(e.record_id)}' = {e \in Scope : Matches(e.record_id)}
    BY <1>5, <2>2, <2>3
  <2> QED
    BY <1>1, <1>7, <2>1, <2>4 DEF Complete
<1>8. ASSUME req.op = "closure"
      PROVE  /\ Range(req.roots) \subseteq DOMAIN db'.records
             /\ (seen = Ancestors(Range(req.roots)))'
             /\ Complete => Complete'
  <2>1. PICK R : R = Range(req.roots)
    OBVIOUS
  <2>2. R \subseteq DOMAIN db.records /\ seen = Ancestors(R)
    BY <1>8, <2>1 DEF CollectInv
  <2>3. Ancestors(R)' = Ancestors(R) /\ seen \subseteq DOMAIN db.records
    BY <2>2, AncestorsStay DEF Beside, Grows
  <2>4. Range(req.roots)' = R
    BY <1>1, <2>1
  <2>5. Complete => Complete'
    <3>1. {e \in Collected : Matches(e.record_id)}' = {e \in Collected : Matches(e.record_id)}
      BY <1>3, <1>4, <1>5
    <3>2. {id \in seen : Matches(id)}' = {id \in seen : Matches(id)}
      BY <1>1, <1>5, <2>3
    <3> QED
      BY <1>1, <1>4, <1>8, <3>1, <3>2 DEF Complete
  <2> QED
    BY <1>1, <1>2, <2>1, <2>2, <2>3, <2>4, <2>5
<1>9. \A e \in Range(loaded) : Matches(e.record_id)'
  <2>1. Range(loaded) \subseteq db.paths
    BY <1>4 DEF Collected
  <2> QED
    BY <1>3, <1>5, <2>1 DEF CollectInv
<1>10. Complete' \/ (gone /\ loaded = << >>)
  BY <1>7, <1>8 DEF CollectInv
<1>11. InPathOrder(loaded)' <=> InPathOrder(loaded)
  BY <1>1 DEF InPathOrder, EntryBefore, PathRank
<1>12. rpc = "load" => \A e \in Range(loaded), f \in todo : EntryBefore(e, f)'
  BY DEF CollectInv, EntryBefore, PathRank
<1>13. Collected' \subseteq db'.paths
  BY <1>3, <1>4
<1> QED
  BY <1>1, <1>6, <1>8, <1>9, <1>10, <1>11, <1>12, <1>13 DEF CollectInv

\* An operation stays where it is.
LEMMA WritersKeepPhase ==
    ASSUME Beside, PhaseInv
    PROVE  PhaseInv'
<1>1. /\ rpc' = rpc /\ req' = req /\ seen' = seen /\ todo' = todo /\ loaded' = loaded /\ built' = built
      /\ DOMAIN db.frontiers \subseteq DOMAIN db'.frontiers
  BY DEF Beside, Grows, readerVars, readerScratch, Grown, Extends
<1> QED
  BY <1>1 DEF PhaseInv, Nothing

\* What the loaded entries name and need is what it was.
LEMMA LookupsStay ==
    ASSUME Beside, \A k \in DOMAIN loaded : loaded[k] \in db.paths
    PROVE  /\ \A k \in DOMAIN loaded : /\ loaded'[k] = loaded[k]
                                       /\ CausesOf(loaded[k])' = CausesOf(loaded[k])
                                       /\ WitnessOfEntry(loaded[k])' = WitnessOfEntry(loaded[k])
           /\ DOMAIN loaded' = DOMAIN loaded
           /\ Selected' = Selected /\ Selected \subseteq DOMAIN db.records
           /\ Lookups' = Lookups
<1>1. loaded' = loaded /\ req' = req
  BY DEF Beside, Grows, readerVars, readerScratch
<1>2. \A k \in DOMAIN loaded : loaded[k].record_id \in DOMAIN db.records
  BY EntriesStay DEF Beside, Grows
<1>3. ASSUME NEW k \in DOMAIN loaded
      PROVE  /\ CausesOf(loaded[k])' = CausesOf(loaded[k])
             /\ WitnessOfEntry(loaded[k])' = WitnessOfEntry(loaded[k])
  <2>1. db'.records[loaded[k].record_id] = db.records[loaded[k].record_id]
    BY <1>2, RowsStay DEF Beside, Grows
  <2> QED
    BY <1>1, <2>1 DEF CausesOf, WitnessOfEntry
<1>4. Selected' = Selected /\ Selected \subseteq DOMAIN db.records
  BY <1>1, <1>2 DEF Selected
<1>5. ASSUME NEW k \in DOMAIN loaded PROVE LookupsOf(loaded[k])' = LookupsOf(loaded[k])
  BY <1>1, <1>3, <1>4 DEF LookupsOf, IncludeAnchors
<1>6. Lookups' = Lookups
  BY <1>1, <1>5 DEF Lookups
<1> QED
  BY <1>1, <1>3, <1>4, <1>6

\* The entries that were loaded are retained.
LEMMA LoadedAreRetained ==
    ASSUME CollectInv, rpc \in {"load", "lookup"}
    PROVE  \A k \in DOMAIN loaded : loaded[k] \in db.paths
  BY DEF CollectInv, Collected, Range

\* Every lookup so far gave what it would give now.
LEMMA WritersKeepLookups ==
    ASSUME Beside, CollectInv, LookupInv
    PROVE  LookupInv'
<1> SUFFICES ASSUME rpc = "lookup" PROVE LookupInv'
  BY DEF Beside, Grows, readerVars, LookupInv
<1>1. /\ rpc' = rpc /\ req' = req /\ gone' = gone /\ todo' = todo /\ loaded' = loaded /\ built' = built
  BY DEF Beside, Grows, readerVars, readerScratch
<1>2. \A k \in DOMAIN loaded : loaded[k] \in db.paths
  BY LoadedAreRetained
<1>3. Lookups' = Lookups /\ \A k \in DOMAIN loaded : CausesOf(loaded[k])' = CausesOf(loaded[k])
  BY <1>2, LookupsStay
<1>4. \A p \in Lookups : p[1] \in DOMAIN loaded
  BY DEF Lookups
<1>5. LookedUp' = LookedUp /\ LookedUp \subseteq Lookups
  BY <1>1, <1>3 DEF LookedUp
<1>6. ASSUME NEW p \in LookedUp
      PROVE  (ForCause(p)' <=> ForCause(p)) /\ CauseAt(p)' = CauseAt(p)
  <2>1. PICK k \in DOMAIN loaded : k = p[1]
    BY <1>4, <1>5
  <2>2. CausesOf(loaded[k])' = CausesOf(loaded[k])
    BY <1>3
  <2>3. CausesOf(loaded[p[1]])' = CausesOf(loaded[p[1]])
    BY <1>1, <2>1, <2>2
  <2> QED
    BY <2>3 DEF ForCause, CauseAt
<1>7. /\ {q \in LookedUp : ForCause(q)}' = {q \in LookedUp : ForCause(q)}
      /\ {q \in LookedUp : ~ForCause(q)}' = {q \in LookedUp : ~ForCause(q)}
  BY <1>5, <1>6
<1>8. {CauseAt(p) : p \in {q \in LookedUp : ForCause(q)}}' = {CauseAt(p) : p \in {q \in LookedUp : ForCause(q)}}
  BY <1>6, <1>7
<1>9. ContextsLookedUp' = ContextsLookedUp
  BY <1>1, <1>7 DEF ContextsLookedUp
<1>10. Unharmed' <=> Unharmed
  BY <1>1 DEF Unharmed
<1> QED
  BY <1>1, <1>3, <1>8, <1>9, <1>10 DEF LookupInv, Nothing

\* And so is the chain.
LEMMA WritersKeepChain ==
    ASSUME Beside, CollectInv, ChainInv
    PROVE  ChainInv'
<1> SUFFICES ASSUME rpc = "lookup" PROVE ChainInv'
  BY DEF Beside, Grows, readerVars, ChainInv
<1>1. /\ rpc' = rpc /\ todo' = todo /\ loaded' = loaded /\ built' = built
  BY DEF Beside, Grows, readerVars, readerScratch
<1>2. Selected' = Selected /\ Selected \subseteq DOMAIN db.records
  BY LoadedAreRetained, LookupsStay
<1> DEFINE met == Range(built.witnesses)
<1>3. /\ IsPath(built.witnesses) /\ IsInjective(built.witnesses)
      /\ built.witnesses # << >> => todo = {}
      /\ met \subseteq DOMAIN db.records
      /\ met \subseteq {db.records[id].witness_ref : id \in Selected \cup met} \ {RootWitnessRef}
      /\ \A k \in 1 .. Len(built.witnesses) - 1 :
           db.records[built.witnesses[k]].witness_ref \in met \cup {RootWitnessRef}
  BY DEF ChainInv
<1>4. \A id \in DOMAIN db.records : id \in DOMAIN db'.records /\ db'.records[id] = db.records[id]
  BY RowsStay DEF Beside, Grows
<1>5. \A k \in 1 .. Len(built.witnesses) - 1 : built.witnesses[k] \in met
  <2>1. DOMAIN built.witnesses = 1 .. Len(built.witnesses) /\ Len(built.witnesses) \in Nat
    BY <1>3 DEF IsPath
  <2> QED
    BY <2>1 DEF Range
<1> HIDE DEF met
<1>6. {db'.records[id].witness_ref : id \in Selected \cup met} = {db.records[id].witness_ref : id \in Selected \cup met}
  BY <1>2, <1>3, <1>4
<1>7. \A k \in 1 .. Len(built.witnesses) - 1 :
        db'.records[built.witnesses[k]].witness_ref \in met \cup {RootWitnessRef}
  BY <1>3, <1>4, <1>5
<1>8. met \subseteq DOMAIN db'.records
  BY <1>3, <1>4
<1>9. met' = met
  BY <1>1 DEF met
<1> QED
  BY <1>1, <1>2, <1>3, <1>6, <1>7, <1>8, <1>9 DEF ChainInv, met

\* Rows that were shown are the rows to show.
LEMMA ShownStay ==
    ASSUME Grows, answer' = answer, NEW rows, rows \subseteq db.paths, ShowsRows(rows)
    PROVE  ShowsRows(rows)'
<1>2. \A e \in rows : db'.records[e.record_id] = db.records[e.record_id]
  BY EntriesStay, RowsStay DEF Grows
<1>3. \A e \in rows : Wanted(e.record_id)' <=> Wanted(e.record_id)
  BY <1>2 DEF Wanted
<1>4. InPathOrder(answer.path_facts)' <=> InPathOrder(answer.path_facts)
  BY DEF InPathOrder, EntryBefore, PathRank
<1> QED
  BY <1>3, <1>4 DEF ShowsRows

\* The edges of retained records are all there are.
LEMMA EdgesAmongStay ==
    ASSUME Grows, NEW ids, ids \subseteq DOMAIN db.records
    PROVE  EdgesAmong(ids)' = EdgesAmong(ids) /\ ParentsOutside(ids)' = ParentsOutside(ids)
<1>1. \A d : d \in db'.edges /\ d.child \in ids <=> d \in db.edges /\ d.child \in ids
  BY EdgesStay DEF Grows, Grown
<1>2. {c \in db'.edges : {c.parent, c.child} \subseteq ids} = {c \in db.edges : {c.parent, c.child} \subseteq ids}
  BY <1>1
<1>3. {c \in db'.edges : c.child \in ids} = {c \in db.edges : c.child \in ids}
  BY <1>1
<1> QED
  BY <1>2, <1>3 DEF EdgesAmong, ParentsOutside

\* An answer stays as right as it was.
LEMMA AnswerStays ==
    ASSUME Grows, answer' = answer, AnswerInv
    PROVE  AnswerInv'
<1> SUFFICES ASSUME SliceAnswered PROVE AnswerInv'
  BY DEF AnswerInv, SliceAnswered
<1>2. /\ Range(answer.path_facts) \subseteq db.paths
      /\ \A p \in Paths : answer.as_of[p] \in Nat /\ answer.as_of[p] <= db.next[p]
      /\ answer.req.op = "frontier" => answer.req.frontier_id \in DOMAIN db.frontiers
      /\ answer.req.op = "closure" => Range(answer.req.roots) \subseteq DOMAIN db.records
      /\ Range(answer.looked_up.witnesses) \subseteq DOMAIN db.records
      /\ PrefixesAreSnapshots /\ CutsReadTheSame /\ ClosuresAreExact /\ AnswersAreWhole
  BY DEF AnswerInv
<1>3. /\ \A e \in db.paths : /\ e \in db'.paths /\ e.record_id \in DOMAIN db.records
                             /\ e.path_ref \in Paths /\ e.path_ordinal \in Nat
                             /\ e.path_ordinal < db.next[e.path_ref]
      /\ \A e \in db'.paths : e.path_ordinal < db.next[e.path_ref] => e \in db.paths
      /\ \A p \in Paths : db.next[p] \in Nat /\ db'.next[p] \in Nat /\ db.next[p] <= db'.next[p]
  BY EntriesStay DEF Grows
<1>4. \A id \in DOMAIN db.records : id \in DOMAIN db'.records /\ db'.records[id] = db.records[id]
  BY RowsStay DEF Grows
<1>5. PICK shown : shown = FactsShown
  OBVIOUS
<1>6. FactsShown' = shown /\ shown \subseteq DOMAIN db.records
  BY <1>2, <1>3, <1>5 DEF FactsShown
<1>7. EdgesAmong(shown)' = EdgesAmong(shown) /\ ParentsOutside(shown)' = ParentsOutside(shown)
  BY <1>6, EdgesAmongStay DEF Grows
<1>8. InPathOrder(answer.path_facts)' <=> InPathOrder(answer.path_facts)
  BY DEF InPathOrder, EntryBefore, PathRank
<1>9. \A p \in Paths : answer.as_of[p] \in Nat /\ answer.as_of[p] <= db'.next[p]
  <2> SUFFICES ASSUME NEW p \in Paths PROVE answer.as_of[p] \in Nat /\ answer.as_of[p] <= db'.next[p]
    OBVIOUS
  <2>1. answer.as_of[p] \in Nat /\ answer.as_of[p] <= db.next[p]
    BY <1>2
  <2> QED
    BY <1>3, <2>1
<1>10. PrefixesAreSnapshots'
  <2> SUFFICES ASSUME Answered("prefix"), answer.path_facts # << >> PROVE PrefixesAreSnapshots'
    BY DEF PrefixesAreSnapshots, Answered
  <2> DEFINE Rows(t) == {e \in t.paths : /\ answer.req.owner \in {"", e.path_ref}
                                         /\ e.path_ordinal <= answer.req.through
                                         /\ e.path_ordinal < answer.as_of[e.path_ref]}
  <2>1. ASSUME NEW e \in db'.paths, e.path_ordinal < answer.as_of[e.path_ref] PROVE e \in db.paths
    <3>1. e.path_ref \in Paths /\ e.path_ordinal \in Nat
      BY DEF Grows, Sound
    <3>2. /\ answer.as_of[e.path_ref] \in Nat /\ answer.as_of[e.path_ref] <= db.next[e.path_ref]
          /\ db.next[e.path_ref] \in Nat
      BY <1>2, <1>3, <3>1
    <3>3. e.path_ordinal < db.next[e.path_ref]
      BY <2>1, <3>1, <3>2
    <3> QED
      BY <1>3, <3>3
  <2>2. PICK rows : rows = Rows(db)
    OBVIOUS
  <2>3. rows = Rows(db') /\ rows \subseteq db.paths
    BY <1>3, <2>1, <2>2
  <2>4. ShowsRows(rows)
    BY <1>2, <2>2 DEF PrefixesAreSnapshots
  <2>5. ShowsRows(rows)'
    BY <2>3, <2>4, ShownStay
  <2> QED
    BY <2>3, <2>5 DEF PrefixesAreSnapshots
<1>11. CutsReadTheSame'
  <2> SUFFICES ASSUME Answered("frontier"), answer.path_facts # << >> PROVE CutsReadTheSame'
    BY DEF CutsReadTheSame, Answered
  <2> DEFINE f == answer.req.frontier_id
             Rows(t) == {e \in t.paths : /\ e.path_ref = t.frontiers[f].target_trace_owner_id
                                         /\ e.path_ordinal <= t.frontiers[f].through_owner_ordinal}
  <2>1. f \in DOMAIN db.frontiers
    BY <1>2 DEF Answered
  <2>2. db'.frontiers[f] = db.frontiers[f]
    BY <2>1 DEF Grows, Grown, Extends
  <2>3. PICK c \in db.paths : /\ c.path_ref = db.frontiers[f].target_trace_owner_id
                              /\ c.path_ordinal = db.frontiers[f].through_owner_ordinal
    BY <2>1 DEF Grows, Sound, CutsOnPaths
  <2>4. ASSUME NEW e \in db'.paths, e.path_ref = c.path_ref, e.path_ordinal <= c.path_ordinal
        PROVE  e \in db.paths
    <3>1. e.path_ordinal \in Nat
      BY DEF Grows, Sound
    <3>2. /\ c.path_ordinal \in Nat /\ db.next[c.path_ref] \in Nat
          /\ c.path_ordinal < db.next[c.path_ref]
      BY <1>3
    <3>3. e.path_ordinal < db.next[e.path_ref]
      BY <2>4, <3>1, <3>2
    <3> QED
      BY <1>3, <3>3
  <2>5. PICK rows : rows = Rows(db)
    OBVIOUS
  <2>6. rows = Rows(db') /\ rows \subseteq db.paths
    BY <1>3, <2>2, <2>3, <2>4, <2>5
  <2>7. /\ ShowsRows(rows)
        /\ answer.causal_edges = EdgesAmong(shown)
        /\ {a.ref : a \in AnchorsShown} = ParentsOutside(shown)
    BY <1>2, <1>5, <2>5 DEF CutsReadTheSame
  <2>8. ShowsRows(rows)'
    BY <2>6, <2>7, ShownStay
  <2>9. {a.ref : a \in AnchorsShown}' = {a.ref : a \in AnchorsShown}
    BY DEF AnchorsShown
  <2>10. /\ (answer.causal_edges)' = EdgesAmong(FactsShown)'
         /\ {a.ref : a \in AnchorsShown}' = ParentsOutside(FactsShown)'
    BY <1>6, <1>7, <2>7, <2>9
  <2> QED
    BY <2>6, <2>8, <2>10 DEF CutsReadTheSame
<1>12. ClosuresAreExact'
  <2> SUFFICES ASSUME Answered("closure"), answer.path_facts # << >> PROVE ClosuresAreExact'
    BY DEF ClosuresAreExact, Answered
  <2>1. PICK R : R = Range(answer.req.roots)
    OBVIOUS
  <2>2. R \subseteq DOMAIN db.records
    BY <1>2, <2>1 DEF Answered
  <2>3. Ancestors(R)' = Ancestors(R) /\ Ancestors(R) \subseteq DOMAIN db.records
    BY <2>2, AncestorsStay DEF Grows
  <2>4. \A id \in DOMAIN db.records : Wanted(id)' <=> Wanted(id)
    BY <1>4 DEF Wanted
  <2>5. {id \in Ancestors(R) : Wanted(id)}' = {id \in Ancestors(R) : Wanted(id)}
    BY <2>3, <2>4
  <2>6. /\ shown = {id \in Ancestors(R) : Wanted(id)}
        /\ InPathOrder(answer.path_facts)
        /\ \A e, f \in Range(answer.path_facts) : e.record_id = f.record_id => e = f
        /\ answer.causal_edges = EdgesAmong(shown)
        /\ {a.ref : a \in AnchorsShown} =
             IF answer.req.policy = "visible_only" THEN {} ELSE ParentsOutside(shown)
    BY <1>2, <1>5, <2>1 DEF ClosuresAreExact
  <2>7. {a.ref : a \in AnchorsShown}' = {a.ref : a \in AnchorsShown}
    BY DEF AnchorsShown
  <2>8. Range(answer.req.roots)' = R
    BY <2>1
  <2>9. FactsShown' = {id \in Ancestors(Range(answer.req.roots)) : Wanted(id)}'
    BY <1>6, <2>5, <2>6, <2>8
  <2>10. /\ (answer.causal_edges)' = EdgesAmong(FactsShown)'
         /\ {a.ref : a \in AnchorsShown}' =
              IF answer'.req.policy = "visible_only" THEN {} ELSE ParentsOutside(FactsShown)'
    BY <1>6, <1>7, <2>6, <2>7
  <2> QED
    BY <1>8, <2>6, <2>9, <2>10 DEF ClosuresAreExact
<1>13. AnswersAreWhole'
  <2>1. AnswersAreComplete'
    BY <1>2 DEF AnswersAreWhole, AnswersAreComplete, AnchorsShown, SliceAnswered
  <2>2. PICK ws : ws = Range(answer.looked_up.witnesses)
    OBVIOUS
  <2>3. {id \in DOMAIN db.records : id \in shown \cup ws} = shown \cup ws
    BY <1>2, <1>6, <2>2
  <2>4. {db'.records[id].witness_ref : id \in shown \cup ws} = {db.records[id].witness_ref : id \in shown \cup ws}
    BY <1>4, <2>3
  <2>5. IsInjective(answer.looked_up.witnesses)
        /\ ws = {db.records[id].witness_ref : id \in shown \cup ws} \ {RootWitnessRef}
    BY <1>2, <1>5, <2>2 DEF AnswersAreWhole, WitnessesAreClosed
  <2>6. WitnessesAreClosed'
    BY <1>6, <2>2, <2>4, <2>5 DEF WitnessesAreClosed
  <2> QED
    BY <2>1, <2>6 DEF AnswersAreWhole
<1> QED
  BY <1>2, <1>3, <1>4, <1>9, <1>10, <1>11, <1>12, <1>13, RowsStay DEF AnswerInv, Grows, Grown, Extends

-----------------------------------------------------------------------------
(***************************************************************************)
(* The reader moves.                                                       *)
(***************************************************************************)
\* An answer is what was built, and for whom.
LEMMA AnswerFields ==
    ASSUME NEW a, Answer(a), "req" \notin DOMAIN a
    PROVE  answer'.req = req /\ \A f \in DOMAIN a : answer'[f] = a[f]
  BY DEF Answer

\* A query changes no table.
LEMMA ReadersGrowNothing ==
    ASSUME Sound(db), UNCHANGED vars
    PROVE  Grows /\ db' = db
  BY GrownReflexive DEF vars, Grows

\* An idle reader has nothing to account for.
LEMMA IdleIsFine ==
    ASSUME PhaseInv, NEW a, Answer(a)
    PROVE  PhaseInv' /\ VisitInv' /\ CollectInv' /\ LookupInv' /\ ChainInv'
<1>1. rpc' = "idle" /\ seen' = {} /\ todo' = {} /\ loaded' = << >> /\ built' = Nothing
  BY DEF Answer
<1> QED
  BY <1>1 DEF PhaseInv, VisitInv, CollectInv, LookupInv, ChainInv, Nothing

\* Errors and single facts are no slices.
LEMMA NoSliceIsFine ==
    ASSUME PhaseInv, NEW a, Answer(a), "req" \notin DOMAIN a, "status" \in DOMAIN a,
           a.status # "ok" \/ req.op \notin SliceOps
    PROVE  ReaderInv'
<1>1. answer'.status = a.status /\ answer'.req = req
  BY AnswerFields
<1>2. ~SliceAnswered'
  BY <1>1 DEF SliceAnswered, SliceOps
<1> QED
  BY <1>2, IdleIsFine DEF ReaderInv, AnswerInv

\* A read that fails, or that shows no slice.
LEMMA FailingReads ==
    ASSUME ReaderInv,
           ReadOneFact \/ ScanSchemas \/ VisitFails \/ CheckCutoffFails \/ QueryEntriesFails
             \/ LoadEntryFails \/ ReadWitnessFails
    PROVE  ReaderInv'
<1>1. \A e \in {"error", "unknown_fact"} : Answer([status |-> e]) => ReaderInv'
  <2> SUFFICES ASSUME NEW e, e \in {"error", "unknown_fact"}, Answer([status |-> e]) PROVE ReaderInv'
    OBVIOUS
  <2> QED
    BY NoSliceIsFine DEF ReaderInv
<1>2. CASE VisitFails \/ CheckCutoffFails \/ QueryEntriesFails \/ LoadEntryFails \/ ReadWitnessFails
  BY <1>1, <1>2 DEF VisitFails, CheckCutoffFails, QueryEntriesFails, LoadEntryFails, ReadWitnessFails
<1>3. CASE ReadOneFact
  <2>1. req.op \notin SliceOps
    BY <1>3 DEF ReadOneFact, ReaderInv, PhaseInv, SliceOps
  <2>2. \A f : Answer([status |-> "ok", fact |-> f]) => ReaderInv'
    <3> SUFFICES ASSUME NEW f, Answer([status |-> "ok", fact |-> f]) PROVE ReaderInv'
      OBVIOUS
    <3> QED
      BY <2>1, NoSliceIsFine DEF ReaderInv
  <2> QED
    BY <1>1, <1>3, <2>2 DEF ReadOneFact
<1>4. CASE ScanSchemas
  <2>1. req.op \notin SliceOps
    BY <1>4 DEF ScanSchemas, ReaderInv, PhaseInv, SliceOps
  <2>2. \A f : Answer([status |-> "ok", scanned |-> f]) => ReaderInv'
    <3> SUFFICES ASSUME NEW f, Answer([status |-> "ok", scanned |-> f]) PROVE ReaderInv'
      OBVIOUS
    <3> QED
      BY <2>1, NoSliceIsFine DEF ReaderInv
  <2> QED
    BY <1>1, <1>4, <2>2 DEF ScanSchemas
<1> QED
  BY <1>2, <1>3, <1>4

\* A read begins.
LEMMA StartsFine ==
    ASSUME Sound(db), ReaderInv, UNCHANGED vars, NEW r \in Requests, StartRead(r) \/ RefuseRead(r)
    PROVE  ReaderInv'
<1>1. db' = db
  BY ReadersGrowNothing
<1>2. CASE RefuseRead(r)
  <2>1. /\ rpc' = rpc /\ req' = req /\ seen' = seen /\ todo' = todo /\ loaded' = loaded /\ built' = built
        /\ rpc = "idle" /\ answer' = [status |-> "refused", req |-> r]
    BY <1>2 DEF RefuseRead, readerScratch
  <2>2. ~SliceAnswered'
    BY <2>1 DEF SliceAnswered
  <2> QED
    BY <1>1, <2>1, <2>2
       DEF ReaderInv, PhaseInv, VisitInv, CollectInv, LookupInv, ChainInv, AnswerInv, Nothing
<1>3. CASE StartRead(r)
  <2>1. /\ rpc = "idle" /\ RequestAccepted(r) /\ req' = r /\ rpc' = FirstQuery(r)
        /\ pending' = IF r.op = "closure" THEN r.roots ELSE << >>
        /\ answer' = NoAnswer /\ seen' = seen /\ todo' = todo /\ loaded' = loaded /\ built' = built
    BY <1>3 DEF StartRead
  <2>2. seen = {} /\ todo = {} /\ loaded = << >> /\ built = Nothing
    BY <2>1 DEF ReaderInv, PhaseInv
  <2>3. /\ r.op \in {"fact", "scan", "prefix", "closure", "frontier"}
        /\ r.op = "closure" => IsPath(r.roots)
    BY RequestsAssumption DEF IsPath
  <2>4. ~SliceAnswered'
    BY <2>1 DEF SliceAnswered, NoAnswer
  <2>5. \/ r.op = "fact" /\ rpc' = "fact"
        \/ r.op = "scan" /\ rpc' = "scan"
        \/ r.op = "prefix" /\ rpc' = "entries"
        \/ r.op = "closure" /\ rpc' = "visit"
        \/ r.op = "frontier" /\ rpc' = "cutoff"
    BY <2>1, <2>3 DEF FirstQuery
  <2>6. RequestAccepted(r)'
    BY <2>1 DEF RequestAccepted
  <2>7. PhaseInv'
    BY <2>1, <2>2, <2>5 DEF PhaseInv, Nothing, SliceOps
  <2>8. VisitInv'
    <3> SUFFICES ASSUME r.op = "closure" PROVE VisitInv'
      BY <2>5 DEF VisitInv
    <3>1. pending' = r.roots /\ seen' = {} /\ IsPath(r.roots)
      BY <2>1, <2>2, <2>3
    <3> QED
      BY <2>1, <3>1 DEF VisitInv
  <2> QED
    BY <2>4, <2>5, <2>7, <2>8 DEF ReaderInv, CollectInv, LookupInv, ChainInv, AnswerInv
<1> QED
  BY <1>2, <1>3

\* What one sequence and another have.
LEMMA RangeOfConcat ==
    ASSUME NEW s, NEW t, IsPath(s), IsPath(t)
    PROVE  IsPath(s \o t) /\ Range(s \o t) = Range(s) \cup Range(t)
<1>1. s \in Seq(Range(s)) /\ t \in Seq(Range(t))
  BY DEF IsPath
<1> DEFINE S == Range(s) \cup Range(t)
<1>2. s \in Seq(S) /\ t \in Seq(S)
  BY <1>1 DEF Range
<1> HIDE DEF S
<1>3. /\ s \o t \in Seq(S) /\ Len(s) \in Nat /\ Len(t) \in Nat
      /\ DOMAIN s = 1 .. Len(s) /\ DOMAIN t = 1 .. Len(t)
      /\ DOMAIN (s \o t) = 1 .. Len(s) + Len(t)
      /\ \A i \in 1 .. Len(s) : (s \o t)[i] = s[i]
      /\ \A i \in 1 .. Len(t) : (s \o t)[Len(s) + i] = t[i]
  <2>1. s \o t \in Seq(S) /\ Len(s) \in Nat /\ Len(t) \in Nat
    BY <1>2
  <2>2. DOMAIN s = 1 .. Len(s) /\ DOMAIN t = 1 .. Len(t)
    BY <1>2
  <2>3. DOMAIN (s \o t) = 1 .. Len(s) + Len(t)
    BY <1>2
  <2>4. \A i \in 1 .. Len(s) : (s \o t)[i] = s[i]
    BY <1>2
  <2>5. \A i \in 1 .. Len(t) : (s \o t)[Len(s) + i] = t[i]
    BY <1>2
  <2> QED
    BY <2>1, <2>2, <2>3, <2>4, <2>5
<1>4. IsPath(s \o t)
  BY <1>3, OverOwnRange DEF IsPath
<1>5. ASSUME NEW x \in Range(s \o t) PROVE x \in Range(s) \cup Range(t)
  <2>1. PICK i \in 1 .. Len(s) + Len(t) : x = (s \o t)[i]
    BY <1>3 DEF Range
  <2>2. CASE i \in 1 .. Len(s)
    BY <1>3, <2>1, <2>2 DEF Range
  <2>3. CASE i \notin 1 .. Len(s)
    <3>1. i - Len(s) \in 1 .. Len(t) /\ Len(s) + (i - Len(s)) = i
      BY <1>3, <2>1, <2>3
    <3>2. x = t[i - Len(s)]
      BY <1>3, <2>1, <3>1
    <3> QED
      BY <1>3, <3>1, <3>2 DEF Range
  <2> QED
    BY <2>2, <2>3
<1>6. \A i \in 1 .. Len(s) : i \in 1 .. Len(s) + Len(t)
  BY <1>3
<1>7. \A i \in 1 .. Len(t) : Len(s) + i \in 1 .. Len(s) + Len(t)
  BY <1>3
<1>8. Range(s) \cup Range(t) \subseteq Range(s \o t)
  BY <1>3, <1>6, <1>7 DEF Range
<1> QED
  BY <1>4, <1>5, <1>8

\* What a sequence has, and what it has with one more.
LEMMA RangeOfEnds ==
    ASSUME NEW s, IsPath(s)
    PROVE  /\ s # << >> => IsPath(Tail(s)) /\ Range(s) = {Head(s)} \cup Range(Tail(s))
           /\ \A x : IsPath(Append(s, x)) /\ Range(Append(s, x)) = Range(s) \cup {x}
<1>1. DOMAIN s = 1 .. Len(s) /\ Len(s) \in Nat
  BY DEF IsPath
<1>2. ASSUME s # << >> PROVE IsPath(Tail(s)) /\ Range(s) = {Head(s)} \cup Range(Tail(s))
  <2>1. /\ IsPath(Tail(s)) /\ Len(s) \in Nat /\ Len(s) >= 1 /\ Len(Tail(s)) = Len(s) - 1
        /\ Head(s) = s[1]
        /\ \A k \in 1 .. Len(s) - 1 : Tail(s)[k] = s[k + 1]
    BY <1>2, TailIsPath
  <2>2. DOMAIN Tail(s) = 1 .. Len(s) - 1
    BY <2>1 DEF IsPath
  <2>3. ASSUME NEW x \in Range(s) PROVE x \in {Head(s)} \cup Range(Tail(s))
    <3>1. PICK i \in 1 .. Len(s) : x = s[i]
      BY <1>1 DEF Range
    <3>2. CASE i = 1
      BY <2>1, <3>1, <3>2
    <3>3. CASE i # 1
      <4>1. i - 1 \in 1 .. Len(s) - 1 /\ (i - 1) + 1 = i
        BY <1>1, <3>1, <3>3
      <4>2. Tail(s)[i - 1] = x
        BY <2>1, <3>1, <4>1
      <4> QED
        BY <2>2, <4>1, <4>2 DEF Range
    <3> QED
      BY <3>2, <3>3
  <2>4. ASSUME NEW x \in Range(Tail(s)) PROVE x \in Range(s)
    <3>1. PICK i \in 1 .. Len(s) - 1 : x = Tail(s)[i]
      BY <2>2 DEF Range
    <3>2. i + 1 \in 1 .. Len(s) /\ s[i + 1] = x
      BY <2>1, <3>1
    <3> QED
      BY <1>1, <3>2 DEF Range
  <2>5. Head(s) \in Range(s)
    BY <1>1, <2>1 DEF Range
  <2> QED
    BY <2>1, <2>3, <2>4, <2>5
<1>3. ASSUME NEW x PROVE IsPath(Append(s, x)) /\ Range(Append(s, x)) = Range(s) \cup {x}
  <2>1. /\ IsPath(Append(s, x)) /\ Len(Append(s, x)) = Len(s) + 1
        /\ \A k \in 1 .. Len(s) : Append(s, x)[k] = s[k]
        /\ Append(s, x)[Len(s) + 1] = x
    BY AppendIsPath
  <2>2. DOMAIN Append(s, x) = 1 .. Len(s) + 1
    BY <2>1 DEF IsPath
  <2>3. \A i \in 1 .. Len(s) + 1 : i \in 1 .. Len(s) \/ i = Len(s) + 1
    BY <1>1
  <2>4. \A i \in 1 .. Len(s) : i \in 1 .. Len(s) + 1
    BY <1>1
  <2>5. Len(s) + 1 \in 1 .. Len(s) + 1
    BY <1>1
  <2> QED
    BY <1>1, <2>1, <2>2, <2>3, <2>4, <2>5 DEF Range
<1> QED
  BY <1>2, <1>3

\* What was collected is the same while nobody collects; a context may have ended.
LEMMA SameCollected ==
    ASSUME db' = db, rpc' = rpc, req' = req, seen' = seen, loaded' = loaded, asOf' = asOf,
           rpc = "load" => todo' = todo, gone => gone', CollectInv
    PROVE  CollectInv'
<1> SUFFICES ASSUME rpc \in {"load", "lookup"} PROVE CollectInv'
  BY DEF CollectInv
<1>1. Collected' = Collected
  BY DEF Collected
<1>2. Complete' <=> Complete
  BY <1>1 DEF Complete, Scope, Cutoff, Matches
<1>3. InPathOrder(loaded)' <=> InPathOrder(loaded)
  BY DEF InPathOrder, EntryBefore, PathRank
<1>4. Ancestors(Range(req.roots))' = Ancestors(Range(req.roots))
  BY DEF Ancestors
<1>5. rpc = "load" => \A e \in Range(loaded), f \in todo : EntryBefore(e, f)'
  BY DEF CollectInv, EntryBefore, PathRank
<1>6. \A e \in Range(loaded) : Matches(e.record_id)'
  BY DEF CollectInv, Matches
<1> QED
  BY <1>1, <1>2, <1>3, <1>4, <1>5, <1>6 DEF CollectInv

\* The reader's context ends.
LEMMA GoneIsFine ==
    ASSUME Sound(db), ReaderInv, UNCHANGED vars, ReaderGone
    PROVE  ReaderInv'
<1>1. /\ db' = db /\ Grows /\ gone' = TRUE
      /\ rpc' = rpc /\ req' = req /\ pending' = pending /\ seen' = seen /\ todo' = todo
      /\ loaded' = loaded /\ built' = built /\ asOf' = asOf /\ answer' = answer
  BY ReadersGrowNothing DEF ReaderGone
<1>2. PhaseInv'
  BY <1>1 DEF ReaderInv, PhaseInv, Nothing
<1>3. VisitInv'
  BY <1>1 DEF ReaderInv, VisitInv, ClosedUpwards
<1>4. CollectInv'
  BY <1>1, SameCollected DEF ReaderInv
<1>5. LookupInv'
  <2>1. Lookups' = Lookups
    BY <1>1 DEF Lookups, LookupsOf, CausesOf, Selected, IncludeAnchors
  <2>2. LookedUp' = LookedUp /\ ContextsLookedUp' = ContextsLookedUp
    BY <1>1, <2>1 DEF LookedUp, ContextsLookedUp, ForCause, CausesOf
  <2>3. {CauseAt(p) : p \in {q \in LookedUp : ForCause(q)}}' = {CauseAt(p) : p \in {q \in LookedUp : ForCause(q)}}
    BY <1>1, <2>2 DEF CauseAt, ForCause, CausesOf
  <2>4. Unharmed' => Unharmed
    BY <1>1 DEF Unharmed
  <2> QED
    BY <1>1, <2>1, <2>2, <2>3, <2>4 DEF ReaderInv, LookupInv, Nothing
<1>6. ChainInv'
  BY <1>1 DEF ReaderInv, ChainInv, Selected
<1>7. AnswerInv'
  BY <1>1, AnswerStays DEF ReaderInv
<1> QED
  BY <1>2, <1>3, <1>4, <1>5, <1>6, <1>7 DEF ReaderInv

\* A fact that was visited before is passed over.
LEMMA SkipIsFine ==
    ASSUME Sound(db), ReaderInv, UNCHANGED vars, SkipVisited
    PROVE  ReaderInv'
<1>1. /\ db' = db /\ Grows /\ rpc = "visit" /\ pending # << >> /\ Head(pending) \in seen
      /\ pending' = Tail(pending)
      /\ rpc' = rpc /\ req' = req /\ seen' = seen /\ todo' = todo
      /\ loaded' = loaded /\ built' = built /\ answer' = answer
  BY ReadersGrowNothing DEF SkipVisited
<1>2. PhaseInv'
  BY <1>1 DEF ReaderInv, PhaseInv, Nothing
<1>3. IsPath(pending') /\ Range(pending) = {Head(pending)} \cup Range(pending')
  BY <1>1, RangeOfEnds DEF ReaderInv, VisitInv
<1>4. seen \cup Range(pending') = seen \cup Range(pending)
  BY <1>1, <1>3
<1>5. VisitInv'
  BY <1>1, <1>3, <1>4 DEF ReaderInv, VisitInv, ClosedUpwards
<1>6. AnswerInv'
  BY <1>1, AnswerStays DEF ReaderInv
<1> QED
  BY <1>1, <1>2, <1>5, <1>6 DEF ReaderInv, CollectInv, LookupInv, ChainInv

\* The parents that a visit adds are those that were not visited.
LEMMA NewParentsAreThose ==
    ASSUME Sound(db), NEW x \in DOMAIN db.records
    PROVE  /\ IsPath(NewParents(x))
           /\ Range(NewParents(x)) = Range(db.records[x].caused_by) \ (seen \cup {x})
<1> DEFINE causes == db.records[x].caused_by
           I == {i \in DOMAIN causes : causes[i] \notin seen \cup {x}}
           r == ElementsAt(causes, I)
<1>1. IsPath(causes) /\ I \in SUBSET DOMAIN causes
  BY DEF Sound, CausesListed
<1>2. r = NewParents(x)
  BY DEF NewParents
<1> HIDE DEF I, causes
<1>3. /\ IsPath(r)
      /\ \A k \in 1 .. Len(r) : NthOf(I, k) \in I /\ r[k] = causes[NthOf(I, k)]
      /\ \A i \in I : \E k \in 1 .. Len(r) : NthOf(I, k) = i
  BY <1>1, ElementsAreThose
<1> HIDE DEF r
<1>4. DOMAIN r = 1 .. Len(r)
  BY <1>3 DEF IsPath
<1>5. ASSUME NEW y \in Range(r) PROVE y \in Range(causes) \ (seen \cup {x})
  <2>1. PICK k \in 1 .. Len(r) : y = r[k]
    BY <1>4 DEF Range
  <2>2. NthOf(I, k) \in I /\ y = causes[NthOf(I, k)]
    BY <1>3, <2>1
  <2> QED
    BY <2>2 DEF I, Range
<1>6. ASSUME NEW y \in Range(causes) \ (seen \cup {x}) PROVE y \in Range(r)
  <2>1. PICK i \in DOMAIN causes : y = causes[i]
    BY DEF Range
  <2>2. i \in I
    BY <1>6, <2>1 DEF I
  <2>3. PICK k \in 1 .. Len(r) : NthOf(I, k) = i
    BY <1>3, <2>2
  <2> QED
    BY <1>3, <1>4, <2>1, <2>3 DEF Range
<1> QED
  BY <1>2, <1>3, <1>5, <1>6 DEF causes

\* A fact is visited.
LEMMA VisitIsFine ==
    ASSUME Sound(db), ReaderInv, UNCHANGED vars, VisitFact
    PROVE  ReaderInv'
<1> DEFINE x == Head(pending)
           more == NewParents(x)
<1>1. /\ db' = db /\ Grows /\ rpc = "visit" /\ pending # << >>
      /\ x \in DOMAIN db.records
      /\ seen' = seen \cup {x} /\ pending' = Tail(pending) \o more
      /\ rpc' = rpc /\ req' = req /\ todo' = todo
      /\ loaded' = loaded /\ built' = built /\ answer' = answer
  BY ReadersGrowNothing DEF VisitFact, FactIsThere
<1>2. /\ IsPath(pending) /\ seen \subseteq DOMAIN db.records
      /\ Range(req.roots) \subseteq seen \cup Range(pending)
      /\ \A d \in db.edges : d.child \in seen => d.parent \in seen \cup Range(pending)
      /\ \A S \in SUBSET (DOMAIN db.records \cup Range(req.roots)) :
           (Range(req.roots) \subseteq S /\ ClosedUpwards(S)) => seen \cup Range(pending) \subseteq S
  BY <1>1 DEF ReaderInv, VisitInv
<1>3. /\ IsPath(more)
      /\ Range(more) = Range(db.records[x].caused_by) \ (seen \cup {x})
  BY <1>1, NewParentsAreThose
<1>4. IsPath(Tail(pending)) /\ Range(pending) = {x} \cup Range(Tail(pending))
  BY <1>1, <1>2, RangeOfEnds
<1> HIDE DEF x, more
<1>5. IsPath(pending') /\ Range(pending') = Range(Tail(pending)) \cup Range(more)
  BY <1>1, <1>3, <1>4, RangeOfConcat
<1>6. seen' \cup Range(pending') = seen \cup Range(pending) \cup Range(db.records[x].caused_by)
  BY <1>1, <1>3, <1>4, <1>5
<1>7. PhaseInv'
  BY <1>1 DEF ReaderInv, PhaseInv, Nothing
<1>8. \A d \in db.edges : d.child \in seen' => d.parent \in seen' \cup Range(pending')
  <2> SUFFICES ASSUME NEW d \in db.edges, d.child \in seen'
               PROVE  d.parent \in seen' \cup Range(pending')
    OBVIOUS
  <2>1. CASE d.child \in seen
    BY <1>2, <1>6, <2>1
  <2>2. CASE d.child = x
    <3>1. d.parent \in Range(db.records[x].caused_by)
      BY <2>2, EdgesAreCauses
    <3> QED
      BY <1>6, <3>1
  <2> QED
    BY <1>1, <2>1, <2>2
<1>9. ASSUME NEW S \in SUBSET (DOMAIN db.records \cup Range(req.roots)),
             Range(req.roots) \subseteq S, ClosedUpwards(S)
      PROVE  seen' \cup Range(pending') \subseteq S
  <2>1. seen \cup Range(pending) \subseteq S
    BY <1>2, <1>9
  <2>2. x \in S
    BY <1>4, <2>1
  <2>3. Range(db.records[x].caused_by) \subseteq S
    <3> SUFFICES ASSUME NEW y \in Range(db.records[x].caused_by) PROVE y \in S
      OBVIOUS
    <3>1. \A id \in DOMAIN db.records : \A z \in Range(db.records[id].caused_by) :
            \E d \in db.edges : d.child = id /\ d.parent = z
      BY EdgesAreCauses
    <3>2. \E d \in db.edges : d.child = x /\ d.parent = y
      BY <1>1, <3>1
    <3> QED
      BY <1>9, <2>2, <3>2 DEF ClosedUpwards
  <2> QED
    BY <1>6, <2>1, <2>3
<1>10. seen' \subseteq DOMAIN db.records
  BY <1>1, <1>2
<1>11. Range(req.roots) \subseteq seen' \cup Range(pending')
  BY <1>2, <1>6
<1>12. VisitInv'
  BY <1>1, <1>5, <1>8, <1>9, <1>10, <1>11 DEF VisitInv, ClosedUpwards
<1>13. AnswerInv'
  BY <1>1, AnswerStays DEF ReaderInv
<1> QED
  BY <1>1, <1>7, <1>12, <1>13 DEF ReaderInv, CollectInv, LookupInv, ChainInv

\* The entries are queried, or some of them until the context ends.
LEMMA QueriedIsFine ==
    ASSUME Sound(db), ReaderInv, UNCHANGED vars, rpc \in {"visit", "entries"}, rpc' = "load",
           req' = req, seen' = seen, loaded' = loaded, built' = built, answer' = answer,
           asOf' = db.next, todo' \subseteq db.paths, gone' \/ Complete',
           req.op = "closure" => /\ Range(req.roots) \subseteq DOMAIN db.records
                                 /\ seen = Ancestors(Range(req.roots))
    PROVE  ReaderInv'
<1>1. db' = db /\ Grows
  BY ReadersGrowNothing
<1>2. loaded = << >> /\ built = Nothing
  BY DEF ReaderInv, PhaseInv
<1>3. IsPath(<< >>) /\ Range(<< >>) = {} /\ DOMAIN << >> = {}
  BY DEF IsPath, Range
<1>4. PhaseInv'
  BY <1>1, <1>2 DEF ReaderInv, PhaseInv, Nothing, SliceOps
<1>5. \A p \in Paths : db.next[p] \in Nat /\ db.next[p] <= db.next[p]
  BY DEF Sound
<1>6. Collected' \subseteq db.paths
  BY <1>2, <1>3 DEF Collected
<1>7. Ancestors(Range(req.roots))' = Ancestors(Range(req.roots))
  BY <1>1 DEF Ancestors
<1>8. CollectInv'
  BY <1>1, <1>2, <1>3, <1>5, <1>6, <1>7 DEF CollectInv, InPathOrder
<1>9. AnswerInv'
  BY <1>1, AnswerStays DEF ReaderInv
<1> QED
  BY <1>4, <1>8, <1>9 DEF ReaderInv, VisitInv, LookupInv, ChainInv

\* The first entry of a fact is one of its entries.
LEMMA FirstEntryIsThere ==
    ASSUME Sound(db), NEW id \in DOMAIN db.records
    PROVE  FirstEntry(db, id) \in db.paths /\ FirstEntry(db, id).record_id = id
<1>1. PICK e \in db.paths : e.record_id = id
  BY DEF Sound, Filed
<1>2. /\ PlacesOf(db, id) # {}
      /\ \A f \in PlacesOf(db, id) : f.path_ref \in Paths /\ f.path_ordinal \in Nat
      /\ \A f, g \in PlacesOf(db, id) : f.path_ref = g.path_ref /\ f.path_ordinal = g.path_ordinal => f = g
  BY <1>1 DEF PlacesOf, Sound, KeysUnique
<1>3. FirstEntry(db, id) \in PlacesOf(db, id)
  BY <1>2, FirstIsFirst DEF FirstEntry
<1> QED
  BY <1>3 DEF PlacesOf

\* The entries of a closure are queried.
LEMMA OrderIsFine ==
    ASSUME Sound(db), ReaderInv, UNCHANGED vars, OrderClosure \/ OrderClosureCut
    PROVE  ReaderInv'
<1> DEFINE rows == canonicalFactOrder(db, seen)
<1>1. /\ db' = db /\ rpc = "visit" /\ rpc' = "load" /\ pending = << >>
      /\ req' = req /\ seen' = seen /\ loaded' = loaded /\ built' = built /\ answer' = answer
      /\ asOf' = db.next
      /\ todo' \subseteq rows /\ (gone' \/ todo' = rows)
  BY ReadersGrowNothing DEF OrderClosure, OrderClosureCut
<1>2. req.op = "closure" /\ loaded = << >>
  BY <1>1 DEF ReaderInv, PhaseInv
<1>3. Range(pending) = {}
  BY <1>1 DEF Range
<1>4. /\ seen \subseteq DOMAIN db.records /\ Range(req.roots) \subseteq seen /\ ClosedUpwards(seen)
      /\ \A S \in SUBSET (DOMAIN db.records \cup Range(req.roots)) :
           (Range(req.roots) \subseteq S /\ ClosedUpwards(S)) => seen \subseteq S
  BY <1>1, <1>3 DEF ReaderInv, VisitInv, ClosedUpwards
<1>5. seen = Ancestors(Range(req.roots))
  <2>1. ASSUME NEW x \in Ancestors(Range(req.roots)) PROVE x \in seen
    BY <1>4 DEF Ancestors, ClosedUpwards
  <2>2. ASSUME NEW x \in seen PROVE x \in Ancestors(Range(req.roots))
    <3>1. ASSUME NEW S \in SUBSET DOMAIN db.records, Range(req.roots) \subseteq S,
                 \A d \in db.edges : d.child \in S => d.parent \in S
          PROVE  x \in S
      BY <1>4, <3>1 DEF ClosedUpwards
    <3> QED
      BY <1>4, <3>1 DEF Ancestors
  <2> QED
    BY <2>1, <2>2
<1>6. \A id \in seen : FirstEntry(db, id) \in db.paths /\ FirstEntry(db, id).record_id = id
  BY <1>4, FirstEntryIsThere
<1>7. rows = {FirstEntry(db, id) : id \in seen}
  BY DEF canonicalFactOrder
<1> HIDE DEF rows
<1>8. rows \subseteq db.paths
  BY <1>6, <1>7
<1>9. ASSUME todo' = rows PROVE Complete'
  <2>1. Collected' = rows
    BY <1>1, <1>2, <1>9 DEF Collected, Range
  <2>2. \A id : Matches(id)' <=> Matches(id)
    BY <1>1 DEF Matches
  <2>3. {e.record_id : e \in {f \in rows : Matches(f.record_id)}} = {id \in seen : Matches(id)}
    BY <1>6, <1>7
  <2>4. \A e, f \in rows : e.record_id = f.record_id => e = f
    BY <1>6, <1>7
  <2>5. {f \in Collected : Matches(f.record_id)}' = {f \in rows : Matches(f.record_id)}
    BY <2>1, <2>2
  <2>6. {id \in seen : Matches(id)}' = {id \in seen : Matches(id)}
    BY <1>1, <2>2
  <2> QED
    BY <1>1, <1>2, <2>1, <2>3, <2>4, <2>5, <2>6 DEF Complete
<1>10. Range(req.roots) \subseteq DOMAIN db.records
  BY <1>4
<1> QED
  BY <1>1, <1>2, <1>5, <1>8, <1>9, <1>10, QueriedIsFine

\* The entries of a prefix or of a frontier are queried.
LEMMA EntriesAreFine ==
    ASSUME Sound(db), ReaderInv, UNCHANGED vars, QueryEntries \/ QueryEntriesCut
    PROVE  ReaderInv'
<1>1. /\ db' = db /\ rpc = "entries" /\ rpc' = "load"
      /\ req' = req /\ seen' = seen /\ loaded' = loaded /\ built' = built /\ answer' = answer
      /\ asOf' = db.next
      /\ todo' \subseteq EntryRows /\ (gone' \/ todo' = EntryRows)
  BY ReadersGrowNothing DEF QueryEntries, QueryEntriesCut
<1>2. req.op \in {"prefix", "frontier"} /\ loaded = << >>
  BY <1>1 DEF ReaderInv, PhaseInv
<1>3. EntryRows \subseteq db.paths
  BY DEF EntryRows, PrefixRows
<1>4. ASSUME todo' = EntryRows PROVE Complete'
  <2>1. Collected' = EntryRows
    BY <1>1, <1>2, <1>4 DEF Collected, Range
  <2>2. \A e \in db.paths : e.path_ordinal < db.next[e.path_ref]
    <3>1. Grown(db, db)
      BY GrownReflexive
    <3> QED
      BY <3>1, EntriesStay
  <2>3. Scope' = EntryRows
    <3>1. CASE req.op = "prefix"
      <4>1. Scope' = {e \in db.paths : /\ req.owner \in {"", e.path_ref}
                                       /\ e.path_ordinal <= req.through
                                       /\ e.path_ordinal < db.next[e.path_ref]}
        BY <1>1, <3>1 DEF Scope
      <4>2. EntryRows = {e \in db.paths : /\ req.owner = "" \/ e.path_ref = req.owner
                                          /\ e.path_ordinal <= req.through}
        BY <3>1 DEF EntryRows, PrefixRows
      <4> QED
        BY <2>2, <4>1, <4>2
    <3>2. CASE req.op = "frontier"
      <4>1. Scope' = {e \in db.paths : /\ e.path_ref = Cutoff.target_trace_owner_id
                                       /\ e.path_ordinal <= Cutoff.through_owner_ordinal}
        BY <1>1, <3>2 DEF Scope, Cutoff
      <4>2. EntryRows = {e \in db.paths : /\ \/ Cutoff.target_trace_owner_id = ""
                                             \/ e.path_ref = Cutoff.target_trace_owner_id
                                          /\ e.path_ordinal <= Cutoff.through_owner_ordinal}
        BY <3>2 DEF EntryRows, PrefixRows
      <4>3. Cutoff.target_trace_owner_id # ""
        <5>1. req.frontier_id \in DOMAIN db.frontiers
          BY <1>1, <3>2 DEF ReaderInv, PhaseInv
        <5> QED
          BY <5>1 DEF Cutoff, Sound, CutsOnPaths, PathsNamed
      <4> QED
        BY <4>1, <4>2, <4>3
    <3> QED
      BY <1>2, <3>1, <3>2
  <2> QED
    BY <1>1, <1>2, <2>1, <2>3 DEF Complete
<1> QED
  BY <1>1, <1>2, <1>3, <1>4, QueriedIsFine

\* A frontier is looked up and confirmed.
LEMMA CutoffsAreFine ==
    ASSUME Sound(db), ReaderInv, UNCHANGED vars, ReadCutoff \/ CheckCutoff
    PROVE  ReaderInv'
<1>1. db' = db /\ Grows
  BY ReadersGrowNothing
<1>2. CASE \E e \in {"error", "unknown_frontier"} : Answer([status |-> e])
  <2>1. PICK e \in {"error", "unknown_frontier"} : Answer([status |-> e])
    BY <1>2
  <2> QED
    BY <2>1, NoSliceIsFine DEF ReaderInv
<1>3. CASE /\ rpc \in {"cutoff", "confirm", "through"} /\ rpc' \in {"confirm", "through", "entries"}
           /\ rpc = "cutoff" => req.frontier_id \in DOMAIN db.frontiers
           /\ UNCHANGED <<readerScratch, answer>>
  <2>1. req' = req /\ seen' = seen /\ todo' = todo /\ loaded' = loaded /\ built' = built /\ answer' = answer
    BY <1>3 DEF readerScratch
  <2>2. PhaseInv'
    BY <1>1, <1>3, <2>1 DEF ReaderInv, PhaseInv, Nothing
  <2>3. AnswerInv'
    BY <1>1, <2>1, AnswerStays DEF ReaderInv
  <2> QED
    BY <1>3, <2>2, <2>3 DEF ReaderInv, VisitInv, CollectInv, LookupInv, ChainInv
<1> QED
  BY <1>2, <1>3 DEF ReadCutoff, CheckCutoff

\* An entry behind all others goes to the end.
LEMMA AppendInOrder ==
    ASSUME NEW s, IsPath(s), InPathOrder(s), NEW e, \A x \in Range(s) : EntryBefore(x, e)
    PROVE  InPathOrder(Append(s, e))
<1> DEFINE t == Append(s, e)
<1>1. DOMAIN s = 1 .. Len(s) /\ Len(s) \in Nat
  BY DEF IsPath
<1>2. /\ IsPath(t) /\ Len(t) = Len(s) + 1
      /\ \A k \in 1 .. Len(s) : t[k] = s[k]
      /\ t[Len(s) + 1] = e
  BY AppendIsPath
<1> HIDE DEF t
<1>3. DOMAIN t = 1 .. Len(s) + 1
  BY <1>2 DEF IsPath
<1>4. ASSUME NEW i \in DOMAIN t, NEW j \in DOMAIN t, i < j PROVE EntryBefore(t[i], t[j])
  <2>1. i \in 1 .. Len(s)
    BY <1>1, <1>3, <1>4
  <2>2. t[i] = s[i] /\ s[i] \in Range(s)
    BY <1>1, <1>2, <2>1 DEF Range
  <2>3. CASE j = Len(s) + 1
    BY <1>2, <2>2, <2>3
  <2>4. CASE j # Len(s) + 1
    <3>1. j \in 1 .. Len(s)
      BY <1>1, <1>3, <2>4
    <3>2. t[j] = s[j] /\ i \in DOMAIN s /\ j \in DOMAIN s
      BY <1>1, <1>2, <2>1, <3>1
    <3> QED
      BY <1>4, <2>2, <3>2 DEF InPathOrder
  <2> QED
    BY <2>3, <2>4
<1> QED
  BY <1>4 DEF InPathOrder, t

\* The next entry is loaded, or passed over for its mode.
LEMMA LoadIsFine ==
    ASSUME Sound(db), ReaderInv, UNCHANGED vars, LoadEntry
    PROVE  ReaderInv'
<1> DEFINE e == First(todo)
<1>1. /\ db' = db /\ Grows /\ rpc = "load" /\ todo # {} /\ ~gone /\ todo' = todo \ {e}
      /\ loaded' = IF Matches(e.record_id) THEN Append(loaded, e) ELSE loaded
      /\ rpc' = rpc /\ req' = req /\ gone' = gone /\ seen' = seen /\ built' = built
      /\ asOf' = asOf /\ answer' = answer
  BY ReadersGrowNothing DEF LoadEntry, Matches
<1>2. /\ IsPath(loaded) /\ InPathOrder(loaded)
      /\ Collected \subseteq db.paths
      /\ \A x \in Range(loaded), f \in todo : EntryBefore(x, f)
      /\ \A x \in Range(loaded) : Matches(x.record_id)
      /\ Complete
      /\ \A p \in Paths : asOf[p] \in Nat /\ asOf[p] <= db.next[p]
      /\ req.op = "closure" => /\ Range(req.roots) \subseteq DOMAIN db.records
                               /\ seen = Ancestors(Range(req.roots))
  BY <1>1 DEF ReaderInv, CollectInv
<1>3. Collected = Range(loaded) \cup todo
  BY <1>1 DEF Collected
<1>4. e \in todo /\ \A f \in todo : f = e \/ EntryBefore(e, f)
  <2>1. /\ \A x \in todo : x.path_ref \in Paths /\ x.path_ordinal \in Nat
        /\ \A x, f \in todo : x.path_ref = f.path_ref /\ x.path_ordinal = f.path_ordinal => x = f
    BY <1>2, <1>3 DEF Sound, KeysUnique
  <2> QED
    BY <1>1, <2>1, FirstIsFirst
<1> HIDE DEF e
<1>5. IsPath(loaded') /\ Range(loaded') = Range(loaded) \cup (IF Matches(e.record_id) THEN {e} ELSE {})
  BY <1>1, <1>2, RangeOfEnds
<1>6. InPathOrder(loaded')
  BY <1>1, <1>2, <1>4, AppendInOrder
<1>7. \A id : Matches(id)' <=> Matches(id)
  BY <1>1 DEF Matches
<1>8. Collected' = Range(loaded') \cup (todo \ {e})
  BY <1>1 DEF Collected
<1>9. /\ Collected' \subseteq Collected
      /\ {x \in Collected' : Matches(x.record_id)} = {x \in Collected : Matches(x.record_id)}
  BY <1>3, <1>4, <1>5, <1>8
<1>10. Complete'
  <2>1. {x \in Collected : Matches(x.record_id)}' = {x \in Collected : Matches(x.record_id)}
    BY <1>7, <1>9
  <2>2. {id \in seen : Matches(id)}' = {id \in seen : Matches(id)}
    BY <1>1, <1>7
  <2>3. {x \in Scope : Matches(x.record_id)}' = {x \in Scope : Matches(x.record_id)}
    <3>1. Scope' = Scope
      BY <1>1 DEF Scope, Cutoff
    <3> QED
      BY <1>7, <3>1
  <2>4. CASE req.op = "closure"
    BY <1>1, <1>2, <1>9, <2>1, <2>2, <2>4 DEF Complete
  <2>5. CASE req.op # "closure"
    BY <1>1, <1>2, <2>1, <2>3, <2>5 DEF Complete
  <2> QED
    BY <2>4, <2>5
<1>11. InPathOrder(loaded)'
  BY <1>6 DEF InPathOrder, EntryBefore, PathRank
<1>12. \A x \in Range(loaded'), f \in todo' : EntryBefore(x, f)'
  <2> SUFFICES ASSUME NEW x \in Range(loaded'), NEW f \in todo' PROVE EntryBefore(x, f)
    BY DEF EntryBefore, PathRank
  <2> QED
    BY <1>1, <1>2, <1>4, <1>5
<1>13. \A x \in Range(loaded') : Matches(x.record_id)'
  BY <1>2, <1>5, <1>7
<1>14. Ancestors(Range(req.roots))' = Ancestors(Range(req.roots))
  BY <1>1 DEF Ancestors
<1>15. CollectInv'
  BY <1>1, <1>2, <1>5, <1>9, <1>10, <1>11, <1>12, <1>13, <1>14 DEF CollectInv
<1>16. PhaseInv'
  BY <1>1 DEF ReaderInv, PhaseInv, Nothing
<1>17. AnswerInv'
  BY <1>1, AnswerStays DEF ReaderInv
<1> QED
  BY <1>1, <1>15, <1>16, <1>17 DEF ReaderInv, VisitInv, LookupInv, ChainInv

\* All is loaded, and what the entries still need is to be looked up.
LEMMA EndIsFine ==
    ASSUME Sound(db), ReaderInv, UNCHANGED vars, EndLoad
    PROVE  ReaderInv'
<1>1. /\ db' = db /\ Grows /\ rpc = "load" /\ rpc' = "lookup" /\ todo = {} /\ todo' = Lookups
      /\ req' = req /\ gone' = gone /\ seen' = seen /\ loaded' = loaded /\ built' = built
      /\ asOf' = asOf /\ answer' = answer
  BY ReadersGrowNothing DEF EndLoad
<1>2. built = Nothing
  BY <1>1 DEF ReaderInv, PhaseInv
<1>3. PhaseInv'
  BY <1>1 DEF ReaderInv, PhaseInv, Nothing
<1>4. CollectInv'
  <2>1. Collected' = Collected
    BY <1>1 DEF Collected
  <2>2. Complete' <=> Complete
    BY <1>1, <2>1 DEF Complete, Scope, Cutoff, Matches
  <2>3. InPathOrder(loaded)' <=> InPathOrder(loaded)
    BY <1>1 DEF InPathOrder, EntryBefore, PathRank
  <2>4. Ancestors(Range(req.roots))' = Ancestors(Range(req.roots))
    BY <1>1 DEF Ancestors
  <2>5. (\A e \in Range(loaded) : Matches(e.record_id))' <=> \A e \in Range(loaded) : Matches(e.record_id)
    BY <1>1 DEF Matches
  <2> QED
    BY <1>1, <2>1, <2>2, <2>3, <2>4, <2>5 DEF ReaderInv, CollectInv
<1>5. IsPath(<< >>) /\ Range(<< >>) = {} /\ Len(<< >>) = 0 /\ IsInjective(<< >>)
  BY DEF IsPath, Range, IsInjective
<1>6. Lookups' = Lookups
  BY <1>1 DEF Lookups, LookupsOf, CausesOf, Selected, IncludeAnchors
<1>7. LookedUp' = {} /\ ContextsLookedUp' = {}
  BY <1>1, <1>6 DEF LookedUp, ContextsLookedUp
<1>8. LookupInv'
  BY <1>1, <1>2, <1>5, <1>6, <1>7 DEF LookupInv, Nothing
<1>9. ChainInv'
  BY <1>1, <1>2, <1>5 DEF ChainInv, Nothing
<1>10. AnswerInv'
  BY <1>1, AnswerStays DEF ReaderInv
<1> QED
  BY <1>1, <1>3, <1>4, <1>8, <1>9, <1>10 DEF ReaderInv, VisitInv

\* What is to be looked up: the parents outside, and the contexts.
LEMMA LookupsAreThose ==
    ASSUME Sound(db), CollectInv, rpc = "lookup"
    PROVE  /\ \A p \in Lookups :
                /\ p = <<p[1], p[2]>> /\ p[1] \in Nat /\ p[2] \in Nat
                /\ p[1] \in DOMAIN loaded /\ loaded[p[1]] \in db.paths
                /\ ForCause(p) => /\ IncludeAnchors /\ CauseAt(p) \notin Selected
                                  /\ CauseAt(p) \in Range(CausesOf(loaded[p[1]]))
                                  /\ FactIsThere(db, CauseAt(p))
                /\ ~ForCause(p) => /\ loaded[p[1]].context_ref # << >>
                                   /\ loaded[p[1]].context_ref \in DOMAIN db.contexts
           /\ \A k \in DOMAIN loaded :
                /\ IncludeAnchors => \A x \in Range(CausesOf(loaded[k])) \ Selected :
                     \E p \in Lookups : p[1] = k /\ ForCause(p) /\ CauseAt(p) = x
                /\ loaded[k].context_ref # << >> => \E p \in Lookups : p[1] = k /\ ~ForCause(p)
<1>0. /\ \A d \in db.edges : d.child \in DOMAIN db.records /\ d.parent \in DOMAIN db.records
      /\ \A id \in DOMAIN db.records : \A x \in Range(db.records[id].caused_by) :
           \E d \in db.edges : d.child = id /\ d.parent = x
  BY EdgesAreCauses
<1>1. IsPath(loaded) /\ \A k \in DOMAIN loaded : loaded[k] \in db.paths
  BY LoadedAreRetained DEF CollectInv
<1>2. DOMAIN loaded \subseteq Nat
  BY <1>1 DEF IsPath
<1>3. ASSUME NEW k \in DOMAIN loaded
      PROVE  /\ loaded[k].record_id \in DOMAIN db.records
             /\ DOMAIN CausesOf(loaded[k]) = 1 .. Len(CausesOf(loaded[k]))
             /\ Len(CausesOf(loaded[k])) \in Nat
             /\ Len(CausesOf(loaded[k])) + 1 \notin DOMAIN CausesOf(loaded[k])
  <2>1. loaded[k].record_id \in DOMAIN db.records
    BY <1>1 DEF Sound, Filed
  <2>2. IsPath(CausesOf(loaded[k]))
    BY <2>1 DEF Sound, CausesListed, CausesOf
  <2> DEFINE c == CausesOf(loaded[k])
  <2> HIDE DEF c
  <2>3. IsPath(c)
    BY <2>2 DEF c
  <2>4. DOMAIN c = 1 .. Len(c) /\ Len(c) \in Nat
    BY <2>3 DEF IsPath
  <2>5. Len(c) + 1 \notin DOMAIN c
    BY <2>4
  <2> QED
    BY <2>1, <2>4, <2>5 DEF c
<1>4. ASSUME NEW p \in Lookups
      PROVE  /\ p = <<p[1], p[2]>> /\ p[1] \in DOMAIN loaded /\ p[2] \in LookupsOf(loaded[p[1]])
  <2>1. PICK k \in DOMAIN loaded : p \in {k} \X LookupsOf(loaded[k])
    BY DEF Lookups
  <2> QED
    BY <2>1
<1>5. ASSUME NEW p \in Lookups
      PROVE  /\ p[2] \in Nat
             /\ ForCause(p) => /\ IncludeAnchors /\ CauseAt(p) \notin Selected
                               /\ CauseAt(p) \in Range(CausesOf(loaded[p[1]]))
                               /\ FactIsThere(db, CauseAt(p))
             /\ ~ForCause(p) => /\ loaded[p[1]].context_ref # << >>
                                /\ loaded[p[1]].context_ref \in DOMAIN db.contexts
  <2>1. PICK k \in DOMAIN loaded : k = p[1]
    BY <1>4
  <2>2. p[2] \in LookupsOf(loaded[k])
    BY <1>4, <2>1
  <2>3. p[2] \in Nat
    BY <1>3, <2>2 DEF LookupsOf
  <2>4. ASSUME ForCause(p)
        PROVE  /\ IncludeAnchors /\ CauseAt(p) \notin Selected
               /\ CauseAt(p) \in Range(CausesOf(loaded[p[1]]))
               /\ FactIsThere(db, CauseAt(p))
    <3>1. IncludeAnchors /\ CauseAt(p) \notin Selected /\ CauseAt(p) \in Range(CausesOf(loaded[k]))
      BY <1>3, <2>1, <2>2, <2>4 DEF ForCause, CauseAt, LookupsOf, Range
    <3>2. \E d \in db.edges : d.parent = CauseAt(p)
      BY <1>0, <1>3, <3>1 DEF CausesOf
    <3>4. CauseAt(p) \in DOMAIN db.records
      BY <1>0, <3>2
    <3>5. FactIsThere(db, CauseAt(p))
      BY <3>4 DEF FactIsThere, PlacesOf, Sound, Filed
    <3> QED
      BY <2>1, <3>1, <3>5
  <2>5. ASSUME ~ForCause(p)
        PROVE  loaded[p[1]].context_ref # << >> /\ loaded[p[1]].context_ref \in DOMAIN db.contexts
    <3>1. loaded[k].context_ref # << >>
      BY <2>1, <2>2, <2>5 DEF ForCause, LookupsOf
    <3>2. loaded[k].context_ref \in DOMAIN db.contexts
      BY <1>1, <3>1 DEF Sound, ContextsKept
    <3> QED
      BY <2>1, <3>1, <3>2
  <2> QED
    BY <2>3, <2>4, <2>5
<1>6. ASSUME NEW k \in DOMAIN loaded, IncludeAnchors, NEW x \in Range(CausesOf(loaded[k])) \ Selected
      PROVE  \E p \in Lookups : p[1] = k /\ ForCause(p) /\ CauseAt(p) = x
  <2>1. PICK i \in DOMAIN CausesOf(loaded[k]) : CausesOf(loaded[k])[i] = x
    BY DEF Range
  <2>2. i \in LookupsOf(loaded[k])
    BY <1>6, <2>1 DEF LookupsOf
  <2>3. <<k, i>> \in Lookups
    BY <2>2 DEF Lookups
  <2> QED
    BY <2>1, <2>3 DEF ForCause, CauseAt
<1>7. ASSUME NEW k \in DOMAIN loaded, loaded[k].context_ref # << >>
      PROVE  \E p \in Lookups : p[1] = k /\ ~ForCause(p)
  <2>1. Len(CausesOf(loaded[k])) + 1 \in LookupsOf(loaded[k])
    BY <1>7 DEF LookupsOf
  <2> DEFINE i == Len(CausesOf(loaded[k])) + 1
  <2>2. i \in LookupsOf(loaded[k]) /\ i \notin DOMAIN CausesOf(loaded[k])
    BY <1>3, <2>1
  <2> HIDE DEF i
  <2>3. <<k, i>> \in Lookups
    BY <2>2 DEF Lookups
  <2> QED
    BY <2>2, <2>3 DEF ForCause
<1> QED
  BY <1>1, <1>2, <1>4, <1>5, <1>6, <1>7

\* A parent or a context is looked up.
LEMMA LookUpIsFine ==
    ASSUME Sound(db), ReaderInv, UNCHANGED vars, LookUp
    PROVE  ReaderInv'
<1> DEFINE shape == req.auth.visibility_profile = "shape_only"
<1>0. PICK p : p = NextLookup
  OBVIOUS
<1>00. PICK ctx : ctx = loaded[p[1]].context_ref
  OBVIOUS
<1>000. PICK id : id = CauseAt(p)
  OBVIOUS
<1>1. /\ db' = db /\ Grows /\ rpc = "lookup" /\ todo # {} /\ todo' = todo \ {p}
      /\ built' = IF ForCause(p) THEN WithAnchor(id) ELSE WithContext(ctx)
      /\ rpc' = rpc /\ req' = req /\ gone' = gone /\ seen' = seen /\ loaded' = loaded
      /\ asOf' = asOf /\ answer' = answer
  BY <1>0, <1>00, <1>000, ReadersGrowNothing DEF LookUp, ForCause, CauseAt
<1>2. CollectInv /\ LookupInv /\ ChainInv
  BY DEF ReaderInv
<1>3. /\ DOMAIN built = DOMAIN Nothing
      /\ todo \subseteq Lookups
      /\ IsPath(built.external_anchors) /\ IsPath(built.context_anchors)
      /\ {a.ref : a \in Range(built.external_anchors)}
           = {CauseAt(q) : q \in {r \in LookedUp : ForCause(r)}}
      /\ IF shape THEN Range(built.context_anchors) = ContextsLookedUp
         ELSE /\ built.contexts \subseteq ContextsLookedUp
              /\ Unharmed => built.contexts = ContextsLookedUp
      /\ Unharmed => \A a \in Range(built.external_anchors) : a.hidden_reason = "outside_frontier"
      /\ built.witnesses = << >>
  BY <1>1, <1>2 DEF LookupInv, ChainInv
<1>4. p \in todo
  <2>1. \A q \in todo : q = <<q[1], q[2]>> /\ q[1] \in Nat /\ q[2] \in Nat
    BY <1>1, <1>2, <1>3, LookupsAreThose
  <2> QED
    BY <1>0, <1>1, <2>1, NextIsNext
<1>5. /\ ForCause(p) => FactIsThere(db, id)
      /\ ~ForCause(p) => ctx \in DOMAIN db.contexts
  BY <1>00, <1>000, <1>1, <1>2, <1>3, <1>4, LookupsAreThose
<1>6. Lookups' = Lookups
  BY <1>1 DEF Lookups, LookupsOf, CausesOf, Selected, IncludeAnchors
<1>7. LookedUp' = LookedUp \cup {p}
  BY <1>1, <1>3, <1>4, <1>6 DEF LookedUp
<1>8. \A q : (ForCause(q)' <=> ForCause(q)) /\ CauseAt(q)' = CauseAt(q)
  BY <1>1 DEF ForCause, CauseAt, CausesOf
<1>9. {CauseAt(q) : q \in {r \in LookedUp : ForCause(r)}}'
        = {CauseAt(q) : q \in {r \in LookedUp : ForCause(r)}} \cup (IF ForCause(p) THEN {id} ELSE {})
  BY <1>000, <1>7, <1>8
<1>10. ContextsLookedUp' = ContextsLookedUp \cup (IF ForCause(p) THEN {} ELSE {ctx})
  BY <1>00, <1>1, <1>7, <1>8 DEF ContextsLookedUp
<1>11. Unharmed <=> ~gone
  BY <1>3 DEF Unharmed
<1>20. ASSUME /\ DOMAIN built' = DOMAIN built /\ built'.witnesses = << >>
              /\ IsPath(built'.external_anchors) /\ IsPath(built'.context_anchors)
              /\ {a.ref : a \in Range(built'.external_anchors)}
                   = {CauseAt(q) : q \in {r \in LookedUp : ForCause(r)}}'
              /\ IF shape THEN Range(built'.context_anchors) = ContextsLookedUp'
                 ELSE /\ built'.contexts \subseteq ContextsLookedUp'
                      /\ ~gone => built'.contexts = ContextsLookedUp'
              /\ ~gone => \A a \in Range(built'.external_anchors) : a.hidden_reason = "outside_frontier"
       PROVE  LookupInv'
  <2>1. Unharmed' <=> ~gone
    BY <1>1, <1>20 DEF Unharmed
  <2>2. todo' \subseteq Lookups'
    BY <1>1, <1>3, <1>6
  <2>3. DOMAIN built' = DOMAIN Nothing'
    BY <1>3, <1>20 DEF Nothing
  <2>4. req'.auth.visibility_profile = "shape_only" <=> shape
    BY <1>1
  <2> HIDE DEF shape
  <2> QED
    BY <1>20, <2>1, <2>2, <2>3, <2>4 DEF LookupInv
<1>12. ASSUME ForCause(p) PROVE LookupInv'
  <2>1. /\ DOMAIN built' = DOMAIN built /\ built'.witnesses = << >>
        /\ built'.contexts = built.contexts /\ built'.context_anchors = built.context_anchors
        /\ \/ built' = built /\ \E k \in DOMAIN built.external_anchors : built.external_anchors[k].ref = id
           \/ built'.external_anchors = Append(built.external_anchors, anchorForFact(id))
    BY <1>1, <1>3, <1>12 DEF WithAnchor, Nothing
  <2>2. /\ anchorForFact(id).ref = id
        /\ ~gone => anchorForFact(id).hidden_reason = "outside_frontier"
    BY <1>5, <1>12 DEF anchorForFact
  <2>3. \/ built'.external_anchors = built.external_anchors
             /\ id \in {a.ref : a \in Range(built.external_anchors)}
        \/ /\ IsPath(built'.external_anchors)
           /\ Range(built'.external_anchors) = Range(built.external_anchors) \cup {anchorForFact(id)}
    <3>1. CASE built' = built /\ \E k \in DOMAIN built.external_anchors : built.external_anchors[k].ref = id
      <4>1. PICK k \in DOMAIN built.external_anchors : built.external_anchors[k].ref = id
        BY <3>1
      <4>2. built.external_anchors[k] \in Range(built.external_anchors)
        BY DEF Range
      <4> QED
        BY <3>1, <4>1, <4>2
    <3>2. CASE built'.external_anchors = Append(built.external_anchors, anchorForFact(id))
      BY <1>3, <3>2, RangeOfEnds
    <3> QED
      BY <2>1, <3>1, <3>2
  <2>4. /\ IsPath(built'.external_anchors)
        /\ {a.ref : a \in Range(built'.external_anchors)}
             = {a.ref : a \in Range(built.external_anchors)} \cup {id}
        /\ ~gone => \A a \in Range(built'.external_anchors) : a.hidden_reason = "outside_frontier"
    BY <1>3, <1>11, <2>2, <2>3
  <2>7. {CauseAt(q) : q \in {r \in LookedUp : ForCause(r)}}' = {a.ref : a \in Range(built'.external_anchors)}
    BY <1>3, <1>9, <1>12, <2>4
  <2>8. ContextsLookedUp' = ContextsLookedUp
    BY <1>10, <1>12
  <2>9. IF shape THEN Range(built'.context_anchors) = ContextsLookedUp'
        ELSE /\ built'.contexts \subseteq ContextsLookedUp'
             /\ ~gone => built'.contexts = ContextsLookedUp'
    BY <1>3, <1>11, <2>1, <2>8
  <2> QED
    BY <1>3, <1>20, <2>1, <2>4, <2>7, <2>9
<1>13. ASSUME ~ForCause(p) PROVE LookupInv'
  <2>1. /\ DOMAIN built' = DOMAIN built /\ built'.witnesses = << >>
        /\ built'.external_anchors = built.external_anchors
        /\ IF shape
           THEN built'.context_anchors = IF ctx \in Range(built.context_anchors) THEN built.context_anchors
                                         ELSE Append(built.context_anchors, ctx)
           ELSE /\ built'.context_anchors = built.context_anchors
                /\ built'.contexts = built.contexts \/ built'.contexts = built.contexts \cup {ctx}
                /\ ~gone => built'.contexts = built.contexts \cup {ctx}
    BY <1>1, <1>3, <1>5, <1>13 DEF WithContext, Nothing
  <2>2. /\ IsPath(built'.context_anchors)
        /\ IF shape THEN Range(built'.context_anchors) = Range(built.context_anchors) \cup {ctx}
           ELSE /\ built'.contexts \subseteq built.contexts \cup {ctx}
                /\ ~gone => built'.contexts = built.contexts \cup {ctx}
    BY <1>3, <2>1, RangeOfEnds
  <2>5. {CauseAt(q) : q \in {r \in LookedUp : ForCause(r)}}' = {a.ref : a \in Range(built'.external_anchors)}
    BY <1>3, <1>9, <1>13, <2>1
  <2>6. IF shape THEN Range(built'.context_anchors) = ContextsLookedUp'
        ELSE /\ built'.contexts \subseteq ContextsLookedUp'
             /\ ~gone => built'.contexts = ContextsLookedUp'
    BY <1>3, <1>10, <1>11, <1>13, <2>2
  <2> QED
    BY <1>3, <1>11, <1>20, <2>1, <2>2, <2>5, <2>6
<1>14. LookupInv'
  <2>1. ForCause(p) \/ ~ForCause(p)
    OBVIOUS
  <2> QED
    BY <1>12, <1>13, <2>1
<1>15. built'.witnesses = << >>
  BY <1>1, <1>3 DEF WithAnchor, WithContext, Nothing
<1>16. IsPath(<< >>) /\ Range(<< >>) = {} /\ Len(<< >>) = 0 /\ IsInjective(<< >>)
  BY DEF IsPath, Range, IsInjective
<1>17. ChainInv'
  BY <1>15, <1>16 DEF ChainInv
<1>18. PhaseInv'
  BY <1>1 DEF ReaderInv, PhaseInv, Nothing
<1>19. CollectInv'
  BY <1>1, <1>2, SameCollected
<1>21. AnswerInv'
  BY <1>1, AnswerStays DEF ReaderInv
<1> QED
  BY <1>1, <1>14, <1>17, <1>18, <1>19, <1>21 DEF ReaderInv, VisitInv

\* A sequence without repetitions, and one more that was not in it.
LEMMA InjectiveWithNew ==
    ASSUME NEW s, IsPath(s), IsInjective(s), NEW e, e \notin Range(s)
    PROVE  IsInjective(Append(s, e))
<1>0. PICK t : t = Append(s, e)
  OBVIOUS
<1>1. DOMAIN s = 1 .. Len(s) /\ Len(s) \in Nat
  BY DEF IsPath
<1>2. /\ IsPath(t) /\ Len(t) = Len(s) + 1
      /\ \A k \in 1 .. Len(s) : t[k] = s[k]
      /\ t[Len(s) + 1] = e
  BY <1>0, AppendIsPath
<1>3. DOMAIN t = 1 .. Len(s) + 1
  BY <1>2 DEF IsPath
<1>4. \A k \in DOMAIN t : k = Len(s) + 1 \/ (k \in DOMAIN s /\ t[k] = s[k])
  BY <1>1, <1>2, <1>3
<1>5. \A k \in DOMAIN s : s[k] # e
  BY DEF Range
<1>6. \A a, b \in DOMAIN t : t[a] = t[b] => a = b
  BY <1>2, <1>4, <1>5 DEF IsInjective
<1>7. IsInjective(t)
  BY <1>6 DEF IsInjective
<1> QED
  BY <1>0, <1>7

\* A witness is read.
LEMMA WitnessIsFine ==
    ASSUME Sound(db), ReaderInv, UNCHANGED vars, ReadWitness
    PROVE  ReaderInv'
<1>0. PICK w : w = NextWitness
  OBVIOUS
<1>00. PICK old : old = built.witnesses
  OBVIOUS
<1>1. /\ db' = db /\ Grows /\ rpc = "lookup" /\ todo = {} /\ ~AllWitnessed /\ ~gone /\ IsWitness(w)
      /\ built' = [built EXCEPT !.witnesses = Append(@, w)]
      /\ rpc' = rpc /\ req' = req /\ gone' = gone /\ seen' = seen /\ loaded' = loaded /\ todo' = todo
      /\ asOf' = asOf /\ answer' = answer
  BY <1>0, ReadersGrowNothing DEF ReadWitness
<1>2. CollectInv /\ LookupInv /\ ChainInv
  BY DEF ReaderInv
<1>3. DOMAIN built = DOMAIN Nothing
  BY <1>1, <1>2 DEF LookupInv
<1>4. /\ DOMAIN built' = DOMAIN built /\ built'.witnesses = Append(old, w)
      /\ built'.external_anchors = built.external_anchors /\ built'.contexts = built.contexts
      /\ built'.context_anchors = built.context_anchors
  BY <1>00, <1>1, <1>3 DEF Nothing
<1> DEFINE met == Range(old)
<1>5. /\ IsPath(old) /\ IsInjective(old)
      /\ met \subseteq DOMAIN db.records
      /\ met \subseteq {db.records[id].witness_ref : id \in Selected \cup met} \ {RootWitnessRef}
      /\ \A k \in 1 .. Len(old) - 1 : db.records[old[k]].witness_ref \in met \cup {RootWitnessRef}
  BY <1>00, <1>1, <1>2 DEF ChainInv
<1>6. DOMAIN old = 1 .. Len(old) /\ Len(old) \in Nat
  BY <1>5 DEF IsPath
<1>7. old # << >> => Len(old) \in DOMAIN old /\ Last(old) = old[Len(old)] /\ Last(old) \in met
  <2> SUFFICES ASSUME old # << >> PROVE Len(old) \in DOMAIN old /\ Last(old) = old[Len(old)] /\ Last(old) \in met
    OBVIOUS
  <2>1. Len(old) # 0
    BY <1>5 DEF IsPath
  <2>2. Len(old) \in DOMAIN old
    BY <1>6, <2>1
  <2> QED
    BY <2>2 DEF Last, Range
<1>8. /\ w \in DOMAIN db.records /\ w \notin met /\ w # RootWitnessRef
      /\ w \in {db.records[id].witness_ref : id \in Selected \cup met}
      /\ old # << >> => db.records[Last(old)].witness_ref \in met \cup {w, RootWitnessRef}
  <2>1. w \in DOMAIN db.records
    BY <1>1 DEF IsWitness, FactIsThere
  <2>2. ChainLinks = IF old = << >> THEN {}
                     ELSE IF db.records[Last(old)].schema_ref = RootWitnessSchemaRef THEN {}
                     ELSE {db.records[Last(old)].witness_ref} \ met
    BY <1>00 DEF ChainLinks
  <2>3. CASE ChainLinks # {}
    <3>1. w \in ChainLinks
      BY <1>0, <2>3 DEF NextWitness
    <3>2. /\ old # << >> /\ db.records[Last(old)].schema_ref # RootWitnessSchemaRef
          /\ w = db.records[Last(old)].witness_ref /\ w \notin met
      BY <2>2, <3>1
    <3>3. Last(old) \in met /\ Last(old) \in DOMAIN db.records
      BY <1>5, <1>7, <3>2
    <3>4. w # RootWitnessRef
      BY <3>2, <3>3 DEF Sound, RootAtEnd
    <3> QED
      BY <2>1, <3>2, <3>3, <3>4
  <2>4. CASE ChainLinks = {}
    <3>1. Unstarted # {}
      BY <1>1, <2>4 DEF AllWitnessed
    <3>2. Unstarted \in SUBSET Nat
      BY <1>1, <1>2 DEF Unstarted, CollectInv, IsPath
    <3>3. \E m \in Unstarted : \A k \in Unstarted : m <= k
      BY <3>1, <3>2, LeastExists
    <3>4. Min(Unstarted) \in Unstarted
      BY <3>3 DEF Min
    <3>5. PICK m \in Unstarted : w = WitnessOfEntry(loaded[m])
      BY <1>0, <2>4, <3>4 DEF NextWitness
    <3>6. m \in DOMAIN loaded /\ w # RootWitnessRef /\ w \notin met
      BY <1>00, <3>5 DEF Unstarted
    <3>7. loaded[m].record_id \in Selected /\ w = db.records[loaded[m].record_id].witness_ref
      BY <3>5, <3>6 DEF Selected, WitnessOfEntry
    <3>8. old # << >> => db.records[Last(old)].witness_ref \in met \cup {RootWitnessRef}
      <4> SUFFICES ASSUME old # << >> PROVE db.records[Last(old)].witness_ref \in met \cup {RootWitnessRef}
        OBVIOUS
      <4>1. Last(old) \in DOMAIN db.records
        BY <1>5, <1>7
      <4>2. CASE db.records[Last(old)].schema_ref = RootWitnessSchemaRef
        BY <4>1, <4>2 DEF Sound, RootAtEnd
      <4>3. CASE db.records[Last(old)].schema_ref # RootWitnessSchemaRef
        BY <2>2, <2>4, <4>3
      <4> QED
        BY <4>2, <4>3
    <3> QED
      BY <2>1, <3>6, <3>7, <3>8
  <2> QED
    BY <2>3, <2>4
<1> HIDE DEF met
<1>9. PICK new : new = Append(old, w)
  OBVIOUS
<1>10. /\ IsPath(new) /\ Len(new) = Len(old) + 1 /\ Range(new) = met \cup {w} /\ IsInjective(new)
       /\ \A k \in 1 .. Len(old) : new[k] = old[k]
  <2>1. w \notin Range(old)
    BY <1>8 DEF met
  <2>2. IsInjective(new)
    BY <1>5, <1>9, <2>1, InjectiveWithNew
  <2>3. IsPath(new) /\ Len(new) = Len(old) + 1 /\ \A k \in 1 .. Len(old) : new[k] = old[k]
    BY <1>5, <1>9, AppendIsPath
  <2>4. Range(new) = met \cup {w}
    BY <1>5, <1>9, RangeOfEnds DEF met
  <2> QED
    BY <2>2, <2>3, <2>4
<1>11. \A k \in 1 .. Len(new) - 1 : db.records[new[k]].witness_ref \in Range(new) \cup {RootWitnessRef}
  <2> SUFFICES ASSUME NEW k \in 1 .. Len(new) - 1
               PROVE  db.records[new[k]].witness_ref \in Range(new) \cup {RootWitnessRef}
    OBVIOUS
  <2>1. k \in 1 .. Len(old) /\ new[k] = old[k]
    BY <1>6, <1>10
  <2>2. CASE k = Len(old)
    <3>1. old # << >> /\ new[k] = Last(old)
      BY <1>6, <2>1, <2>2 DEF Last
    <3> QED
      BY <1>8, <1>10, <3>1
  <2>3. CASE k # Len(old)
    <3>1. k \in 1 .. Len(old) - 1
      <4>1. PICK n \in Nat : n = Len(old)
        BY <1>6
      <4>2. k \in 1 .. n /\ k # n
        BY <2>1, <2>3, <4>1
      <4>3. k \in 1 .. n - 1
        BY <4>2
      <4> QED
        BY <4>1, <4>3
    <3> QED
      BY <1>5, <1>10, <2>1, <3>1
  <2> QED
    BY <2>2, <2>3
<1>12. Selected' = Selected
  BY <1>1 DEF Selected
<1>13. Range(new) \subseteq {db.records[id].witness_ref : id \in Selected \cup Range(new)} \ {RootWitnessRef}
  BY <1>5, <1>8, <1>10
<1>14. ChainInv'
  <2>1. built'.witnesses = new /\ Range(new) \subseteq DOMAIN db.records
    BY <1>4, <1>5, <1>8, <1>9, <1>10
  <2> QED
    <3>1. IsPath(new) /\ IsInjective(new) /\ todo' = {} /\ db' = db
      BY <1>1, <1>10
    <3>2. {db.records[id].witness_ref : id \in Selected \cup Range(new)}
            = {db.records[id].witness_ref : id \in Selected \cup Range(built.witnesses)}'
      BY <1>12, <2>1, <3>1
    <3>3. Range(built.witnesses)' = Range(new)
      BY <2>1
    <3> QED
      BY <1>11, <1>13, <2>1, <3>1, <3>2, <3>3 DEF ChainInv
<1>15. LookupInv'
  <2>1. Lookups' = Lookups
    BY <1>1 DEF Lookups, LookupsOf, CausesOf, Selected, IncludeAnchors
  <2>2. LookedUp' = LookedUp /\ ContextsLookedUp' = ContextsLookedUp
    BY <1>1, <2>1 DEF LookedUp, ContextsLookedUp, ForCause, CausesOf
  <2>3. {CauseAt(p) : p \in {q \in LookedUp : ForCause(q)}}' = {CauseAt(p) : p \in {q \in LookedUp : ForCause(q)}}
    BY <1>1, <2>2 DEF CauseAt, ForCause, CausesOf
  <2>4. Unharmed' /\ Unharmed
    BY <1>1 DEF Unharmed
  <2> QED
    BY <1>1, <1>2, <1>4, <2>1, <2>2, <2>3, <2>4 DEF LookupInv, Nothing
<1>16. PhaseInv'
  BY <1>1 DEF ReaderInv, PhaseInv, Nothing
<1>17. CollectInv'
  BY <1>1, <1>2, SameCollected
<1>18. AnswerInv'
  BY <1>1, AnswerStays DEF ReaderInv
<1> QED
  BY <1>1, <1>14, <1>15, <1>16, <1>17, <1>18 DEF ReaderInv, VisitInv

\* The facts shown are those of the entries that were loaded.
LEMMA SelectedAreLoaded ==
    ASSUME Sound(db), CollectInv, rpc = "lookup"
    PROVE  /\ Selected = {e.record_id : e \in Range(loaded)}
           /\ Selected \subseteq DOMAIN db.records
<1>1. \A k \in DOMAIN loaded : loaded[k] \in db.paths
  BY LoadedAreRetained
<1>2. \A k \in DOMAIN loaded : loaded[k].record_id \in DOMAIN db.records
  BY <1>1 DEF Sound, Filed
<1> QED
  BY <1>2 DEF Selected, Range

\* What was looked up in the end.
LEMMA AllLookedUp ==
    ASSUME Sound(db), CollectInv, LookupInv, rpc = "lookup", todo = {}
    PROVE  /\ {a.ref : a \in Range(built.external_anchors)}
                = IF IncludeAnchors THEN ParentsOutside(Selected) ELSE {}
           /\ ContextsLookedUp = {e.context_ref : e \in Range(loaded)} \ {<< >>}
<1>1. LookedUp = Lookups
  BY DEF LookedUp
<1>2. \A p \in Lookups :
        /\ p[1] \in DOMAIN loaded
        /\ ForCause(p) => /\ IncludeAnchors /\ CauseAt(p) \notin Selected
                          /\ CauseAt(p) \in Range(CausesOf(loaded[p[1]]))
        /\ ~ForCause(p) => loaded[p[1]].context_ref # << >>
  BY LookupsAreThose
<1>3. \A k \in DOMAIN loaded :
        /\ IncludeAnchors => \A x \in Range(CausesOf(loaded[k])) \ Selected :
             \E p \in Lookups : p[1] = k /\ ForCause(p) /\ CauseAt(p) = x
        /\ loaded[k].context_ref # << >> => \E p \in Lookups : p[1] = k /\ ~ForCause(p)
  BY LookupsAreThose
<1>4. /\ \A d \in db.edges : d.parent \in Range(db.records[d.child].caused_by)
      /\ \A id \in DOMAIN db.records : \A x \in Range(db.records[id].caused_by) :
           \E d \in db.edges : d.child = id /\ d.parent = x
  BY EdgesAreCauses
<1>5. Selected \subseteq DOMAIN db.records
  BY SelectedAreLoaded
<1> DEFINE refs == {CauseAt(p) : p \in {q \in Lookups : ForCause(q)}}
<1>6. {a.ref : a \in Range(built.external_anchors)} = refs
  BY <1>1 DEF LookupInv
<1>7. ~IncludeAnchors => refs = {}
  BY <1>2
<1>8. ASSUME IncludeAnchors, NEW x \in refs PROVE x \in ParentsOutside(Selected)
  <2>1. PICK p \in Lookups : ForCause(p) /\ CauseAt(p) = x
    OBVIOUS
  <2>2. PICK k \in DOMAIN loaded : k = p[1]
    BY <1>2
  <2>3. x \notin Selected /\ x \in Range(CausesOf(loaded[k]))
    BY <1>2, <2>1, <2>2
  <2>4. PICK id \in Selected : id = loaded[k].record_id
    BY DEF Selected
  <2>5. x \in Range(db.records[id].caused_by)
    BY <2>3, <2>4 DEF CausesOf
  <2>6. PICK d \in db.edges : d.child = id /\ d.parent = x
    BY <1>4, <1>5, <2>5
  <2> QED
    BY <2>3, <2>6 DEF ParentsOutside
<1>9. ASSUME IncludeAnchors, NEW x \in ParentsOutside(Selected) PROVE x \in refs
  <2>1. x \notin Selected
    BY DEF ParentsOutside
  <2>2. PICK d \in db.edges : d.child \in Selected /\ d.parent = x
    BY DEF ParentsOutside
  <2>3. PICK k \in DOMAIN loaded : loaded[k].record_id = d.child
    BY <2>2 DEF Selected
  <2>4. x \in Range(CausesOf(loaded[k]))
    BY <1>4, <2>2, <2>3 DEF CausesOf
  <2>5. \E p \in Lookups : ForCause(p) /\ CauseAt(p) = x
    BY <1>3, <1>9, <2>1, <2>4
  <2> QED
    BY <2>5
<1> DEFINE contexts == {e.context_ref : e \in Range(loaded)} \ {<< >>}
<1>10. ContextsLookedUp = {loaded[p[1]].context_ref : p \in {q \in Lookups : ~ForCause(q)}}
  BY <1>1 DEF ContextsLookedUp
<1>11. ASSUME NEW x \in ContextsLookedUp PROVE x \in contexts
  <2>1. PICK p \in Lookups : ~ForCause(p) /\ x = loaded[p[1]].context_ref
    BY <1>10
  <2>2. PICK k \in DOMAIN loaded : k = p[1]
    BY <1>2
  <2>3. x = loaded[k].context_ref /\ x # << >>
    BY <1>2, <2>1, <2>2
  <2>4. loaded[k] \in Range(loaded)
    BY DEF Range
  <2> QED
    BY <2>3, <2>4
<1>12. ASSUME NEW x \in contexts PROVE x \in ContextsLookedUp
  <2>1. PICK k \in DOMAIN loaded : x = loaded[k].context_ref
    BY DEF Range
  <2>2. PICK p \in Lookups : p[1] = k /\ ~ForCause(p)
    BY <1>3, <2>1
  <2> QED
    BY <1>10, <2>1, <2>2
<1> HIDE DEF refs
<1>13. refs = IF IncludeAnchors THEN ParentsOutside(Selected) ELSE {}
  BY <1>7, <1>8, <1>9
<1> HIDE DEF contexts
<1>14. ContextsLookedUp = contexts
  BY <1>11, <1>12
<1> QED
  BY <1>6, <1>13, <1>14 DEF contexts

\* The edges shown are the edge table's.
LEMMA SelectedEdges ==
    ASSUME Sound(db), CollectInv, rpc = "lookup"
    PROVE  CausalEdges = EdgesAmong(Selected)
<1>1. Selected \subseteq DOMAIN db.records
  BY SelectedAreLoaded
<1>2. \A d \in db.edges : d.parent \in Range(db.records[d.child].caused_by)
  BY EdgesAreCauses
<1>3. \A id \in DOMAIN db.records : \A x \in Range(db.records[id].caused_by) :
        \E d \in db.edges : d.child = id /\ d.parent = x
  BY EdgesAreCauses
<1>4. ASSUME NEW c \in CausalEdges PROVE c \in EdgesAmong(Selected)
  <2>1. PICK x \in Selected, y \in Selected : c = <<x, y>> /\ x \in Range(db.records[y].caused_by)
    BY DEF CausalEdges
  <2>2. PICK d \in db.edges : d.child = y /\ d.parent = x
    BY <1>1, <1>3, <2>1
  <2>3. d \in {f \in db.edges : {f.parent, f.child} \subseteq Selected}
    BY <2>1, <2>2
  <2> QED
    BY <2>1, <2>2, <2>3 DEF EdgesAmong
<1>5. ASSUME NEW c \in EdgesAmong(Selected) PROVE c \in CausalEdges
  <2>1. PICK d \in {f \in db.edges : {f.parent, f.child} \subseteq Selected} : c = <<d.parent, d.child>>
    BY DEF EdgesAmong
  <2>2. d \in db.edges /\ d.parent \in Selected /\ d.child \in Selected
    BY <2>1
  <2> QED
    BY <1>2, <2>1, <2>2 DEF CausalEdges
<1> QED
  BY <1>4, <1>5

\* When no chain leads on, every witness that is cited is there.
LEMMA ChainsAreClosed ==
    ASSUME Sound(db), ChainInv, rpc = "lookup", AllWitnessed, NEW met, met = Range(built.witnesses)
    PROVE  met = {db.records[id].witness_ref : id \in Selected \cup met} \ {RootWitnessRef}
<1>1. /\ IsPath(built.witnesses)
      /\ met \subseteq DOMAIN db.records
      /\ met \subseteq {db.records[id].witness_ref : id \in Selected \cup met} \ {RootWitnessRef}
      /\ \A k \in 1 .. Len(built.witnesses) - 1 :
           db.records[built.witnesses[k]].witness_ref \in met \cup {RootWitnessRef}
  BY DEF ChainInv
<1>2. ASSUME NEW id \in Selected PROVE db.records[id].witness_ref \in met \cup {RootWitnessRef}
  <2>1. PICK k \in DOMAIN loaded : loaded[k].record_id = id
    BY DEF Selected
  <2>2. k \notin Unstarted
    BY DEF AllWitnessed
  <2> QED
    BY <2>1, <2>2 DEF Unstarted, WitnessOfEntry
<1>3. ASSUME NEW id \in met PROVE db.records[id].witness_ref \in met \cup {RootWitnessRef}
  <2>1. PICK n \in Nat : n = Len(built.witnesses) /\ DOMAIN built.witnesses = 1 .. n
    BY <1>1 DEF IsPath
  <2>2. PICK k \in 1 .. n : built.witnesses[k] = id
    BY <2>1 DEF Range
  <2>3. CASE k = n
    <3>1. built.witnesses # << >> /\ Last(built.witnesses) = id
      <4>1. 1 .. n # {}
        BY <2>2
      <4>2. built.witnesses # << >>
        BY <2>1, <4>1 DEF IsPath
      <4> QED
        BY <2>1, <2>2, <2>3, <4>2 DEF Last
    <3>2. ChainLinks = IF db.records[id].schema_ref = RootWitnessSchemaRef THEN {}
                       ELSE {db.records[id].witness_ref} \ met
      BY <3>1 DEF ChainLinks
    <3>3. CASE db.records[id].schema_ref = RootWitnessSchemaRef
      BY <1>1, <3>3 DEF Sound, RootAtEnd
    <3>4. CASE db.records[id].schema_ref # RootWitnessSchemaRef
      BY <3>2, <3>4 DEF AllWitnessed
    <3> QED
      BY <3>3, <3>4
  <2>4. CASE k # n
    <3>1. k \in 1 .. n - 1
      BY <2>2, <2>4
    <3> QED
      BY <1>1, <2>1, <2>2, <3>1
  <2> QED
    BY <2>3, <2>4
<1> QED
  BY <1>1, <1>2, <1>3

\* A read that lost its context after the entries were loaded has needed nothing more,
\* or the witness queries would have failed.
LEMMA NothingIsMissing ==
    ASSUME Sound(db), CollectInv, LookupInv, ChainInv, rpc = "lookup", todo = {}, AllWitnessed
    PROVE  /\ \A a \in Range(built.external_anchors) : a.hidden_reason = "outside_frontier"
           /\ IF req.auth.visibility_profile = "shape_only"
              THEN Range(built.context_anchors) = ContextsLookedUp
              ELSE built.contexts = ContextsLookedUp
<1>1. CASE Unharmed
  BY <1>1 DEF LookupInv
<1>2. CASE ~Unharmed
  <2>1. Range(built.witnesses) = {}
    BY <1>2 DEF Unharmed, Range
  <2>2. ASSUME NEW k \in DOMAIN loaded
        PROVE  Range(CausesOf(loaded[k])) = {} /\ loaded[k].context_ref = << >>
    <3>1. k \notin Unstarted
      BY DEF AllWitnessed
    <3>2. WitnessOfEntry(loaded[k]) = RootWitnessRef
      BY <2>1, <3>1 DEF Unstarted
    <3>3. loaded[k] \in db.paths
      BY LoadedAreRetained
    <3>4. CausesOf(loaded[k]) = << >> /\ loaded[k].context_ref = << >>
      BY <3>2, <3>3 DEF Sound, RootBare, WitnessOfEntry, CausesOf
    <3> QED
      BY <3>4 DEF Range
  <2>3. ContextsLookedUp = {}
    <3>1. ContextsLookedUp = {e.context_ref : e \in Range(loaded)} \ {<< >>}
      BY AllLookedUp
    <3> QED
      BY <2>2, <3>1 DEF Range
  <2>4. {a.ref : a \in Range(built.external_anchors)} = {}
    <3>1. \A p \in Lookups :
            /\ p[1] \in DOMAIN loaded
            /\ ForCause(p) => CauseAt(p) \in Range(CausesOf(loaded[p[1]]))
      BY LookupsAreThose
    <3>2. \A p \in Lookups : ~ForCause(p)
      BY <2>2, <3>1
    <3> QED
      BY <3>2 DEF LookupInv, LookedUp
  <2>5. Range(built.external_anchors) = {}
    BY <2>4
  <2> QED
    BY <2>3, <2>5 DEF LookupInv
<1> QED
  BY <1>1, <1>2

\* The entries of an answer are all that match.
LEMMA LoadedAreComplete ==
    ASSUME CollectInv, PhaseInv, rpc = "lookup", loaded # << >>
    PROVE  /\ req.op # "closure" => Range(loaded) = {e \in Scope : Matches(e.record_id)}
           /\ req.op = "closure" =>
                /\ {e.record_id : e \in Range(loaded)}
                     = {id \in Ancestors(Range(req.roots)) : Matches(id)}
                /\ \A e, f \in Range(loaded) : e.record_id = f.record_id => e = f
<1>1. Complete /\ Collected = Range(loaded) /\ \A e \in Range(loaded) : Matches(e.record_id)
  BY DEF CollectInv, Collected
<1>2. {e \in Collected : Matches(e.record_id)} = Range(loaded)
  BY <1>1
<1>3. CASE req.op # "closure"
  BY <1>1, <1>2, <1>3 DEF Complete
<1>4. CASE req.op = "closure"
  <2>1. seen = Ancestors(Range(req.roots))
    BY <1>4 DEF CollectInv
  <2> QED
    BY <1>1, <1>2, <1>4, <2>1 DEF Complete
<1> QED
  BY <1>3, <1>4

\* The slice is returned.
LEMMA ReturnIsFine ==
    ASSUME Sound(db), ReaderInv, UNCHANGED vars, ReturnSlice
    PROVE  ReaderInv'
<1>1. /\ db' = db /\ rpc = "lookup" /\ todo = {} /\ AllWitnessed
      /\ PhaseInv /\ CollectInv /\ LookupInv /\ ChainInv
  BY ReadersGrowNothing DEF ReturnSlice, ReaderInv
<1>2. PICK byId : Answer([status |-> "ok", as_of |-> asOf, path_facts |-> loaded,
                          facts_by_id |-> byId, causal_edges |-> CausalEdges, looked_up |-> built])
  BY DEF ReturnSlice
<1>3. /\ answer'.req = req /\ answer'.status = "ok" /\ answer'.as_of = asOf
      /\ answer'.path_facts = loaded /\ answer'.causal_edges = CausalEdges
      /\ answer'.looked_up = built
  <2> DEFINE a == [status |-> "ok", as_of |-> asOf, path_facts |-> loaded,
                   facts_by_id |-> byId, causal_edges |-> CausalEdges, looked_up |-> built]
  <2>1. Answer(a) /\ "req" \notin DOMAIN a
    BY <1>2
  <2>2. answer'.req = req /\ \A f \in DOMAIN a : answer'[f] = a[f]
    BY <2>1, AnswerFields
  <2> QED
    BY <2>2
<1>4. PhaseInv' /\ VisitInv' /\ CollectInv' /\ LookupInv' /\ ChainInv'
  BY <1>1, <1>2, IdleIsFine
<1>5. FactsShown' = Selected /\ Selected \subseteq DOMAIN db.records
  <2>1. FactsShown' = {e.record_id : e \in Range(loaded)}
    BY <1>3 DEF FactsShown
  <2> QED
    BY <1>1, <2>1, SelectedAreLoaded
<1>6. \A id : Wanted(id)' <=> Matches(id)
  BY <1>1, <1>3 DEF Wanted, Matches
<1>7. InPathOrder(answer.path_facts)' /\ Range(loaded) \subseteq db.paths
  <2>1. InPathOrder(loaded) /\ Range(loaded) \subseteq db.paths
    BY <1>1 DEF CollectInv, Collected
  <2> QED
    BY <1>3, <2>1 DEF InPathOrder, EntryBefore, PathRank
<1>8. answer'.causal_edges = EdgesAmong(FactsShown)'
  <2>1. CausalEdges = EdgesAmong(Selected)
    BY <1>1, SelectedEdges
  <2>2. EdgesAmong(FactsShown)' = EdgesAmong(Selected)
    BY <1>1, <1>5 DEF EdgesAmong
  <2> QED
    BY <1>3, <2>1, <2>2
<1>9. {a.ref : a \in AnchorsShown}' = IF IncludeAnchors THEN ParentsOutside(FactsShown)' ELSE {}
  <2>1. {a.ref : a \in AnchorsShown}' = {a.ref : a \in Range(built.external_anchors)}
    BY <1>3 DEF AnchorsShown
  <2>2. ParentsOutside(FactsShown)' = ParentsOutside(Selected)
    BY <1>1, <1>5 DEF ParentsOutside
  <2>3. {a.ref : a \in Range(built.external_anchors)}
          = IF IncludeAnchors THEN ParentsOutside(Selected) ELSE {}
    BY <1>1, AllLookedUp
  <2> QED
    BY <2>1, <2>2, <2>3
<1>10. loaded # << >> /\ req.op # "closure" => Range(loaded) = {e \in Scope : Wanted(e.record_id)'}
  <2> SUFFICES ASSUME loaded # << >>, req.op # "closure"
               PROVE  Range(loaded) = {e \in Scope : Wanted(e.record_id)'}
    OBVIOUS
  <2>1. Range(loaded) = {e \in Scope : Matches(e.record_id)}
    BY <1>1, LoadedAreComplete
  <2> QED
    BY <1>6, <2>1
<1>11. PrefixesAreSnapshots'
  <2> SUFFICES ASSUME req.op = "prefix", loaded # << >>
               PROVE  ShowsRows({e \in db.paths : /\ answer.req.owner \in {"", e.path_ref}
                                                  /\ e.path_ordinal <= answer.req.through
                                                  /\ e.path_ordinal < answer.as_of[e.path_ref]})'
    BY <1>3 DEF PrefixesAreSnapshots, Answered
  <2>1. Range(loaded) = {e \in Scope : Wanted(e.record_id)'}
    BY <1>10
  <2>2. Scope = {e \in db.paths : /\ req.owner \in {"", e.path_ref}
                                  /\ e.path_ordinal <= req.through
                                  /\ e.path_ordinal < asOf[e.path_ref]}
    BY DEF Scope
  <2>3. Scope = {e \in db'.paths : /\ answer'.req.owner \in {"", e.path_ref}
                                   /\ e.path_ordinal <= answer'.req.through
                                   /\ e.path_ordinal < answer'.as_of[e.path_ref]}
    BY <1>1, <1>3, <2>2
  <2> QED
    BY <1>3, <1>7, <2>1, <2>3 DEF ShowsRows
<1>12. CutsReadTheSame'
  <2> SUFFICES ASSUME req.op = "frontier", loaded # << >> PROVE CutsReadTheSame'
    BY <1>3 DEF CutsReadTheSame, Answered
  <2>1. Range(loaded) = {e \in Scope : Wanted(e.record_id)'}
    BY <1>10
  <2>2. Scope = {e \in db.paths : /\ e.path_ref = db.frontiers[req.frontier_id].target_trace_owner_id
                                  /\ e.path_ordinal <= db.frontiers[req.frontier_id].through_owner_ordinal}
    BY DEF Scope, Cutoff
  <2>3. PICK cut : cut = db.frontiers[req.frontier_id]
    OBVIOUS
  <2>4. db'.frontiers[answer'.req.frontier_id] = cut
    BY <1>1, <1>3, <2>3
  <2>5. ShowsRows({e \in db.paths : /\ e.path_ref = cut.target_trace_owner_id
                                    /\ e.path_ordinal <= cut.through_owner_ordinal})'
    BY <1>1, <1>3, <1>7, <2>1, <2>2, <2>3 DEF ShowsRows
  <2>6. {a.ref : a \in AnchorsShown}' = ParentsOutside(FactsShown)'
    BY <1>9 DEF IncludeAnchors
  <2> QED
    BY <1>8, <2>4, <2>5, <2>6 DEF CutsReadTheSame
<1>13. ClosuresAreExact'
  <2> SUFFICES ASSUME req.op = "closure", loaded # << >> PROVE ClosuresAreExact'
    BY <1>3 DEF ClosuresAreExact, Answered
  <2>1. /\ {e.record_id : e \in Range(loaded)} = {id \in Ancestors(Range(req.roots)) : Matches(id)}
        /\ \A e, f \in Range(loaded) : e.record_id = f.record_id => e = f
    BY <1>1, LoadedAreComplete
  <2>2. FactsShown' = {id \in Ancestors(Range(req.roots)) : Matches(id)}
    BY <1>3, <2>1 DEF FactsShown
  <2>3. Ancestors(Range(answer.req.roots))' = Ancestors(Range(req.roots))
    BY <1>1, <1>3 DEF Ancestors
  <2>4. FactsShown' = {id \in Ancestors(Range(answer.req.roots)) : Wanted(id)}'
    BY <1>6, <2>2, <2>3
  <2>5. (\A e, f \in Range(answer.path_facts) : e.record_id = f.record_id => e = f)'
    BY <1>3, <2>1
  <2>6. req \in Requests /\ RequestAccepted(req)
    BY <1>1 DEF PhaseInv
  <2>7. req.policy \in {"visible_only", "include_external_anchors"}
    BY <2>6 DEF RequestAccepted
  <2>8. {a.ref : a \in AnchorsShown}'
          = IF answer'.req.policy = "visible_only" THEN {} ELSE ParentsOutside(FactsShown)'
    BY <1>3, <1>9, <2>7 DEF IncludeAnchors
  <2> QED
    BY <1>7, <1>8, <2>4, <2>5, <2>8 DEF ClosuresAreExact
<1>14. AnswersAreComplete'
  <2>1. /\ \A a \in Range(built.external_anchors) : a.hidden_reason = "outside_frontier"
        /\ IF req.auth.visibility_profile = "shape_only"
           THEN Range(built.context_anchors) = ContextsLookedUp
           ELSE built.contexts = ContextsLookedUp
    BY <1>1, NothingIsMissing
  <2>2. ContextsLookedUp = {e.context_ref : e \in Range(loaded)} \ {<< >>}
    BY <1>1, AllLookedUp
  <2>3. ({e.context_ref : e \in Range(answer.path_facts)} \ {<< >>})' = ContextsLookedUp
    BY <1>3, <2>2
  <2>4. \A a \in AnchorsShown' : a.hidden_reason = "outside_frontier"
    BY <1>3, <2>1 DEF AnchorsShown
  <2> QED
    BY <1>3, <2>1, <2>3, <2>4 DEF AnswersAreComplete
<1>15. WitnessesAreClosed'
  <2>1. PICK met : met = Range(built.witnesses)
    OBVIOUS
  <2>2. met = {db.records[id].witness_ref : id \in Selected \cup met} \ {RootWitnessRef}
    BY <1>1, <2>1, ChainsAreClosed
  <2>3. IsInjective(built.witnesses)
    BY <1>1 DEF ChainInv
  <2>4. Range(answer'.looked_up.witnesses) = met /\ IsInjective(answer'.looked_up.witnesses)
    BY <1>3, <2>1, <2>3
  <2>5. met = {db'.records[id].witness_ref : id \in FactsShown' \cup met} \ {RootWitnessRef}
    BY <1>1, <1>5, <2>2
  <2> QED
    BY <2>4, <2>5 DEF WitnessesAreClosed
<1>16. /\ Range(answer'.path_facts) \subseteq db'.paths
       /\ \A p \in Paths : answer'.as_of[p] \in Nat /\ answer'.as_of[p] <= db'.next[p]
       /\ answer'.req.op = "frontier" => answer'.req.frontier_id \in DOMAIN db'.frontiers
       /\ answer'.req.op = "closure" => Range(answer'.req.roots) \subseteq DOMAIN db'.records
       /\ Range(answer'.looked_up.witnesses) \subseteq DOMAIN db'.records
  <2>1. \A p \in Paths : asOf[p] \in Nat /\ asOf[p] <= db.next[p]
    BY <1>1 DEF CollectInv
  <2>2. req.op = "frontier" => req.frontier_id \in DOMAIN db.frontiers
    BY <1>1 DEF PhaseInv
  <2>3. req.op = "closure" => Range(req.roots) \subseteq DOMAIN db.records
    BY <1>1 DEF CollectInv
  <2>4. Range(built.witnesses) \subseteq DOMAIN db.records
    BY <1>1 DEF ChainInv
  <2> QED
    BY <1>1, <1>3, <1>7, <2>1, <2>2, <2>3, <2>4
<1>17. AnswerInv'
  BY <1>11, <1>12, <1>13, <1>14, <1>15, <1>16 DEF AnswerInv, AnswersAreWhole
<1> QED
  BY <1>4, <1>17 DEF ReaderInv

-----------------------------------------------------------------------------
(***************************************************************************)
(* The reads, with the writers beside them.                                *)
(***************************************************************************)
\* Every step of the reader, with the tables as they are.
LEMMA ReadersKeepInv ==
    ASSUME Sound(db), ReaderInv, UNCHANGED vars, ReaderNext
    PROVE  ReaderInv'
<1>1. CASE \E r \in Requests : StartRead(r) \/ RefuseRead(r)
  <2>1. PICK r \in Requests : StartRead(r) \/ RefuseRead(r)
    BY <1>1
  <2> QED
    BY <2>1, StartsFine
<1>2. CASE ReaderGone
  BY <1>2, GoneIsFine
<1>3. CASE \/ ReadOneFact \/ ScanSchemas \/ VisitFails \/ CheckCutoffFails
           \/ QueryEntriesFails \/ LoadEntryFails \/ ReadWitnessFails
  BY <1>3, FailingReads
<1>4. CASE SkipVisited \/ VisitFact
  BY <1>4, SkipIsFine, VisitIsFine
<1>5. CASE OrderClosure \/ OrderClosureCut
  BY <1>5, OrderIsFine
<1>6. CASE ReadCutoff \/ CheckCutoff
  BY <1>6, CutoffsAreFine
<1>7. CASE QueryEntries \/ QueryEntriesCut
  BY <1>7, EntriesAreFine
<1>8. CASE LoadEntry \/ EndLoad
  BY <1>8, LoadIsFine, EndIsFine
<1>9. CASE LookUp \/ ReadWitness \/ ReturnSlice
  BY <1>9, LookUpIsFine, WitnessIsFine, ReturnIsFine
<1> QED
  BY <1>1, <1>2, <1>3, <1>4, <1>5, <1>6, <1>7, <1>8, <1>9 DEF ReaderNext, ReadStep

\* A reader that did not begin has no answer.
LEMMA InitReaderInv == ReaderInit => ReaderInv
<1> SUFFICES ASSUME ReaderInit PROVE ReaderInv
  OBVIOUS
<1>1. /\ rpc = "idle" /\ seen = {} /\ todo = {} /\ loaded = << >> /\ built = Nothing
      /\ answer = [status |-> "none"]
  BY DEF ReaderInit, NoAnswer
<1>2. ~SliceAnswered
  BY <1>1 DEF SliceAnswered
<1> QED
  BY <1>1, <1>2 DEF ReaderInv, PhaseInv, VisitInv, CollectInv, LookupInv, ChainInv, AnswerInv, Nothing

\* The writers take no part in a read, and what they add is not part of it.
LEMMA WritersKeepInv ==
    ASSUME Beside, ReaderInv
    PROVE  ReaderInv'
<1>1. PhaseInv /\ VisitInv /\ CollectInv /\ LookupInv /\ ChainInv /\ AnswerInv
  BY DEF ReaderInv
<1>2. PhaseInv' /\ VisitInv'
  BY <1>1, WritersKeepPhase, WritersKeepVisit
<1>3. CollectInv'
  BY <1>1, WritersKeepCollected
<1>4. LookupInv'
  BY <1>1, WritersKeepLookups
<1>5. ChainInv'
  BY <1>1, WritersKeepChain
<1>6. AnswerInv'
  <2>1. Grows /\ answer' = answer
    BY DEF Beside, readerVars
  <2> QED
    BY <1>1, <2>1, AnswerStays
<1> QED
  BY <1>2, <1>3, <1>4, <1>5, <1>6 DEF ReaderInv

\* What the proofs about the writers give.
Assured ==
    /\ TypeOK /\ PathInv /\ GrowthInv /\ GraphInv /\ WitnessInv /\ ContentInv
    /\ FrontiersHold /\ LegibleInv

\* The tables are assured in every state of the writers.
LEMMA TablesAreAssured == Spec => []Assured
  BY TypeCorrect, PathInvHolds, ViewHoldsCommitted, GraphInvHolds, WitnessInvHolds,
     ContentInvHolds, FrontiersStayRight, TablesLegible, PTL DEF Assured

\* For every set of calls and requests, whatever is appended between two queries of a read
\* and whenever a context ends: the walk of a closure keeps to the ancestors, the entries
\* are loaded in path order, no lookup is lost unnoticed and every witness leads on.
THEOREM ReaderInvHolds == ReadingSpec => []ReaderInv
<1>1. ReadingInit => ReaderInv
  BY InitReaderInv DEF ReadingInit
<1>2. Assured => Sound(db)
  BY CommittedIsSound DEF Assured
<1>3. ASSUME Assured, Sound(db), Sound(db)', ReaderInv, [ReadingNext]_allVars
      PROVE  ReaderInv'
  <2>1. CASE ReaderNext /\ UNCHANGED vars
    BY <1>3, <2>1, ReadersKeepInv
  <2>2. CASE [Next]_vars /\ UNCHANGED readerVars
    <3>1. Grown(db, db')
      BY <1>3, <2>2, NextGrows DEF Assured, PathInv
    <3>2. Sound(db')
      BY <1>3
    <3> QED
      BY <1>3, <2>2, <3>1, <3>2, WritersKeepInv DEF Beside, Grows
  <2> QED
    BY <1>3, <2>1, <2>2 DEF ReadingNext, allVars
<1> QED
  BY <1>1, <1>2, <1>3, ReadersDoNotWrite, TablesAreAssured, PTL DEF ReadingSpec

\* store_read.go:29, ReadOwnerPrefix: whatever is appended while its entries are loaded one
\* query at a time, a prefix shows the rows its first query found that have the mode, each
\* once and in path order, and never one that was appended since.
THEOREM PrefixesStaySnapshots == ReadingSpec => []PrefixesAreSnapshots
<1>1. ReaderInv => PrefixesAreSnapshots
  BY DEF ReaderInv, AnswerInv, SliceAnswered, PrefixesAreSnapshots, Answered
<1> QED
  BY <1>1, ReaderInvHolds, PTL

\* store_frontier.go:51, ResolveFrontier: a published cut shows for ever the entries, the edges
\* among them and the parents outside that its index row cuts off, however much is appended
\* to its path, before the read, between its queries or after it.
THEOREM CutsAlwaysReadTheSame == ReadingSpec => []CutsReadTheSame
<1>1. ReaderInv => CutsReadTheSame
  BY DEF ReaderInv, AnswerInv, SliceAnswered, CutsReadTheSame, Answered
<1> QED
  BY <1>1, ReaderInvHolds, PTL

\* store_read.go:83, ReadCausalClosure: the breadth-first walk, one query per fact, ends with
\* the roots and all their ancestors, and the answer has just those of the mode, each once,
\* with every edge among them and, where they are asked for, the parents it leaves out.
THEOREM ClosuresStayExact == ReadingSpec => []ClosuresAreExact
<1>1. ReaderInv => ClosuresAreExact
  BY DEF ReaderInv, AnswerInv, SliceAnswered, ClosuresAreExact, Answered
<1> QED
  BY <1>1, ReaderInvHolds, PTL

\* store_read.go:236, buildSlice: although a failed lookup of a parent or a context is
\* dropped, no answer lacks one, for the witness queries behind it would have failed; and
\* the witnesses of an answer are those its facts and they themselves cite.
THEOREM AnswersStayWhole == ReadingSpec => []AnswersAreWhole
<1>1. ReaderInv => AnswersAreWhole
  BY DEF ReaderInv, AnswerInv, AnswersAreWhole, AnswersAreComplete, WitnessesAreClosed
<1> QED
  BY <1>1, ReaderInvHolds, PTL
=============================================================================
