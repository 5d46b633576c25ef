----------------------------- MODULE TraceStore -----------------------------
(***************************************************************************)
(* The SQLite trace store's write side: Append and PublishFrontier.        *)
(*                                                                         *)
(* Both hold the store's mutex from before BEGIN until after the last      *)
(* event is published, so at most one call is past its lock at any time;   *)
(* which caller gets the lock next is the choice of call in Begin.  The    *)
(* statements of the call run one by one against the transaction's view    *)
(* of the tables, work; COMMIT makes that view the committed tables, db.   *)
(* Between any two statements the caller's context may be cancelled and    *)
(* the process may crash.                                                  *)
(*                                                                         *)
(* A definition whose name ends in _Something is a faulty variant of the   *)
(* one after it that no behaviour uses: the laws are shown to tell the two *)
(* apart.                                                                  *)
(***************************************************************************)
EXTENDS RecordModel, FiniteSets, FiniteSetsExt

CONSTANTS
    Owners,         \* the trace owners the batches and frontiers name
    AppendCalls,    \* the calls of Append: [op |-> "append", auth, batch]
    PublishCalls    \* the calls of PublishFrontier: [op |-> "publish", auth, spec]

Paths == Owners \cup {witnessTraceOwnerID}

ASSUME AppendCallsAssumption ==
    \A c \in AppendCalls :
      /\ c.op = "append"
      /\ c.batch.drafts \in Seq(Range(c.batch.drafts))
      /\ \A k \in DOMAIN c.batch.drafts : GroupOf(c.batch, k).trace_owner_id \in Paths

ASSUME BatchShapesAssumption ==
    /\ \A c \in AppendCalls : \A k \in DOMAIN c.batch.drafts :
         LET draft == c.batch.drafts[k]
         IN  /\ {"group", "schema_ref", "payload"} \subseteq DOMAIN draft
             /\ draft.group \in DOMAIN c.batch.groups
             /\ {"trace_owner_id", "causal_parents"} \subseteq DOMAIN GroupOf(c.batch, k)
             /\ \A s \in {GroupOf(c.batch, k).causal_parents, draft.caused_by_fact_ids,
                          draft.caused_by_local_refs} : s \in Seq(Range(s))
    /\ \A c \in PublishCalls : c.spec.caused_by \in Seq(Range(c.spec.caused_by))

ASSUME PublishCallsAssumption ==
    \A c \in PublishCalls :
      /\ c.op = "publish"
      /\ c.spec.target_trace_owner_id \in Paths
      /\ c.spec.publisher_trace_owner_id \in Paths \cup {""}

VARIABLES
    db,         \* the committed tables
    work,       \* the tables as the open transaction sees them; db if there is none
    pc,         \* where the call that holds the mutex is; "idle" if none does
    call,       \* that call
    batch,      \* the batch it appends
    at,         \* the draft, witness, fact or event it is at
    facts,      \* the facts it has prepared
    staged,     \* the next ordinal of each path, counting the prepared facts
    receipt,    \* the receipt it will return
    isNew,      \* whether its intent was not committed before
    ctxDone,    \* whether its context was cancelled, which kills the transaction
    reply,      \* what it returns
    published   \* the events handed to the bus since the process started

scratch == <<batch, at, facts, staged, receipt, isNew, ctxDone>>
vars    == <<db, work, pc, call, scratch, reply, published>>

-----------------------------------------------------------------------------
(***************************************************************************)
(* The tables, and what a call starts from.                                *)
(***************************************************************************)
EmptyTables ==
    [intents |-> << >>,     \* append_intent_id -> [batch_digest, receipt]
     contexts |-> << >>,    \* context_id -> [content, append_intent_id]
     records |-> << >>,     \* record_id -> row
     edges |-> {},          \* rows [parent, child, position]
     paths |-> {},          \* rows of path_entries
     next |-> [p \in Paths |-> 0],     \* owner_ordinals; no row counts as 0
     commitSeq |-> 0,       \* meta.next_commit_seq
     frontiers |-> << >>]   \* frontier_id -> row

NoCall  == [op |-> "none"]
NoBatch == [append_intent_id |-> "", groups |-> << >>, drafts |-> << >>]
NoReply == [status |-> "none"]
NoReceipt == [fact_ids |-> << >>, commits |-> << >>, owner_ranges |-> << >>]

Init ==
    /\ db = EmptyTables
    /\ work = EmptyTables
    /\ pc = "idle"
    /\ call = NoCall
    /\ batch = NoBatch
    /\ at = 0
    /\ facts = << >>
    /\ staged = EmptyTables.next
    /\ receipt = NoReceipt
    /\ isNew = FALSE
    /\ ctxDone = FALSE
    /\ reply = NoReply
    /\ published = << >>

\* Nothing of a call outlives it but the committed tables.
Forget ==
    /\ pc' = "idle"
    /\ call' = NoCall
    /\ batch' = NoBatch
    /\ at' = 0
    /\ facts' = << >>
    /\ staged' = EmptyTables.next
    /\ receipt' = NoReceipt
    /\ isNew' = FALSE
    /\ ctxDone' = FALSE
    /\ reply' = NoReply

\* The deferred path of every error: roll back and return it.
Fail(status) ==
    /\ work' = db
    /\ reply' = [status |-> status]
    /\ pc' = "reply"
    /\ UNCHANGED <<db, call, scratch, published>>

-----------------------------------------------------------------------------
(***************************************************************************)
(* Taking the mutex and opening the transaction.                           *)
(***************************************************************************)
BeginAppend(c) ==
    /\ pc = "idle"
    /\ ensureAppendAuthorized(c.auth)
    /\ call' = c
    /\ batch' = c.batch
    /\ pc' = "lookup"
    /\ UNCHANGED <<db, work, at, facts, staged, receipt, isNew, ctxDone, reply, published>>

BeginPublish(c) ==
    /\ pc = "idle"
    /\ ensureAppendAuthorized(c.auth)
    /\ call' = c
    /\ pc' = "through"
    /\ UNCHANGED <<db, work, scratch, reply, published>>

\* Refused before the mutex is taken.
RefuseCaller(c) ==
    /\ pc = "idle"
    /\ ~ensureAppendAuthorized(c.auth)
    /\ call' = c
    /\ reply' = [status |-> "unauthorized"]
    /\ pc' = "reply"
    /\ UNCHANGED <<db, work, scratch, published>>

-----------------------------------------------------------------------------
(***************************************************************************)
(* PublishFrontier names the last place of the through fact on the target  *)
(* path and appends a fact that says so.                                   *)
(***************************************************************************)
Places(t, id, path) ==
    {e.path_ordinal : e \in {f \in t.paths : f.record_id = id /\ f.path_ref = path}}

FirstPlace(t, id, path) == Min(Places(t, id, path))
LatestPlace(t, id, path) == Max(Places(t, id, path))

FrontierIntent(spec) ==
    IF spec.append_intent_id = "" THEN "frontier:" \o spec.frontier_id
    ELSE spec.append_intent_id

FrontierPublisher(spec) ==
    IF spec.publisher_trace_owner_id = "" THEN spec.target_trace_owner_id
    ELSE spec.publisher_trace_owner_id

FrontierDraft(spec, ordinal) ==
    [group |-> 1, mode |-> Capture, schema_ref |-> FrontierSchemaRef,
     kind_label |-> "frontier_published", append_local_id |-> "",
     caused_by_fact_ids |-> << >>, caused_by_local_refs |-> << >>,
     payload |-> Plain([frontier_id |-> spec.frontier_id,
                        target_trace_owner_id |-> spec.target_trace_owner_id,
                        through_fact_id |-> spec.through_fact_id,
                        through_owner_ordinal |-> ordinal,
                        publisher_trace_owner_id |-> FrontierPublisher(spec)])]

\* An appended payload that reads canonically as a frontier's does so in its stored
\* rendering: its values are strings and one integer, which both writers render alike.
ASSUME FrontierPayloadsAssumption ==
    \A c \in AppendCalls : \A k \in DOMAIN c.batch.drafts : \A p \in PublishCalls :
      LET draft == c.batch.drafts[k]
      IN  (draft.schema_ref = FrontierSchemaRef
           /\ draft.payload.canon =
                FrontierDraft(p.spec, draft.payload.canon.through_owner_ordinal).payload.canon)
            => draft.payload.json = draft.payload.canon

FrontierGroup(spec, auth) ==
    [trace_owner_id |-> FrontierPublisher(spec),
     retained_context |->
       [form |-> "draft",
        content |-> [defaultContextDraft EXCEPT
                       !.capability_witness_refs = auth.presented_authority_refs,
                       !.semantic_environment_refs = {auth.schema_env}]],
     causal_parents |-> <<spec.through_fact_id>> \o spec.caused_by]

FrontierBatch(spec, auth, ordinal) ==
    [append_intent_id |-> FrontierIntent(spec),
     groups |-> <<FrontierGroup(spec, auth)>>,
     drafts |-> <<FrontierDraft(spec, ordinal)>>]

ThroughPlaces == Places(work, call.spec.through_fact_id, call.spec.target_trace_owner_id)

ResolveThrough ==
    /\ pc = "through"
    /\ ~ctxDone
    /\ call.spec.frontier_id # ""
    /\ ThroughPlaces # {}
    /\ batch' = FrontierBatch(call.spec, call.auth,
                  LatestPlace(work, call.spec.through_fact_id, call.spec.target_trace_owner_id))
    /\ pc' = "lookup"
    /\ UNCHANGED <<db, work, call, at, facts, staged, receipt, isNew, ctxDone, reply, published>>

RefuseThrough ==
    /\ pc = "through"
    /\ ~ctxDone
    /\ \/ call.spec.frontier_id = "" /\ Fail("rejected")
       \/ /\ call.spec.frontier_id # ""
          /\ ThroughPlaces = {}
          /\ Fail("unknown_fact")

-----------------------------------------------------------------------------
(***************************************************************************)
(* appendInTx: shape, then the intent's earlier outcome.                   *)
(***************************************************************************)
IntentKnown == batch.append_intent_id \in DOMAIN work.intents
SameBatch ==
    work.intents[batch.append_intent_id].batch_digest = batchDigest(batch, call.auth)

RejectShape ==
    /\ pc = "lookup"
    /\ ~validateBatchShape(batch)
    /\ Fail("rejected")

AnswerRetry ==
    /\ pc = "lookup"
    /\ ~ctxDone
    /\ validateBatchShape(batch)
    /\ IntentKnown
    /\ SameBatch
    /\ receipt' = work.intents[batch.append_intent_id].receipt
    /\ pc' = IF call.op = "publish" THEN "index" ELSE "commit"
    /\ UNCHANGED <<db, work, call, batch, at, facts, staged, isNew, ctxDone, reply, published>>

RefuseConflict ==
    /\ pc = "lookup"
    /\ ~ctxDone
    /\ validateBatchShape(batch)
    /\ IntentKnown
    /\ ~SameBatch
    /\ Fail("conflict")

StartStaging ==
    /\ pc = "lookup"
    /\ ~ctxDone
    /\ validateBatchShape(batch)
    /\ ~IntentKnown
    /\ staged' = work.next
    /\ at' = 1
    /\ pc' = "stage"
    /\ UNCHANGED <<db, work, call, batch, facts, receipt, isNew, ctxDone, reply, published>>

-----------------------------------------------------------------------------
(***************************************************************************)
(* prepareAppend, one draft at a time.                                     *)
(***************************************************************************)
Draft(k) == batch.drafts[k]

\* resolveGroupContextTx for the group of draft k.  A context retained by this
\* same batch is not in the table yet, so it cannot be reused within the batch.
ContextResolves(k) ==
    LET ctx == GroupOf(batch, k).retained_context
    IN  ctx.form = "reuse" => ~ctxDone /\ ctx.id \in DOMAIN work.contexts

RetainedContext(k) ==
    LET ctx == GroupOf(batch, k).retained_context
        payload == contextPayload(DraftContent(ctx), call.auth)
    IN  IF ctx.form = "reuse"
        THEN [context_id |-> ctx.id, content |-> work.contexts[ctx.id].content]
        ELSE [context_id |-> contextIDFor(batch.append_intent_id, Draft(k).group, payload),
              content |-> payload]

WitnessOf(k) == ordinaryWitnessPlan(RetainedContext(k).content, call.auth)

\* A local reference names an earlier draft of the batch.
LocalDrafts(ref) ==
    {j \in DOMAIN facts : ref # "" /\ Draft(j).append_local_id = ref}

resolvedCauses(k) ==
    LET local == [i \in DOMAIN Draft(k).caused_by_local_refs |->
                    facts[Max(LocalDrafts(Draft(k).caused_by_local_refs[i]))].record_id]
    IN  GroupOf(batch, k).causal_parents \o Draft(k).caused_by_fact_ids \o local

CausesResolve(k) ==
    /\ \A i \in DOMAIN Draft(k).caused_by_local_refs :
         LocalDrafts(Draft(k).caused_by_local_refs[i]) # {}
    /\ IsInjective(resolvedCauses(k))

\* factExistsTx reports a statement that fails as a fact that does not exist.
ParentExists(id) ==
    \/ \E j \in DOMAIN facts : facts[j].record_id = id
    \/ ~ctxDone /\ id \in DOMAIN work.records

ParentsExist(k) == \A i \in DOMAIN resolvedCauses(k) : ParentExists(resolvedCauses(k)[i])

DraftResolves(k) ==
    /\ ContextResolves(k)
    /\ ValidateWitnessBody(WitnessBody(RetainedContext(k).content, call.auth))
    /\ CausesResolve(k)

CommitNumber_FromTheEnd == work.commitSeq + Len(batch.drafts) - Len(facts) - 1
CommitNumber == work.commitSeq + Len(facts)

PreparedFact(k) ==
    LET owner   == GroupOf(batch, k).trace_owner_id
        witness == WitnessOf(k).record_id
    IN  [record_id |-> RecordDigest(Draft(k).schema_ref, Draft(k).mode,
                         Draft(k).payload.canon, resolvedCauses(k), witness),
         schema_ref |-> Draft(k).schema_ref,
         mode |-> Draft(k).mode,
         witness_ref |-> witness,
         caused_by |-> resolvedCauses(k),
         body |-> Draft(k).payload.json,
         trace_owner_id |-> owner,
         owner_ordinal |-> staged[owner],
         context_ref |-> RetainedContext(k).context_id,
         kind_label |-> KindLabel(Draft(k)),
         commit |-> CommitNumber]

StageDraft ==
    /\ pc = "stage"
    /\ at \in DOMAIN batch.drafts
    /\ DraftResolves(at)
    /\ ParentsExist(at)
    /\ ValidateRecordInput(Draft(at).schema_ref, Draft(at).mode)
    /\ facts' = Append(facts, PreparedFact(at))
    /\ staged' = [staged EXCEPT ![GroupOf(batch, at).trace_owner_id] = @ + 1]
    /\ at' = at + 1
    /\ UNCHANGED <<db, work, pc, call, batch, receipt, isNew, ctxDone, reply, published>>

RefuseDraft ==
    /\ pc = "stage"
    /\ at \in DOMAIN batch.drafts
    /\ \/ ~DraftResolves(at) /\ Fail("refused")
       \/ DraftResolves(at) /\ ~ParentsExist(at) /\ Fail("unknown_fact")
       \/ /\ DraftResolves(at)
          /\ ParentsExist(at)
          /\ ~ValidateRecordInput(Draft(at).schema_ref, Draft(at).mode)
          /\ Fail("refused")

-----------------------------------------------------------------------------
(***************************************************************************)
(* The inserts.  First the intent with its receipt and the new contexts.   *)
(***************************************************************************)
FactOwners == {facts[k].trace_owner_id : k \in DOMAIN facts}

PreparedReceipt_SwappedRange ==
    [fact_ids |-> [k \in DOMAIN facts |-> facts[k].record_id],
     commits |-> [k \in DOMAIN facts |-> facts[k].commit],
     owner_ranges |-> [o \in FactOwners |-> <<work.next[o], work.next[o] - staged[o]>>]]

PreparedReceipt_OpenRange ==
    [fact_ids |-> [k \in DOMAIN facts |-> facts[k].record_id],
     commits |-> [k \in DOMAIN facts |-> facts[k].commit],
     owner_ranges |-> [o \in FactOwners |-> <<work.next[o], staged[o]>>]]

PreparedReceipt_LastFirst ==
    LET n == Len(facts)
    IN  [fact_ids |-> [k \in DOMAIN facts |-> facts[n + 1 - k].record_id],
         commits |-> [k \in DOMAIN facts |-> facts[n + 1 - k].commit],
         owner_ranges |-> [o \in FactOwners |-> <<work.next[o], staged[o] - 1>>]]

PreparedReceipt ==
    [fact_ids |-> [k \in DOMAIN facts |-> facts[k].record_id],
     commits |-> [k \in DOMAIN facts |-> facts[k].commit],
     owner_ranges |-> [o \in FactOwners |-> <<work.next[o], staged[o] - 1>>]]

NewContexts ==
    {RetainedContext(k) : k \in {j \in DOMAIN facts :
                                   RetainedContext(j).context_id \notin DOMAIN work.contexts}}

WithContexts(t) ==
    [id \in DOMAIN t.contexts \cup {c.context_id : c \in NewContexts} |->
       IF id \in DOMAIN t.contexts THEN t.contexts[id]
       ELSE [content |-> (CHOOSE c \in NewContexts : c.context_id = id).content,
             append_intent_id |-> batch.append_intent_id]]

WithIntent_ReceiptUnset(t) ==
    [i \in DOMAIN t.intents \cup {batch.append_intent_id} |->
       IF i = batch.append_intent_id
       THEN [batch_digest |-> batchDigest(batch, call.auth), receipt |-> receipt]
       ELSE t.intents[i]]

WithIntent(t) ==
    [i \in DOMAIN t.intents \cup {batch.append_intent_id} |->
       IF i = batch.append_intent_id
       THEN [batch_digest |-> batchDigest(batch, call.auth), receipt |-> PreparedReceipt]
       ELSE t.intents[i]]

RetainIntent ==
    /\ pc = "stage"
    /\ at \notin DOMAIN batch.drafts
    /\ ~ctxDone
    /\ work' = [work EXCEPT !.intents = WithIntent(work), !.contexts = WithContexts(work)]
    /\ receipt' = PreparedReceipt
    /\ isNew' = TRUE
    /\ at' = 0
    /\ pc' = "witness"
    /\ UNCHANGED <<db, call, batch, facts, staged, ctxDone, reply, published>>

(***************************************************************************)
(* A record row is inserted once, with its edges; a path entry every time. *)
(***************************************************************************)
Edges_CountedFromOne(fact) ==
    {[parent |-> fact.caused_by[i], child |-> fact.record_id, position |-> i] :
       i \in DOMAIN fact.caused_by}

Edges(fact) ==
    {[parent |-> fact.caused_by[i], child |-> fact.record_id, position |-> i - 1] :
       i \in DOMAIN fact.caused_by}

Row(fact) ==
    [schema_ref |-> fact.schema_ref, mode |-> fact.mode,
     witness_ref |-> fact.witness_ref, caused_by |-> fact.caused_by,
     body |-> fact.body, append_intent_id |-> batch.append_intent_id]

Entry(fact, commitReceipt) ==
    [path_ref |-> fact.trace_owner_id, path_ordinal |-> fact.owner_ordinal,
     record_id |-> fact.record_id, context_ref |-> fact.context_ref,
     kind_label |-> fact.kind_label, append_intent_id |-> batch.append_intent_id,
     commit_receipt |-> commitReceipt]

insertRecord_Replacing(t, fact) ==
    [t EXCEPT
       !.records = [id \in DOMAIN t.records \cup {fact.record_id} |->
                      IF id = fact.record_id THEN Row(fact) ELSE t.records[id]],
       !.edges = @ \cup Edges(fact)]

insertRecordIfMissing(t, fact) ==
    IF fact.record_id \in DOMAIN t.records THEN t
    ELSE [t EXCEPT
            !.records = [id \in DOMAIN t.records \cup {fact.record_id} |->
                           IF id = fact.record_id THEN Row(fact) ELSE t.records[id]],
            !.edges = @ \cup Edges(fact)]

recordContentMatches(row, fact) ==
    /\ row.schema_ref = fact.schema_ref
    /\ row.mode = fact.mode
    /\ row.witness_ref = fact.witness_ref
    /\ row.caused_by = fact.caused_by
    /\ row.body = fact.body

\* PRIMARY KEY(path_ref, path_ordinal) and UNIQUE commit_receipt.
KeysFree_NoPathKey(t, entry) ==
    \A e \in t.paths : e.commit_receipt # entry.commit_receipt

KeysFree(t, entry) ==
    \A e \in t.paths :
      /\ ~(e.path_ref = entry.path_ref /\ e.path_ordinal = entry.path_ordinal)
      /\ e.commit_receipt # entry.commit_receipt

insertFactRow(t, fact, commitReceipt) ==
    [insertRecordIfMissing(t, fact) EXCEPT !.paths = @ \cup {Entry(fact, commitReceipt)}]

-----------------------------------------------------------------------------
(***************************************************************************)
(* Witnesses in first-seen order: the root's, then that of each draft's    *)
(* group.  A batch without facts has no witnesses.                         *)
(***************************************************************************)
Plan(j) == IF j = 0 THEN rootWitnessPlan ELSE WitnessOf(j)

WitnessesLeft_ButOne == facts # << >> /\ at \in 0 .. Len(facts) - 1
WitnessesLeft == facts # << >> /\ at \in DOMAIN facts \cup {0}

WitnessFact(plan) ==
    [record_id |-> plan.record_id, schema_ref |-> plan.schema_ref, mode |-> Capture,
     witness_ref |-> plan.witness_ref, caused_by |-> << >>, body |-> plan.body,
     trace_owner_id |-> witnessTraceOwnerID,
     owner_ordinal |-> work.next[witnessTraceOwnerID],
     context_ref |-> << >>, kind_label |-> plan.kind_label]

WitnessEntry(plan) == Entry(WitnessFact(plan), <<"witness", plan.record_id>>)

KeepWitness ==
    /\ pc = "witness"
    /\ ~ctxDone
    /\ WitnessesLeft
    /\ Plan(at).record_id \in DOMAIN work.records
    /\ at' = at + 1
    /\ UNCHANGED <<db, work, pc, call, batch, facts, staged, receipt, isNew, ctxDone, reply, published>>

InsertWitness ==
    /\ pc = "witness"
    /\ ~ctxDone
    /\ WitnessesLeft
    /\ Plan(at).record_id \notin DOMAIN work.records
    /\ KeysFree(work, WitnessEntry(Plan(at)))
    /\ work' = [insertFactRow(work, WitnessFact(Plan(at)), <<"witness", Plan(at).record_id>>)
                  EXCEPT !.next[witnessTraceOwnerID] = @ + 1]
    /\ at' = at + 1
    /\ UNCHANGED <<db, pc, call, batch, facts, staged, receipt, isNew, ctxDone, reply, published>>

EndWitnesses ==
    /\ pc = "witness"
    /\ ~ctxDone
    /\ ~WitnessesLeft
    /\ at' = 1
    /\ pc' = "fact"
    /\ UNCHANGED <<db, work, call, batch, facts, staged, receipt, isNew, ctxDone, reply, published>>

-----------------------------------------------------------------------------
(***************************************************************************)
(* Facts.  A path key that is taken, a parent that is not retained (the    *)
(* edge table's foreign key) or an id whose stored rendering is another    *)
(* fails the whole batch.                                                  *)
(***************************************************************************)
ParentsRetained(t, fact) ==
    \A i \in DOMAIN fact.caused_by : fact.caused_by[i] \in DOMAIN t.records

FactInserts(fact) ==
    /\ KeysFree(work, Entry(fact, <<"commit", fact.commit>>))
    /\ ParentsRetained(work, fact)
    /\ fact.record_id \in DOMAIN work.records =>
         recordContentMatches(work.records[fact.record_id], fact)

InsertFact ==
    /\ pc = "fact"
    /\ ~ctxDone
    /\ at \in DOMAIN facts
    /\ FactInserts(facts[at])
    /\ work' = insertFactRow(work, facts[at], <<"commit", facts[at].commit>>)
    /\ at' = at + 1
    /\ UNCHANGED <<db, pc, call, batch, facts, staged, receipt, isNew, ctxDone, reply, published>>

RefuseFact ==
    /\ pc = "fact"
    /\ ~ctxDone
    /\ at \in DOMAIN facts
    /\ ~FactInserts(facts[at])
    /\ Fail("refused")

nextCommitSeq_LastUsed == IF facts = << >> THEN work.commitSeq ELSE facts[Len(facts)].commit
nextCommitSeq == IF facts = << >> THEN work.commitSeq ELSE facts[Len(facts)].commit + 1

AdvanceCounters ==
    /\ pc = "fact"
    /\ ~ctxDone
    /\ at \notin DOMAIN facts
    /\ work' = [work EXCEPT
                  !.next = [p \in Paths |->
                              IF p \in DOMAIN receipt.owner_ranges
                              THEN receipt.owner_ranges[p][2] + 1 ELSE @[p]],
                  !.commitSeq = nextCommitSeq]
    /\ pc' = IF call.op = "publish" THEN "index" ELSE "commit"
    /\ UNCHANGED <<db, call, scratch, reply, published>>

-----------------------------------------------------------------------------
(***************************************************************************)
(* The frontier index.                                                     *)
(***************************************************************************)
FrontierRow ==
    LET payload == batch.drafts[1].payload.json
    IN  [target_trace_owner_id |-> payload.target_trace_owner_id,
         through_fact_id |-> payload.through_fact_id,
         through_owner_ordinal |-> payload.through_owner_ordinal,
         publisher_trace_owner_id |-> payload.publisher_trace_owner_id,
         created_by_fact_id |-> receipt.fact_ids[1],
         append_intent_id |-> batch.append_intent_id]

FrontierKnown == call.spec.frontier_id \in DOMAIN work.frontiers

SameCutoff ==
    LET row == work.frontiers[call.spec.frontier_id]
    IN  /\ row.target_trace_owner_id = FrontierRow.target_trace_owner_id
        /\ row.through_fact_id = FrontierRow.through_fact_id
        /\ row.through_owner_ordinal = FrontierRow.through_owner_ordinal

IndexFrontier ==
    /\ pc = "index"
    /\ ~ctxDone
    /\ ~FrontierKnown
    /\ work' = [work EXCEPT !.frontiers =
                  [f \in DOMAIN @ \cup {call.spec.frontier_id} |->
                     IF f = call.spec.frontier_id THEN FrontierRow ELSE @[f]]]
    /\ pc' = "commit"
    /\ UNCHANGED <<db, call, scratch, reply, published>>

KeepFrontier ==
    /\ pc = "index"
    /\ ~ctxDone
    /\ FrontierKnown
    /\ SameCutoff
    /\ pc' = "commit"
    /\ UNCHANGED <<db, work, call, scratch, reply, published>>

RefuseFrontier ==
    /\ pc = "index"
    /\ ~ctxDone
    /\ FrontierKnown
    /\ ~SameCutoff
    /\ Fail("refused")

-----------------------------------------------------------------------------
(***************************************************************************)
(* COMMIT, the events of a new append, and the unlock.                     *)
(***************************************************************************)
CommitTx ==
    /\ pc = "commit"
    /\ ~ctxDone
    /\ db' = work
    /\ reply' = [status |-> "ok", receipt |-> receipt]
    /\ at' = 1
    /\ pc' = IF call.op = "append" /\ isNew THEN "publish" ELSE "reply"
    /\ UNCHANGED <<work, call, batch, facts, staged, receipt, isNew, ctxDone, published>>

\* Local causal parents are not in the event's list.
Event_DraftLabel(k) ==
    [record_id |-> receipt.fact_ids[k],
     append_intent_id |-> batch.append_intent_id,
     trace_owner_id |-> GroupOf(batch, k).trace_owner_id,
     mode |-> Draft(k).mode,
     schema_ref |-> Draft(k).schema_ref,
     kind_label |-> Draft(k).kind_label,
     causal_parents |-> GroupOf(batch, k).causal_parents \o Draft(k).caused_by_fact_ids]

Event(k) ==
    [record_id |-> receipt.fact_ids[k],
     append_intent_id |-> batch.append_intent_id,
     trace_owner_id |-> GroupOf(batch, k).trace_owner_id,
     mode |-> Draft(k).mode,
     schema_ref |-> Draft(k).schema_ref,
     kind_label |-> KindLabel(Draft(k)),
     causal_parents |-> GroupOf(batch, k).causal_parents \o Draft(k).caused_by_fact_ids]

PublishEvent ==
    /\ pc = "publish"
    /\ at \in DOMAIN receipt.fact_ids
    /\ published' = Append(published, Event(at))
    /\ at' = at + 1
    /\ UNCHANGED <<db, work, pc, call, batch, facts, staged, receipt, isNew, ctxDone, reply>>

EndPublish_OneEarly ==
    /\ pc = "publish"
    /\ at + 1 \notin DOMAIN receipt.fact_ids
    /\ pc' = "reply"
    /\ UNCHANGED <<db, work, call, scratch, reply, published>>

EndPublish ==
    /\ pc = "publish"
    /\ at \notin DOMAIN receipt.fact_ids
    /\ pc' = "reply"
    /\ UNCHANGED <<db, work, call, scratch, reply, published>>

Return ==
    /\ pc = "reply"
    /\ Forget
    /\ UNCHANGED <<db, work, published>>

-----------------------------------------------------------------------------
(***************************************************************************)
(* What goes wrong around a call.                                          *)
(***************************************************************************)
InTransaction == pc \in {"through", "lookup", "stage", "witness", "fact", "index", "commit"}

\* The caller's context ends: database/sql rolls the transaction back under the
\* call, which learns of it from its next statement.
Cancel ==
    /\ InTransaction
    /\ ~ctxDone
    /\ ctxDone' = TRUE
    /\ work' = db
    /\ UNCHANGED <<db, pc, call, batch, at, facts, staged, receipt, isNew, reply, published>>

\* The first statement after that which is not part of staging.
FailStatement_NotAfterStaging ==
    /\ ctxDone
    /\ \/ pc \in {"through", "witness", "fact", "index", "commit"}
       \/ pc = "lookup" /\ validateBatchShape(batch)
    /\ Fail("error")

FailStatement ==
    /\ ctxDone
    /\ \/ pc \in {"through", "witness", "fact", "index", "commit"}
       \/ pc = "lookup" /\ validateBatchShape(batch)
       \/ pc = "stage" /\ at \notin DOMAIN batch.drafts
    /\ Fail("error")

\* The process dies and the next one opens the database: what was committed is
\* there, the open transaction is not, and the bus is a new one.
Crash ==
    /\ work' = db
    /\ Forget
    /\ published' = << >>
    /\ UNCHANGED db

-----------------------------------------------------------------------------
Begin ==
    \/ \E c \in AppendCalls : BeginAppend(c)
    \/ \E c \in PublishCalls : BeginPublish(c)
    \/ \E c \in AppendCalls \cup PublishCalls : RefuseCaller(c)

\* The steps of the call that holds the mutex.
Step ==
    \/ ResolveThrough \/ RefuseThrough
    \/ RejectShape \/ AnswerRetry \/ RefuseConflict \/ StartStaging
    \/ StageDraft \/ RefuseDraft
    \/ RetainIntent
    \/ KeepWitness \/ InsertWitness \/ EndWitnesses
    \/ InsertFact \/ RefuseFact \/ AdvanceCounters
    \/ IndexFrontier \/ KeepFrontier \/ RefuseFrontier
    \/ CommitTx \/ PublishEvent \/ EndPublish
    \/ FailStatement \/ Return

Next == Begin \/ Step \/ Cancel \/ Crash

Spec == Init /\ [][Next]_vars

\* The goroutine that holds the mutex keeps running.
FairSpec == Spec /\ WF_vars(Step)
=============================================================================
