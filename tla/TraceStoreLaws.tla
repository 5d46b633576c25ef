--------------------------- MODULE TraceStoreLaws ---------------------------
(***************************************************************************)
(* What the trace store promises of its committed tables, of what one call *)
(* may do to them, of its replies and of its events.                       *)
(***************************************************************************)
EXTENDS TraceStore

-----------------------------------------------------------------------------
(***************************************************************************)
(* Type correctness.                                                       *)
(***************************************************************************)
EntryTypeOK(e) ==
    /\ e.path_ref \in Paths
    /\ e.path_ordinal \in Nat
    /\ e.commit_receipt = <<e.commit_receipt[1], e.commit_receipt[2]>>

TablesTypeOK(t) ==
    /\ DOMAIN t = DOMAIN EmptyTables
    /\ t.next \in [Paths -> Nat]
    /\ t.commitSeq \in Nat
    /\ \A e \in t.paths : EntryTypeOK(e)

FactTypeOK(f) ==
    /\ f.trace_owner_id \in Paths
    /\ f.owner_ordinal \in Nat
    /\ f.commit \in Nat

\* Every draft belongs to a group whose owner has a path.
BatchTypeOK == \A k \in DOMAIN batch.drafts : GroupOf(batch, k).trace_owner_id \in Paths

\* Where a path continues after the batch that is being written.
RangesTypeOK ==
    \A p \in DOMAIN receipt.owner_ranges : receipt.owner_ranges[p][2] + 1 \in Nat

\* The tables, the counters and the prepared facts of the write path have their
\* types at every statement of a call.
TypeOK ==
    /\ TablesTypeOK(db)
    /\ TablesTypeOK(work)
    /\ pc \in {"idle", "through", "lookup", "stage", "witness", "fact", "index",
               "commit", "publish", "reply"}
    /\ call \in {NoCall} \cup AppendCalls \cup PublishCalls
    /\ pc = "through" => call \in PublishCalls
    /\ BatchTypeOK
    /\ at \in Nat
    /\ facts \in Seq(Range(facts))
    /\ \A k \in DOMAIN facts : FactTypeOK(facts[k])
    /\ staged \in [Paths -> Nat]
    /\ pc \in {"witness", "fact"} => RangesTypeOK
    /\ isNew \in BOOLEAN
    /\ ctxDone \in BOOLEAN

-----------------------------------------------------------------------------
(***************************************************************************)
(* The committed tables.                                                   *)
(***************************************************************************)
Entries(t, path)  == {e \in t.paths : e.path_ref = path}
Ordinals(t, path) == {e.path_ordinal : e \in Entries(t, path)}
FactEntries(t)   == {e \in t.paths : e.commit_receipt[1] = "commit"}
Commit(e)        == e.commit_receipt[2]

\* An owner path reads back as the ordinals 0, 1, ... up to owner_ordinals, each
\* exactly once: witnesses and facts that allocate on one path, groups of one
\* batch that share an owner and rolled back calls leave neither gap nor clash.
PathsContiguous ==
    \A p \in Paths :
      /\ Ordinals(db, p) = 0 .. db.next[p] - 1
      /\ \A e, f \in Entries(db, p) : e.path_ordinal = f.path_ordinal => e = f

\* Commit receipts number all retained facts 0, 1, ... with no gap and no
\* number twice, over every path and across rollbacks.
CommitNumbersGapFree ==
    /\ {Commit(e) : e \in FactEntries(db)} = 0 .. db.commitSeq - 1
    /\ \A e, f \in FactEntries(db) : Commit(e) = Commit(f) => e = f

\* validateCausalParentsTx with its staged ids: whatever a retained fact cites was
\* retained before it, by an earlier commit or earlier in its own batch.
CausesComeFirst ==
    \A e \in FactEntries(db) :
      \A parent \in Range(db.records[e.record_id].caused_by) :
        \E p \in db.paths :
          /\ p.record_id = parent
          /\ p \in FactEntries(db) => Commit(p) < Commit(e)

\* The edge table, which closures walk, and caused_by_json, which slices read,
\* tell the same graph, and both ends of every edge are retained.
EdgesMirrorCauses ==
    /\ db.edges = UNION {{[parent |-> db.records[id].caused_by[i], child |-> id, position |-> i - 1] :
                             i \in DOMAIN db.records[id].caused_by} : id \in DOMAIN db.records}
    /\ \A e \in db.edges : e.parent \in DOMAIN db.records

\* The causal graph is one graph in both its tables, and it points backwards: a batch
\* cites what precedes it, under content addressing, retries and rollbacks.
CausalGraphIsSound == CausesComeFirst /\ EdgesMirrorCauses

\* What validateWitnessChain demands when a frontier is resolved: the witness a
\* record cites is retained on a path and leads to the root witness.
WitnessedToRoot ==
    \A id \in DOMAIN db.records :
      LET row == db.records[id]
      IN  /\ \E e \in db.paths : e.record_id = id
          /\ \/ id = RootWitnessRecordID /\ row.witness_ref = RootWitnessRef
             \/ /\ row.witness_ref \in DOMAIN db.records
                /\ LET witness == db.records[row.witness_ref]
                   IN  \/ witness.schema_ref = RootWitnessSchemaRef
                       \/ /\ witness.schema_ref = WitnessSchemaRef
                          /\ witness.witness_ref = RootWitnessRecordID
                          /\ RootWitnessRecordID \in DOMAIN db.records

\* The receipt kept for an intent, which every retry is answered with, accounts
\* for exactly the entries that intent put on the paths: no entry is missing, none
\* is there twice, and each owner range is the run of ordinals it says.
ReceiptsAccountForEntries ==
    \A i \in DOMAIN db.intents :
      LET r    == db.intents[i].receipt
          mine == {e \in FactEntries(db) : e.append_intent_id = i}
      IN  /\ {<<Commit(e), e.record_id>> : e \in mine}
               = {<<r.commits[k], r.fact_ids[k]>> : k \in DOMAIN r.fact_ids}
          /\ {e.path_ref : e \in mine} = DOMAIN r.owner_ranges
          /\ \A p \in DOMAIN r.owner_ranges :
               {e.path_ordinal : e \in mine \cap Entries(db, p)}
                 = r.owner_ranges[p][1] .. r.owner_ranges[p][2]

\* A frontier of the index is the one its retained fact describes; it points at
\* a place that holds its through fact, the last such place when it was published.
FrontiersHold ==
    \A f \in DOMAIN db.frontiers :
      LET row  == db.frontiers[f]
          body == db.records[row.created_by_fact_id].body
          published_at == {Commit(e) : e \in {g \in FactEntries(db) :
                             g.record_id = row.created_by_fact_id
                             /\ g.append_intent_id = row.append_intent_id}}
      IN  /\ body.frontier_id = f
          /\ body.target_trace_owner_id = row.target_trace_owner_id
          /\ body.through_fact_id = row.through_fact_id
          /\ body.through_owner_ordinal = row.through_owner_ordinal
          /\ row.through_owner_ordinal \in
               Places(db, row.through_fact_id, row.target_trace_owner_id)
          /\ published_at # {}
          /\ \A e \in FactEntries(db) \cap Entries(db, row.target_trace_owner_id) :
               (e.record_id = row.through_fact_id /\ e.path_ordinal > row.through_owner_ordinal)
                 => \A n \in published_at : Commit(e) > n

Extends(f, g) == \A x \in DOMAIN f : x \in DOMAIN g /\ g[x] = f[x]

\* Nothing committed is ever changed or removed, by any call, rollback,
\* cancellation or restart, so every cut of a path reads the same for ever.
AppendOnly ==
    [][/\ db.paths \subseteq db'.paths
       /\ db.edges \subseteq db'.edges
       /\ Extends(db.records, db'.records)
       /\ Extends(db.contexts, db'.contexts)
       /\ Extends(db.intents, db'.intents)
       /\ Extends(db.frontiers, db'.frontiers)
       /\ \A p \in Paths : db.next[p] <= db'.next[p]]_vars

-----------------------------------------------------------------------------
(***************************************************************************)
(* Replies and events.                                                     *)
(***************************************************************************)
\* Once an append is acknowledged it is durable: the reply carries the receipt
\* the intents table keeps, whether this call or an earlier one wrote it.
AckedIsDurable ==
    reply.status = "ok" =>
      /\ batch.append_intent_id \in DOMAIN db.intents
      /\ db.intents[batch.append_intent_id].receipt = reply.receipt

\* store_append.go:41: a caller that is answered, at once or when it retries after a crash
\* or a timeout, holds the receipt the store keeps, and it is true of the paths.
ReceiptsAreDurable == AckedIsDurable /\ ReceiptsAccountForEntries

\* The number of events up to event j that belong to the same intent.
EventIndex(j) ==
    Cardinality({i \in 1 .. j : published[i].append_intent_id = published[j].append_intent_id})

EventReceipt(j) == db.intents[published[j].append_intent_id].receipt
EventCommit(j)  == EventReceipt(j).commits[EventIndex(j)]

\* publishAppendEvents runs after COMMIT and before the unlock, for new intents
\* only: every event is about a committed fact, is published at most once, in
\* commit order, and has the owner and label the store retained for it.
EventsFollowCommits ==
    \A j \in DOMAIN published :
      /\ published[j].append_intent_id \in DOMAIN db.intents
      /\ EventIndex(j) \in DOMAIN EventReceipt(j).fact_ids
      /\ \E e \in FactEntries(db) :
           /\ Commit(e) = EventCommit(j)
           /\ e.record_id = published[j].record_id
           /\ e.path_ref = published[j].trace_owner_id
           /\ e.kind_label = published[j].kind_label
      /\ \A i \in 1 .. j - 1 : EventCommit(i) < EventCommit(j)

EventsOf(intent) == {j \in DOMAIN published : published[j].append_intent_id = intent}

\* A new append is acknowledged only after all its events were handed over.
AckedIsPublished ==
    (pc = "reply" /\ reply.status = "ok" /\ isNew /\ call.op = "append") =>
      Cardinality(EventsOf(batch.append_intent_id)) = Len(reply.receipt.fact_ids)

\* store_append.go:49: a subscriber is told of commits only, in their order and once, and
\* of all records of an append before its caller is answered.
EventsTellCommits == EventsFollowCommits /\ AckedIsPublished

\* The mutex is always released: every error path, cancellation and retry ends.
LockIsReleased == pc # "idle" ~> pc = "idle"

-----------------------------------------------------------------------------
(***************************************************************************)
(* The committed tables as append-only logs.  The log of a path is read    *)
(* off its entries by ordinal.                                             *)
(***************************************************************************)
LogOf(path) ==
    [n \in 1 .. db.next[path] |->
       (CHOOSE e \in Entries(db, path) : e.path_ordinal = n - 1).record_id]

\* The batch of an intent as the caller gave it, which its fingerprint keeps: of each
\* draft the path of its group, and the id and the place the receipt leads to.
FactsOf(i) ==
    LET digest == db.intents[i].batch_digest
        r      == db.intents[i].receipt
    IN  [k \in DOMAIN digest.drafts |->
           [path  |-> digest.groups[digest.drafts[k].group].trace_owner_id,
            place |-> (CHOOSE e \in FactEntries(db) : Commit(e) = r.commits[k]).path_ordinal + 1,
            id    |-> r.fact_ids[k]]]

TraceLog ==
    INSTANCE TraceLog WITH
      Paths <- Paths,
      WitnessPath <- witnessTraceOwnerID,
      log <- [p \in Paths |-> LogOf(p)],
      commits <- [i \in DOMAIN db.intents |-> FactsOf(i)],
      marks <- [f \in DOMAIN db.frontiers |->
                  [path |-> db.frontiers[f].target_trace_owner_id,
                   place |-> db.frontiers[f].through_owner_ordinal + 1,
                   id |-> db.frontiers[f].through_fact_id]]

\* Append and PublishFrontier, with everything that can interrupt them, implement
\* the abstract log.
ImplementsTraceLog == TraceLog!Spec

-----------------------------------------------------------------------------
(***************************************************************************)
(* What the repository says and the code does not do.                      *)
(***************************************************************************)
\* traceui/doc.go:25: one "event: effect" per appended record.  PublishFrontier
\* appends a record through appendInTx and publishes nothing.
EveryAppendedRecordIsPublished ==
    (pc = "reply" /\ reply.status = "ok" /\ isNew) =>
      Cardinality(EventsOf(batch.append_intent_id)) = Len(reply.receipt.fact_ids)

\* store_json.go:60: a retained body is decoded so that the record can reproduce its
\* own id.  bodyToJSON writes the float64 1.0 as 1, the canonical writer as 1.0, so
\* the decoded body of such a record canonicalises to another id.
BodiesReproduceTheirIds ==
    \A id \in DOMAIN db.records :
      LET row == db.records[id]
      IN  RecordDigest(row.schema_ref, row.mode, row.body, row.caused_by, row.witness_ref) = id

\* store.go:47: UnknownFactError is raised when a retained fact references a
\* missing fact.  After a cancellation it is raised for facts that are retained.
UnknownFactIsMissing ==
    (reply.status = "unknown_fact" /\ call.op = "append") =>
      \E k \in DOMAIN batch.drafts :
        \E id \in Range(GroupOf(batch, k).causal_parents) \cup Range(Draft(k).caused_by_fact_ids) :
          id \notin DOMAIN db.records
=============================================================================
