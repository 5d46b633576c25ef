-------------------------- MODULE TraceStoreProofs --------------------------
(***************************************************************************)
(* Proofs about the trace store for every set of calls and owners: its     *)
(* types, its paths and commit numbers, what never changes, the causal     *)
(* graph, the witnesses, the receipts, the log it implements, its events   *)
(* and the frontiers.                                                      *)
(***************************************************************************)
EXTENDS TraceStoreLaws, SequenceLemmas

(***************************************************************************)
(* Sequences whose elements have no type of their own.                     *)
(***************************************************************************)
\* Appending extends the domain by one and changes no earlier element.
LEMMA AppendOverRange ==
    ASSUME NEW s, s \in Seq(Range(s)), NEW x
    PROVE  /\ Append(s, x) \in Seq(Range(Append(s, x)))
           /\ Len(s) \in Nat
           /\ Len(Append(s, x)) = Len(s) + 1
           /\ DOMAIN s = 1 .. Len(s)
           /\ DOMAIN Append(s, x) = 1 .. Len(s) + 1
           /\ \A i \in 1 .. Len(s) : Append(s, x)[i] = s[i]
           /\ Append(s, x)[Len(s) + 1] = x
  <1> DEFINE S == Range(s) \cup {x}
  <1>1. s \in Seq(S) /\ x \in S
    BY DEF Range
  <1> HIDE DEF S
  <1>2. Append(s, x) \in Seq(S)
    BY <1>1
  <1>3. Append(s, x) \in Seq(Range(Append(s, x)))
    BY <1>2, OverOwnRange
  <1> QED
    BY <1>1, <1>3

-----------------------------------------------------------------------------
(***************************************************************************)
(* What the statements do to the tables the proofs are about.              *)
(***************************************************************************)
TableNames == {"intents", "contexts", "records", "edges", "paths", "next", "commitSeq", "frontiers"}

\* The tables of createSchema, and how they start.
LEMMA EmptyTablesFields ==
    /\ DOMAIN EmptyTables = TableNames
    /\ EmptyTables.paths = {}
    /\ EmptyTables.next = [p \in Paths |-> 0]
    /\ EmptyTables.commitSeq = 0
  BY DEF EmptyTables, TableNames

\* Inserting a fact row adds its path entry and moves no counter.
LEMMA InsertFactRowFields ==
    ASSUME NEW t, DOMAIN t = TableNames, NEW fact, NEW r
    PROVE  /\ DOMAIN insertFactRow(t, fact, r) = TableNames
           /\ insertFactRow(t, fact, r).paths = t.paths \cup {Entry(fact, r)}
           /\ insertFactRow(t, fact, r).next = t.next
           /\ insertFactRow(t, fact, r).commitSeq = t.commitSeq
  <1> DEFINE u == insertRecordIfMissing(t, fact)
  <1>1. /\ DOMAIN u = TableNames
        /\ u.paths = t.paths
        /\ u.next = t.next
        /\ u.commitSeq = t.commitSeq
    BY DEF insertRecordIfMissing, TableNames
  <1> HIDE DEF u
  <1>2. insertFactRow(t, fact, r) = [u EXCEPT !.paths = @ \cup {Entry(fact, r)}]
    BY DEF insertFactRow, u
  <1> QED
    BY <1>1, <1>2 DEF TableNames

\* The keys of a path entry.
LEMMA EntryFields ==
    ASSUME NEW fact, NEW r
    PROVE  /\ Entry(fact, r).path_ref = fact.trace_owner_id
           /\ Entry(fact, r).path_ordinal = fact.owner_ordinal
           /\ Entry(fact, r).commit_receipt = r
  BY DEF Entry

\* What prepareAppend allocates for a draft.
LEMMA PreparedFactFields ==
    ASSUME NEW k
    PROVE  /\ PreparedFact(k).trace_owner_id = GroupOf(batch, k).trace_owner_id
           /\ PreparedFact(k).owner_ordinal = staged[GroupOf(batch, k).trace_owner_id]
           /\ PreparedFact(k).commit = work.commitSeq + Len(facts)
  BY DEF PreparedFact, CommitNumber

\* A witness takes the next ordinal of the witness path.
LEMMA WitnessFactFields ==
    ASSUME NEW plan
    PROVE  /\ WitnessFact(plan).trace_owner_id = witnessTraceOwnerID
           /\ WitnessFact(plan).owner_ordinal = work.next[witnessTraceOwnerID]
  BY DEF WitnessFact

\* The batch of a frontier has one draft, owned by the publisher.
LEMMA FrontierBatchOwner ==
    ASSUME NEW c \in PublishCalls, NEW n
    PROVE  \A k \in DOMAIN FrontierBatch(c.spec, c.auth, n).drafts :
             GroupOf(FrontierBatch(c.spec, c.auth, n), k).trace_owner_id \in Paths
  <1> DEFINE b == FrontierBatch(c.spec, c.auth, n)
  <1>1. FrontierPublisher(c.spec) \in Paths
    BY PublishCallsAssumption DEF FrontierPublisher
  <1>2. DOMAIN b.drafts = {1} /\ b.drafts[1] = FrontierDraft(c.spec, n)
    BY DEF FrontierBatch
  <1>3. FrontierDraft(c.spec, n).group = 1
    BY DEF FrontierDraft
  <1>4. b.groups[1] = FrontierGroup(c.spec, c.auth)
    BY DEF FrontierBatch
  <1>5. FrontierGroup(c.spec, c.auth).trace_owner_id \in Paths
    BY <1>1 DEF FrontierGroup
  <1> HIDE DEF b
  <1>6. \A k \in DOMAIN b.drafts : GroupOf(b, k).trace_owner_id \in Paths
    BY <1>2, <1>3, <1>4, <1>5 DEF GroupOf
  <1> QED
    BY <1>6 DEF b

\* Every error ends in the same state: rolled back, and about to reply.
Errors ==
    \/ RefuseThrough \/ RejectShape \/ RefuseConflict \/ RefuseDraft
    \/ RefuseFact \/ RefuseFrontier \/ FailStatement

\* Every refusal takes the deferred rollback.
LEMMA ErrorsFail ==
    Errors => \E status : Fail(status)
  BY DEF Errors, RefuseThrough, RejectShape, RefuseConflict, RefuseDraft, RefuseFact,
         RefuseFrontier, FailStatement

-----------------------------------------------------------------------------
(***************************************************************************)
(* Type correctness.                                                       *)
(***************************************************************************)
LEMMA EmptyTablesTypeOK ==
    TablesTypeOK(EmptyTables)
  BY EmptyTablesFields DEF TablesTypeOK

\* Between calls there is no draft.
LEMMA NoBatchDrafts ==
    DOMAIN NoBatch.drafts = {}
  <1>1. NoBatch.drafts = << >>
    BY DEF NoBatch
  <1> QED
    BY <1>1

\* The initial state has the types.
LEMMA InitTypeOK ==
    Init => TypeOK
  <1> SUFFICES ASSUME Init PROVE TypeOK
    OBVIOUS
  <1>1. TablesTypeOK(db) /\ TablesTypeOK(work)
    BY EmptyTablesTypeOK DEF Init
  <1>2. BatchTypeOK
    BY NoBatchDrafts DEF Init, BatchTypeOK
  <1>3. facts \in Seq(Range(facts)) /\ \A k \in DOMAIN facts : FactTypeOK(facts[k])
    BY DEF Init
  <1>4. staged \in [Paths -> Nat]
    BY EmptyTablesFields DEF Init
  <1> QED
    BY <1>1, <1>2, <1>3, <1>4 DEF Init, TypeOK

\* An idle store, whatever its tables.
LEMMA ForgetTypeOK ==
    ASSUME TypeOK, Forget, TablesTypeOK(db'), TablesTypeOK(work')
    PROVE  TypeOK'
  <1>1. BatchTypeOK'
    BY NoBatchDrafts DEF Forget, BatchTypeOK
  <1>2. (facts \in Seq(Range(facts)) /\ \A k \in DOMAIN facts : FactTypeOK(facts[k]))'
    BY DEF Forget
  <1>3. staged' \in [Paths -> Nat]
    BY EmptyTablesFields DEF Forget
  <1> QED
    BY <1>1, <1>2, <1>3 DEF Forget, TypeOK

\* A rollback keeps the types.
LEMMA FailTypeOK ==
    ASSUME TypeOK, NEW status, Fail(status)
    PROVE  TypeOK'
  BY DEF TypeOK, Fail, scratch, TablesTypeOK, BatchTypeOK, GroupOf

\* Taking the mutex keeps the types.
LEMMA BeginTypeOK ==
    ASSUME TypeOK, Begin
    PROVE  TypeOK'
  <1>1. CASE \E c \in AppendCalls : BeginAppend(c)
    <2>1. PICK c \in AppendCalls : BeginAppend(c)
      BY <1>1
    <2>2. BatchTypeOK'
      BY <2>1, AppendCallsAssumption DEF BeginAppend, BatchTypeOK, GroupOf
    <2> QED
      BY <2>1, <2>2 DEF TypeOK, BeginAppend, TablesTypeOK
  <1>2. CASE \E c \in PublishCalls : BeginPublish(c)
    BY <1>2 DEF TypeOK, BeginPublish, scratch, TablesTypeOK, BatchTypeOK, GroupOf
  <1>3. CASE \E c \in AppendCalls \cup PublishCalls : RefuseCaller(c)
    BY <1>3 DEF TypeOK, RefuseCaller, scratch, TablesTypeOK, BatchTypeOK, GroupOf
  <1> QED
    BY <1>1, <1>2, <1>3 DEF Begin

\* Drafts are staged behind the facts prepared so far.
LEMMA StageDraftTypeOK ==
    ASSUME TypeOK, StageDraft
    PROVE  TypeOK'
  <1> DEFINE o == GroupOf(batch, at).trace_owner_id
             f == PreparedFact(at)
  <1>1. o \in Paths
    BY DEF TypeOK, BatchTypeOK, StageDraft
  <1>2. staged[o] \in Nat /\ Len(facts) \in Nat /\ work.commitSeq \in Nat
    BY <1>1, AppendOverRange DEF TypeOK, TablesTypeOK
  <1>3. FactTypeOK(f)
    BY <1>1, <1>2, PreparedFactFields DEF FactTypeOK
  <1>4. staged' = [staged EXCEPT ![o] = @ + 1] /\ facts' = Append(facts, f)
    BY DEF StageDraft
  <1> HIDE DEF o, f
  <1>5. staged' \in [Paths -> Nat]
    BY <1>1, <1>2, <1>4 DEF TypeOK
  <1>6. facts' \in Seq(Range(facts')) /\ \A k \in DOMAIN facts' : FactTypeOK(facts'[k])
    BY <1>3, <1>4, AppendOverRange DEF TypeOK
  <1>7. BatchTypeOK'
    BY DEF TypeOK, StageDraft, BatchTypeOK, GroupOf
  <1> QED
    BY <1>5, <1>6, <1>7 DEF TypeOK, StageDraft, TablesTypeOK, FactTypeOK

\* Retaining the intent and the contexts keeps the types.
LEMMA RetainIntentTypeOK ==
    ASSUME TypeOK, RetainIntent
    PROVE  TypeOK'
  <1>1. /\ DOMAIN work' = DOMAIN work
        /\ work'.next = work.next
        /\ work'.commitSeq = work.commitSeq
        /\ work'.paths = work.paths
    BY EmptyTablesFields DEF RetainIntent, TypeOK, TablesTypeOK, TableNames
  <1>2. TablesTypeOK(work')
    BY <1>1 DEF TypeOK, TablesTypeOK
  <1>3. receipt'.owner_ranges = [o \in FactOwners |-> <<work.next[o], staged[o] - 1>>]
    BY DEF RetainIntent, PreparedReceipt
  <1>4. FactOwners \subseteq Paths
    BY DEF TypeOK, FactOwners, FactTypeOK
  <1>5. RangesTypeOK'
    BY <1>3, <1>4 DEF RangesTypeOK, TypeOK
  <1>6. BatchTypeOK'
    BY DEF TypeOK, RetainIntent, BatchTypeOK, GroupOf
  <1> QED
    BY <1>2, <1>5, <1>6 DEF TypeOK, RetainIntent, TablesTypeOK

\* What the three steps that write rows do to paths and counters.
LEMMA InsertWitnessTables ==
    ASSUME TypeOK, InsertWitness
    PROVE  /\ DOMAIN work' = TableNames
           /\ work'.paths = work.paths \cup {WitnessEntry(Plan(at))}
           /\ work'.next = [work.next EXCEPT ![witnessTraceOwnerID] = @ + 1]
           /\ work'.commitSeq = work.commitSeq
  <1> DEFINE f == WitnessFact(Plan(at))
             r == <<"witness", Plan(at).record_id>>
             t == insertFactRow(work, f, r)
  <1>1. work' = [t EXCEPT !.next[witnessTraceOwnerID] = @ + 1]
    BY DEF InsertWitness
  <1>2. /\ DOMAIN t = TableNames
        /\ t.paths = work.paths \cup {Entry(f, r)}
        /\ t.next = work.next
        /\ t.commitSeq = work.commitSeq
    BY InsertFactRowFields, EmptyTablesFields DEF TypeOK, TablesTypeOK
  <1>3. Entry(f, r) = WitnessEntry(Plan(at))
    BY DEF WitnessEntry
  <1> HIDE DEF f, r, t
  <1> QED
    BY <1>1, <1>2, <1>3 DEF TableNames

\* Inserting a fact adds its path entry and moves no counter.
LEMMA InsertFactTables ==
    ASSUME TypeOK, InsertFact
    PROVE  /\ DOMAIN work' = TableNames
           /\ work'.paths = work.paths \cup {Entry(facts[at], <<"commit", facts[at].commit>>)}
           /\ work'.next = work.next
           /\ work'.commitSeq = work.commitSeq
  BY InsertFactRowFields, EmptyTablesFields DEF InsertFact, TypeOK, TablesTypeOK

\* Advancing the counters adds no path entry.
LEMMA AdvanceCountersTables ==
    ASSUME TypeOK, AdvanceCounters
    PROVE  /\ DOMAIN work' = TableNames
           /\ work'.paths = work.paths
           /\ work'.next = [p \in Paths |-> IF p \in DOMAIN receipt.owner_ranges
                                            THEN receipt.owner_ranges[p][2] + 1
                                            ELSE work.next[p]]
           /\ work'.commitSeq = nextCommitSeq
  BY EmptyTablesFields DEF AdvanceCounters, TypeOK, TablesTypeOK, TableNames

\* Inserting a witness keeps the types.
LEMMA InsertWitnessTypeOK ==
    ASSUME TypeOK, InsertWitness
    PROVE  TypeOK'
  <1> DEFINE e == WitnessEntry(Plan(at))
  <1>1. witnessTraceOwnerID \in Paths /\ work.next[witnessTraceOwnerID] \in Nat
    BY DEF TypeOK, TablesTypeOK, Paths
  <1>2. EntryTypeOK(e)
    <2>1. e.commit_receipt = <<"witness", Plan(at).record_id>>
      BY EntryFields DEF WitnessEntry
    <2>2. /\ e.path_ref = witnessTraceOwnerID
          /\ e.path_ordinal = work.next[witnessTraceOwnerID]
      BY EntryFields, WitnessFactFields DEF WitnessEntry
    <2> QED
      BY <1>1, <2>1, <2>2 DEF EntryTypeOK
  <1> HIDE DEF e
  <1>3. /\ DOMAIN work' = TableNames
        /\ work'.paths = work.paths \cup {e}
        /\ work'.next = [work.next EXCEPT ![witnessTraceOwnerID] = @ + 1]
        /\ work'.commitSeq = work.commitSeq
    BY InsertWitnessTables DEF e
  <1>4. TablesTypeOK(work')
    BY <1>1, <1>2, <1>3, EmptyTablesFields DEF TypeOK, TablesTypeOK
  <1>5. BatchTypeOK' /\ RangesTypeOK' /\ TablesTypeOK(db')
    BY DEF TypeOK, InsertWitness, BatchTypeOK, GroupOf, RangesTypeOK, TablesTypeOK
  <1> QED
    BY <1>4, <1>5 DEF TypeOK, InsertWitness

\* Inserting a fact keeps the types.
LEMMA InsertFactTypeOK ==
    ASSUME TypeOK, InsertFact
    PROVE  TypeOK'
  <1> DEFINE f == facts[at]
             e == Entry(f, <<"commit", f.commit>>)
  <1>1. FactTypeOK(f)
    BY DEF InsertFact, TypeOK
  <1> HIDE DEF f
  <1>2. EntryTypeOK(e)
    BY <1>1, EntryFields DEF FactTypeOK, EntryTypeOK
  <1> HIDE DEF e
  <1>3. /\ DOMAIN work' = TableNames
        /\ work'.paths = work.paths \cup {e}
        /\ work'.next = work.next
        /\ work'.commitSeq = work.commitSeq
    BY InsertFactTables DEF e, f
  <1>4. TablesTypeOK(work')
    BY <1>2, <1>3, EmptyTablesFields DEF TypeOK, TablesTypeOK
  <1>5. BatchTypeOK' /\ RangesTypeOK' /\ TablesTypeOK(db')
    BY DEF TypeOK, InsertFact, BatchTypeOK, GroupOf, RangesTypeOK, TablesTypeOK
  <1> QED
    BY <1>4, <1>5 DEF TypeOK, InsertFact

\* Advancing the counters keeps the types.
LEMMA AdvanceCountersTypeOK ==
    ASSUME TypeOK, AdvanceCounters
    PROVE  TypeOK'
  <1>1. RangesTypeOK
    BY DEF TypeOK, AdvanceCounters
  <1>2. work'.next \in [Paths -> Nat]
    BY <1>1, AdvanceCountersTables DEF TypeOK, TablesTypeOK, RangesTypeOK
  <1>3. facts # << >> => Len(facts) \in DOMAIN facts
    BY DEF TypeOK
  <1>4. nextCommitSeq \in Nat
    BY <1>3 DEF TypeOK, TablesTypeOK, FactTypeOK, nextCommitSeq
  <1>5. TablesTypeOK(work')
    BY <1>2, <1>4, AdvanceCountersTables, EmptyTablesFields DEF TypeOK, TablesTypeOK
  <1> QED
    BY <1>5 DEF TypeOK, AdvanceCounters, scratch, TablesTypeOK, BatchTypeOK, GroupOf

\* The remaining steps leave every table as it is, or make one view the other.
LEMMA StepTypeOK ==
    ASSUME TypeOK, Step
    PROVE  TypeOK'
  <1>1. CASE ResolveThrough
    <2> DEFINE n == LatestPlace(work, call.spec.through_fact_id, call.spec.target_trace_owner_id)
    <2>1. call \in PublishCalls /\ batch' = FrontierBatch(call.spec, call.auth, n)
      BY <1>1 DEF TypeOK, ResolveThrough
    <2>2. BatchTypeOK'
      BY <2>1, FrontierBatchOwner DEF BatchTypeOK, GroupOf
    <2> QED
      BY <1>1, <2>2 DEF TypeOK, ResolveThrough, TablesTypeOK
  <1>2. CASE AnswerRetry
    BY <1>2 DEF TypeOK, AnswerRetry, TablesTypeOK, BatchTypeOK, GroupOf
  <1>3. CASE StartStaging
    BY <1>3 DEF TypeOK, StartStaging, TablesTypeOK, BatchTypeOK, GroupOf
  <1>4. CASE StageDraft
    BY <1>4, StageDraftTypeOK
  <1>5. CASE RetainIntent
    BY <1>5, RetainIntentTypeOK
  <1>6. CASE KeepWitness
    BY <1>6 DEF TypeOK, KeepWitness, TablesTypeOK, BatchTypeOK, GroupOf, RangesTypeOK
  <1>7. CASE InsertWitness
    BY <1>7, InsertWitnessTypeOK
  <1>8. CASE EndWitnesses
    BY <1>8 DEF TypeOK, EndWitnesses, TablesTypeOK, BatchTypeOK, GroupOf, RangesTypeOK
  <1>9. CASE InsertFact
    BY <1>9, InsertFactTypeOK
  <1>10. CASE AdvanceCounters
    BY <1>10, AdvanceCountersTypeOK
  <1>11. CASE IndexFrontier
    <2>1. /\ DOMAIN work' = DOMAIN work
          /\ work'.paths = work.paths
          /\ work'.next = work.next
          /\ work'.commitSeq = work.commitSeq
      BY <1>11, EmptyTablesFields DEF IndexFrontier, TypeOK, TablesTypeOK, TableNames
    <2>2. TablesTypeOK(work') /\ TablesTypeOK(db')
      BY <1>11, <2>1 DEF TypeOK, TablesTypeOK, IndexFrontier
    <2> QED
      BY <1>11, <2>2 DEF TypeOK, IndexFrontier, scratch, BatchTypeOK, GroupOf
  <1>12. CASE KeepFrontier
    BY <1>12 DEF TypeOK, KeepFrontier, scratch, TablesTypeOK, BatchTypeOK, GroupOf
  <1>13. CASE CommitTx
    BY <1>13 DEF TypeOK, CommitTx, TablesTypeOK, BatchTypeOK, GroupOf
  <1>14. CASE PublishEvent
    BY <1>14 DEF TypeOK, PublishEvent, TablesTypeOK, BatchTypeOK, GroupOf
  <1>15. CASE EndPublish
    BY <1>15 DEF TypeOK, EndPublish, scratch, TablesTypeOK, BatchTypeOK, GroupOf
  <1>16. CASE Return
    <2>1. TablesTypeOK(db') /\ TablesTypeOK(work')
      BY <1>16 DEF TypeOK, Return, TablesTypeOK
    <2> QED
      BY <1>16, <2>1, ForgetTypeOK DEF Return
  <1>17. CASE Errors
    BY <1>17, ErrorsFail, FailTypeOK
  <1> QED
    BY <1>1, <1>2, <1>3, <1>4, <1>5, <1>6, <1>7, <1>8, <1>9, <1>10, <1>11, <1>12,
       <1>13, <1>14, <1>15, <1>16, <1>17 DEF Step, Errors

\* Every step of the store keeps the types.
LEMMA NextTypeOK ==
    ASSUME TypeOK, [Next]_vars
    PROVE  TypeOK'
  <1>1. CASE Begin
    BY <1>1, BeginTypeOK
  <1>2. CASE Step
    BY <1>2, StepTypeOK
  <1>3. CASE Cancel
    BY <1>3 DEF TypeOK, Cancel, TablesTypeOK, BatchTypeOK, GroupOf, RangesTypeOK
  <1>4. CASE Crash
    <2>1. TablesTypeOK(db') /\ TablesTypeOK(work')
      BY <1>4 DEF TypeOK, Crash, TablesTypeOK
    <2> QED
      BY <1>4, <2>1, ForgetTypeOK DEF Crash
  <1>5. CASE UNCHANGED vars
    BY <1>5 DEF TypeOK, vars, scratch, TablesTypeOK, BatchTypeOK, GroupOf, RangesTypeOK
  <1> QED
    BY <1>1, <1>2, <1>3, <1>4, <1>5 DEF Next

\* Append, PublishFrontier and what interrupts them keep the types of the tables,
\* of the counters and of everything a call has prepared.
THEOREM TypeCorrect ==
    Spec => []TypeOK
  <1>1. Init => TypeOK
    BY InitTypeOK
  <1>2. TypeOK /\ [Next]_vars => TypeOK'
    BY NextTypeOK
  <1> QED
    BY <1>1, <1>2, PTL DEF Spec

-----------------------------------------------------------------------------
(***************************************************************************)
(* Why an owner path reads back as 0, 1, ... and why commit receipts have  *)
(* no gap.                                                                 *)
(*                                                                         *)
(* Neither law is inductive.  The ordinals of a batch are allocated while  *)
(* it is staged, from the counters as they were then; the witnesses of the *)
(* batch are inserted afterwards and move the counter of their own path;   *)
(* the counters of all other paths are moved last.  In between, the        *)
(* entries of a path run ahead of its counter.  The invariant below says   *)
(* how far, and that a batch whose facts and witnesses met on one path     *)
(* cannot have reached the counters.                                       *)
(***************************************************************************)
W == witnessTraceOwnerID

\* The ordinals on a path, and the commit receipts, of the first n facts of a batch.
PreparedOrdinals(fs, n, p) ==
    {fs[k].owner_ordinal : k \in {j \in 1 .. n : fs[j].trace_owner_id = p}}

PreparedCommits(fs, n) == {fs[k].commit : k \in 1 .. n}

CommitsOf(t) == {Commit(e) : e \in FactEntries(t)}

KeysUnique(t) ==
    \A e, f \in t.paths :
      (\/ e.path_ref = f.path_ref /\ e.path_ordinal = f.path_ordinal
       \/ e.commit_receipt = f.commit_receipt) => e = f

Contiguous(t) == \A p \in Paths : Ordinals(t, p) = 0 .. t.next[p] - 1

GapFree(t) == CommitsOf(t) = 0 .. t.commitSeq - 1

\* Outside the inserts, and after a cancellation, the transaction sees what is
\* committed.
ViewInv ==
    /\ pc \in {"idle", "through", "lookup", "stage", "publish", "reply"} => work = db
    /\ ctxDone => work = db

\* Only while facts are inserted does a table differ from what its counters say.
TablesInv ==
    /\ KeysUnique(db) /\ Contiguous(db) /\ GapFree(db)
    /\ KeysUnique(work)
    /\ pc # "fact" => Contiguous(work) /\ GapFree(work)

\* The prepared facts continue every path, and the commit receipts, from where the
\* committed counters are.
PreparedInv ==
    /\ pc \in {"idle", "through", "lookup"} => facts = << >>
    /\ pc \in {"stage", "witness", "fact"} =>
         /\ \A p \in Paths :
              /\ staged[p] >= db.next[p]
              /\ PreparedOrdinals(facts, Len(facts), p) = db.next[p] .. staged[p] - 1
         /\ PreparedCommits(facts, Len(facts)) = db.commitSeq .. db.commitSeq + Len(facts) - 1
         /\ facts # << >> => facts[Len(facts)].commit = db.commitSeq + Len(facts) - 1

\* What the counters will be set to, and that only the witness path moved.
RangesInv ==
    pc \in {"witness", "fact"} =>
      /\ receipt.owner_ranges = [o \in FactOwners |-> <<db.next[o], staged[o] - 1>>]
      /\ work.commitSeq = db.commitSeq
      /\ \A p \in Paths : work.next[p] >= db.next[p] /\ (p # W => work.next[p] = db.next[p])

\* The entries of a path are those its counter knows and the inserted facts, all of
\* which lie beyond the counter.
InsertedInv ==
    (pc = "fact" /\ ~ctxDone) =>
      /\ at \in 1 .. Len(facts) + 1
      /\ \A p \in Paths :
           /\ Ordinals(work, p) = (0 .. work.next[p] - 1) \cup PreparedOrdinals(facts, at - 1, p)
           /\ \A n \in PreparedOrdinals(facts, at - 1, p) : n >= work.next[p]
      /\ CommitsOf(work) = (0 .. work.commitSeq - 1) \cup PreparedCommits(facts, at - 1)

PathInv == ViewInv /\ TablesInv /\ PreparedInv /\ RangesInv /\ InsertedInv

-----------------------------------------------------------------------------
(***************************************************************************)
(* What one more entry, and one more prepared fact, add.                   *)
(***************************************************************************)
LEMMA SamePaths ==
    ASSUME NEW t, NEW u, u.paths = t.paths
    PROVE  /\ \A p \in Paths : Ordinals(u, p) = Ordinals(t, p)
           /\ CommitsOf(u) = CommitsOf(t)
           /\ KeysUnique(t) => KeysUnique(u)
  BY DEF Ordinals, Entries, CommitsOf, FactEntries, Commit, KeysUnique

\* One more path entry adds one ordinal to one path, and a commit receipt if it is a
\* fact; unique keys stay unique if its keys were free.
LEMMA OneMoreEntry ==
    ASSUME NEW t, NEW u, NEW e, u.paths = t.paths \cup {e}
    PROVE  /\ \A p : Ordinals(u, p) = IF p = e.path_ref
                                      THEN Ordinals(t, p) \cup {e.path_ordinal}
                                      ELSE Ordinals(t, p)
           /\ CommitsOf(u) = IF e.commit_receipt[1] = "commit"
                             THEN CommitsOf(t) \cup {e.commit_receipt[2]}
                             ELSE CommitsOf(t)
           /\ KeysUnique(t) /\ KeysFree(t, e) => KeysUnique(u)
  <1>1. \A p : Ordinals(u, p) = IF p = e.path_ref
                               THEN Ordinals(t, p) \cup {e.path_ordinal}
                               ELSE Ordinals(t, p)
    BY DEF Ordinals, Entries
  <1>2. CommitsOf(u) = IF e.commit_receipt[1] = "commit"
                       THEN CommitsOf(t) \cup {e.commit_receipt[2]}
                       ELSE CommitsOf(t)
    BY DEF CommitsOf, FactEntries, Commit
  <1>3. KeysUnique(t) /\ KeysFree(t, e) => KeysUnique(u)
    BY DEF KeysUnique, KeysFree
  <1> QED
    BY <1>1, <1>2, <1>3

\* A path key that is free is none of the ordinals of the path.
LEMMA FreeKeyIsNew ==
    ASSUME NEW t, NEW e, KeysFree(t, e)
    PROVE  e.path_ordinal \notin Ordinals(t, e.path_ref)
  BY DEF KeysFree, Ordinals, Entries

\* One more prepared fact adds its ordinal to its path and its commit receipt.
LEMMA OneMorePrepared ==
    ASSUME NEW n \in Nat, NEW m, m = n + 1, NEW fs
    PROVE  /\ \A p : PreparedOrdinals(fs, m, p) =
                       IF p = fs[m].trace_owner_id
                       THEN PreparedOrdinals(fs, n, p) \cup {fs[m].owner_ordinal}
                       ELSE PreparedOrdinals(fs, n, p)
           /\ PreparedCommits(fs, m) = PreparedCommits(fs, n) \cup {fs[m].commit}
  <1>1. 1 .. m = (1 .. n) \cup {m}
    OBVIOUS
  <1> QED
    BY <1>1 DEF PreparedOrdinals, PreparedCommits

\* Before the first prepared fact nothing is allocated.
LEMMA NonePrepared ==
    ASSUME NEW fs
    PROVE  /\ \A p \in Paths : PreparedOrdinals(fs, 0, p) = {}
           /\ PreparedCommits(fs, 0) = {}
  <1>1. 1 .. 0 = {}
    OBVIOUS
  <1> QED
    BY <1>1 DEF PreparedOrdinals, PreparedCommits

\* Only the facts counted matter.
LEMMA SamePrepared ==
    ASSUME NEW n \in Nat, NEW fs, NEW gs, \A i \in 1 .. n : fs[i] = gs[i]
    PROVE  /\ \A p \in Paths : PreparedOrdinals(fs, n, p) = PreparedOrdinals(gs, n, p)
           /\ PreparedCommits(fs, n) = PreparedCommits(gs, n)
  BY DEF PreparedOrdinals, PreparedCommits

-----------------------------------------------------------------------------
(***************************************************************************)
(* The invariant is preserved.                                             *)
(***************************************************************************)
LEMMA EmptyIsContiguous ==
    KeysUnique(EmptyTables) /\ Contiguous(EmptyTables) /\ GapFree(EmptyTables)
  BY EmptyTablesFields DEF KeysUnique, Contiguous, GapFree, Ordinals, Entries, CommitsOf,
       FactEntries

\* An empty database satisfies the invariant.
LEMMA InitPathInv ==
    Init => PathInv
  BY EmptyIsContiguous DEF Init, PathInv, ViewInv, TablesInv, PreparedInv, RangesInv, InsertedInv

\* Where no transaction has written, only the committed tables matter.
LEMMA QuietPathInv ==
    ASSUME PathInv, db' = db, work' = db,
           pc' \in {"idle", "through", "lookup", "index", "commit", "publish", "reply"},
           pc' \in {"idle", "through", "lookup"} => facts' = << >>
    PROVE  PathInv'
  <1>1. ViewInv' /\ TablesInv'
    BY DEF PathInv, ViewInv, TablesInv
  <1>2. PreparedInv' /\ RangesInv' /\ InsertedInv'
    BY DEF PreparedInv, RangesInv, InsertedInv
  <1> QED
    BY <1>1, <1>2 DEF PathInv

\* Rolling back restores the invariant of the committed tables.
LEMMA FailPathInv ==
    ASSUME PathInv, NEW status, Fail(status)
    PROVE  PathInv'
  BY QuietPathInv DEF Fail

\* So does forgetting the call, on return or in a crash.
LEMMA ForgetPathInv ==
    ASSUME PathInv, Forget, db' = db, work' = db
    PROVE  PathInv'
  BY QuietPathInv DEF Forget

\* Taking the mutex changes no table.
LEMMA BeginPathInv ==
    ASSUME PathInv, Begin
    PROVE  PathInv'
  <1>1. pc = "idle" /\ work = db /\ facts = << >>
    BY DEF Begin, BeginAppend, BeginPublish, RefuseCaller, PathInv, ViewInv, PreparedInv
  <1> QED
    BY <1>1, QuietPathInv DEF Begin, BeginAppend, BeginPublish, RefuseCaller, scratch

\* A cancelled context rolls the transaction back under the call.
LEMMA CancelPathInv ==
    ASSUME TypeOK, PathInv, Cancel
    PROVE  PathInv'
  <1>1. ViewInv' /\ TablesInv' /\ InsertedInv'
    BY DEF PathInv, Cancel, ViewInv, TablesInv, InsertedInv
  <1>2. PreparedInv'
    BY DEF PathInv, Cancel, PreparedInv, PreparedOrdinals, PreparedCommits
  <1>3. RangesInv'
    <2> SUFFICES ASSUME pc' \in {"witness", "fact"} PROVE RangesInv'
      BY DEF RangesInv
    <2>1. pc \in {"witness", "fact"} /\ work' = db /\ db' = db
      BY DEF Cancel
    <2>2. \A p \in Paths : db.next[p] >= db.next[p]
      BY DEF TypeOK, TablesTypeOK
    <2> QED
      BY <2>1, <2>2 DEF PathInv, RangesInv, Cancel, FactOwners
  <1> QED
    BY <1>1, <1>2, <1>3 DEF PathInv

\* Staging starts from the counters of the committed tables.
LEMMA StartStagingPathInv ==
    ASSUME TypeOK, PathInv, StartStaging
    PROVE  PathInv'
  <1>1. /\ work = db /\ work' = db /\ db' = db
        /\ facts = << >> /\ facts' = << >>
        /\ staged' = db.next /\ pc' = "stage"
    BY DEF StartStaging, PathInv, ViewInv, PreparedInv
  <1>2. ViewInv' /\ TablesInv' /\ RangesInv' /\ InsertedInv'
    BY <1>1 DEF PathInv, ViewInv, TablesInv, RangesInv, InsertedInv
  <1>3. \A p \in Paths : db.next[p] \in Nat
    BY DEF TypeOK, TablesTypeOK
  <1>4. db.commitSeq \in Nat
    BY DEF TypeOK, TablesTypeOK
  <1>5. Len(facts') = 0
    BY <1>1
  <1>6. /\ \A p \in Paths : PreparedOrdinals(facts, Len(facts), p)' = {}
        /\ PreparedCommits(facts, Len(facts))' = {}
    BY <1>5 DEF PreparedOrdinals, PreparedCommits
  <1>7. \A p \in Paths : staged'[p] >= db'.next[p]
    BY <1>1, <1>3
  <1>8. \A p \in Paths : db'.next[p] .. staged'[p] - 1 = {}
    BY <1>1, <1>3
  <1>9. db'.commitSeq .. db'.commitSeq + Len(facts') - 1 = {}
    BY <1>1, <1>4, <1>5
  <1>10. PreparedInv'
    BY <1>1, <1>6, <1>7, <1>8, <1>9 DEF PreparedInv
  <1> QED
    BY <1>2, <1>10 DEF PathInv

\* A staged draft takes the next ordinal of its path and the next commit receipt.
LEMMA StageDraftPathInv ==
    ASSUME TypeOK, PathInv, StageDraft
    PROVE  PathInv'
  <1> DEFINE o == GroupOf(batch, at).trace_owner_id
             f == PreparedFact(at)
             n == Len(facts)
             m == n + 1
             fs == facts'
  <1>1. /\ o \in Paths /\ n \in Nat
        /\ \A p \in Paths : staged[p] \in Nat /\ db.next[p] \in Nat
        /\ db.commitSeq \in Nat
    BY AppendOverRange DEF TypeOK, TablesTypeOK, BatchTypeOK, StageDraft
  <1>2. /\ work = db /\ work' = db /\ db' = db /\ pc = "stage" /\ pc' = "stage"
        /\ facts' = Append(facts, f)
        /\ staged' = [staged EXCEPT ![o] = @ + 1]
    BY DEF StageDraft, PathInv, ViewInv
  <1>3. /\ f.trace_owner_id = o /\ f.owner_ordinal = staged[o]
        /\ f.commit = db.commitSeq + n
    BY <1>2, PreparedFactFields
  <1> HIDE DEF o, f
  <1>4. /\ Len(fs) = m
        /\ \A i \in 1 .. n : fs[i] = facts[i]
        /\ fs[m] = f
    BY <1>2, AppendOverRange DEF TypeOK
  <1>5. fs # << >>
    BY <1>1, <1>4
  <1>6. /\ \A p \in Paths : /\ staged[p] >= db.next[p]
                            /\ PreparedOrdinals(facts, n, p) = db.next[p] .. staged[p] - 1
        /\ PreparedCommits(facts, n) = db.commitSeq .. db.commitSeq + n - 1
    BY <1>2 DEF PathInv, PreparedInv
  <1>7. m = n + 1
    OBVIOUS
  <1> HIDE DEF n, m, fs
  <1>8. /\ \A p \in Paths : PreparedOrdinals(fs, n, p) = PreparedOrdinals(facts, n, p)
        /\ PreparedCommits(fs, n) = PreparedCommits(facts, n)
    BY <1>1, <1>4, SamePrepared
  <1>9. /\ PreparedOrdinals(fs, m, o) = PreparedOrdinals(fs, n, o) \cup {staged[o]}
        /\ \A p \in Paths : p # o => PreparedOrdinals(fs, m, p) = PreparedOrdinals(fs, n, p)
        /\ PreparedCommits(fs, m) = PreparedCommits(fs, n) \cup {db.commitSeq + n}
    <2>1. n \in Nat /\ m = n + 1 /\ o = fs[m].trace_owner_id
      BY <1>1, <1>3, <1>4, <1>7
    <2>2. PreparedOrdinals(fs, m, o) = PreparedOrdinals(fs, n, o) \cup {fs[m].owner_ordinal}
      BY <2>1, OneMorePrepared
    <2>3. \A p \in Paths : p # o => PreparedOrdinals(fs, m, p) = PreparedOrdinals(fs, n, p)
      BY <2>1, OneMorePrepared
    <2>4. PreparedCommits(fs, m) = PreparedCommits(fs, n) \cup {fs[m].commit}
      BY <2>1, OneMorePrepared
    <2> QED
      BY <1>3, <1>4, <2>2, <2>3, <2>4
  <1>10. ASSUME NEW p \in Paths
         PROVE  /\ staged'[p] >= db.next[p]
                /\ PreparedOrdinals(fs, m, p) = db.next[p] .. staged'[p] - 1
    <2>1. CASE p = o
      <3>1. staged'[p] = staged[p] + 1
        BY <1>1, <1>2, <2>1 DEF TypeOK
      <3>2. PreparedOrdinals(fs, m, p) = (db.next[p] .. staged[p] - 1) \cup {staged[p]}
        BY <1>6, <1>8, <1>9, <2>1
      <3>3. (db.next[p] .. staged[p] - 1) \cup {staged[p]} = db.next[p] .. (staged[p] + 1) - 1
        BY <1>1, <1>6
      <3> QED
        BY <1>1, <1>6, <3>1, <3>2, <3>3
    <2>2. CASE p # o
      <3>1. staged'[p] = staged[p]
        BY <1>1, <1>2, <2>2 DEF TypeOK
      <3> QED
        BY <1>6, <1>8, <1>9, <2>2, <3>1
    <2> QED
      BY <2>1, <2>2
  <1>11. PreparedCommits(fs, m) = db.commitSeq .. db.commitSeq + m - 1
    <2>1. PreparedCommits(fs, m) = (db.commitSeq .. db.commitSeq + n - 1) \cup {db.commitSeq + n}
      BY <1>6, <1>8, <1>9
    <2> DEFINE q == db.commitSeq + n
    <2>2. PreparedCommits(fs, m) = (db.commitSeq .. q - 1) \cup {q}
      BY <1>1, <2>1
    <2>3. q \in Nat /\ db.commitSeq <= q /\ db.commitSeq + m - 1 = q
      BY <1>1, <1>7
    <2> HIDE DEF q
    <2>4. (db.commitSeq .. q - 1) \cup {q} = db.commitSeq .. q
      BY <1>1, <2>3
    <2> QED
      BY <2>2, <2>3, <2>4
  <1>12. fs[m].commit = db.commitSeq + m - 1
    BY <1>1, <1>3, <1>4, <1>7
  <1>13. PreparedInv'
    BY <1>2, <1>4, <1>5, <1>10, <1>11, <1>12 DEF PreparedInv, fs
  <1>14. ViewInv' /\ TablesInv' /\ RangesInv' /\ InsertedInv'
    BY <1>2 DEF PathInv, ViewInv, TablesInv, RangesInv, InsertedInv
  <1> QED
    BY <1>13, <1>14 DEF PathInv

\* The receipt names the staged ranges; intents and contexts are no path entries.
LEMMA RetainIntentPathInv ==
    ASSUME TypeOK, PathInv, RetainIntent
    PROVE  PathInv'
  <1>1. /\ work = db /\ db' = db /\ pc = "stage" /\ pc' = "witness" /\ ctxDone' = FALSE
        /\ facts' = facts /\ staged' = staged
        /\ DOMAIN work = TableNames
    BY EmptyTablesFields DEF RetainIntent, PathInv, ViewInv, TypeOK, TablesTypeOK
  <1>2. /\ work'.paths = db.paths
        /\ work'.next = db.next
        /\ work'.commitSeq = db.commitSeq
    BY <1>1 DEF RetainIntent, TableNames
  <1>3. KeysUnique(work') /\ Contiguous(work') /\ GapFree(work')
    BY <1>2, SamePaths DEF PathInv, TablesInv, Contiguous, GapFree
  <1>4. ViewInv' /\ TablesInv' /\ InsertedInv'
    BY <1>1, <1>3 DEF PathInv, ViewInv, TablesInv, InsertedInv
  <1>5. PreparedInv'
    BY <1>1 DEF PathInv, PreparedInv, PreparedOrdinals, PreparedCommits
  <1>6. receipt'.owner_ranges = [o \in FactOwners |-> <<work.next[o], staged[o] - 1>>]
    BY DEF RetainIntent, PreparedReceipt
  <1>7. FactOwners' = FactOwners
    BY <1>1 DEF FactOwners
  <1>8. \A p \in Paths : work'.next[p] >= db.next[p] /\ work'.next[p] = db.next[p]
    BY <1>2 DEF TypeOK, TablesTypeOK
  <1>9. RangesInv'
    BY <1>1, <1>2, <1>6, <1>7, <1>8 DEF RangesInv
  <1> QED
    BY <1>4, <1>5, <1>9 DEF PathInv

\* Steps between the inserts that change no table.
LEMMA KeepPathInv ==
    ASSUME TypeOK, PathInv, KeepWitness \/ EndWitnesses
    PROVE  PathInv'
  <1>1. /\ db' = db /\ work' = work /\ pc = "witness" /\ ~ctxDone /\ ctxDone' = ctxDone
        /\ facts' = facts /\ staged' = staged /\ receipt' = receipt
        /\ pc' = "witness" \/ (pc' = "fact" /\ at' = 1)
    BY DEF KeepWitness, EndWitnesses
  <1>2. ViewInv' /\ TablesInv'
    BY <1>1 DEF PathInv, ViewInv, TablesInv
  <1>3. PreparedInv' /\ RangesInv'
    BY <1>1 DEF PathInv, PreparedInv, RangesInv, PreparedOrdinals, PreparedCommits, FactOwners
  <1>4. InsertedInv'
    <2> SUFFICES ASSUME pc' = "fact" PROVE InsertedInv'
      BY DEF InsertedInv
    <2>1. at' = 1 /\ at' - 1 = 0 /\ Len(facts') \in Nat
      BY <1>1, AppendOverRange DEF TypeOK
    <2>2. Contiguous(work) /\ GapFree(work)
      BY <1>1 DEF PathInv, TablesInv
    <2>3. /\ \A p \in Paths : PreparedOrdinals(facts', at' - 1, p) = {}
          /\ PreparedCommits(facts', at' - 1) = {}
      BY <2>1, NonePrepared
    <2>4. /\ \A p \in Paths : Ordinals(work', p) = 0 .. work'.next[p] - 1
          /\ CommitsOf(work') = 0 .. work'.commitSeq - 1
      BY <1>1, <2>2 DEF Contiguous, GapFree
    <2>5. at' \in 1 .. Len(facts') + 1
      BY <2>1
    <2>6. \A p \in Paths :
            /\ Ordinals(work', p) = (0 .. work'.next[p] - 1) \cup PreparedOrdinals(facts', at' - 1, p)
            /\ \A n \in PreparedOrdinals(facts', at' - 1, p) : n >= work'.next[p]
      BY <2>3, <2>4
    <2>7. CommitsOf(work') = (0 .. work'.commitSeq - 1) \cup PreparedCommits(facts', at' - 1)
      BY <2>3, <2>4
    <2> QED
      BY <2>5, <2>6, <2>7 DEF InsertedInv
  <1> QED
    BY <1>2, <1>3, <1>4 DEF PathInv

\* A witness takes the next ordinal of its path and moves that counter with it.
LEMMA InsertWitnessPathInv ==
    ASSUME TypeOK, PathInv, InsertWitness
    PROVE  PathInv'
  <1> DEFINE e == WitnessEntry(Plan(at))
  <1>1. /\ db' = db /\ pc = "witness" /\ pc' = "witness" /\ ~ctxDone /\ ctxDone' = ctxDone
        /\ facts' = facts /\ staged' = staged /\ receipt' = receipt
        /\ KeysFree(work, e)
    BY DEF InsertWitness
  <1>2. /\ work'.next = [work.next EXCEPT ![W] = @ + 1]
        /\ work'.commitSeq = work.commitSeq
    BY InsertWitnessTables DEF W
  <1>3. /\ e.path_ref = W /\ e.path_ordinal = work.next[W]
        /\ e.commit_receipt = <<"witness", Plan(at).record_id>>
    BY EntryFields, WitnessFactFields DEF WitnessEntry, W
  <1>4. e.commit_receipt[1] # "commit"
    BY <1>3
  <1>5. work'.paths = work.paths \cup {e}
    BY InsertWitnessTables
  <1> HIDE DEF e
  <1>6. /\ W \in Paths
        /\ \A p \in Paths : work.next[p] \in Nat /\ db.next[p] \in Nat
        /\ work.next \in [Paths -> Nat]
    BY DEF TypeOK, TablesTypeOK, Paths, W
  <1>7. KeysUnique(work) /\ Contiguous(work) /\ GapFree(work)
    BY <1>1 DEF PathInv, TablesInv
  <1>8. KeysUnique(work')
    BY <1>1, <1>5, <1>7, OneMoreEntry
  <1>9. CommitsOf(work') = CommitsOf(work)
    BY <1>5, <1>4, OneMoreEntry
  <1>10. GapFree(work')
    BY <1>2, <1>7, <1>9 DEF GapFree
  <1>11. Ordinals(work', W) = Ordinals(work, W) \cup {work.next[W]}
    BY <1>5, <1>3 DEF Ordinals, Entries
  <1>12. \A p \in Paths : p # W => Ordinals(work', p) = Ordinals(work, p)
    BY <1>5, <1>3, OneMoreEntry
  <1>13. ASSUME NEW p \in Paths
         PROVE  Ordinals(work', p) = 0 .. work'.next[p] - 1
    <2>1. Ordinals(work, p) = 0 .. work.next[p] - 1
      BY <1>7 DEF Contiguous
    <2>2. CASE p = W
      <3>1. work'.next[p] = work.next[p] + 1
        BY <1>2, <1>6, <2>2
      <3>2. (0 .. work.next[p] - 1) \cup {work.next[p]} = 0 .. (work.next[p] + 1) - 1
        BY <1>6
      <3> QED
        BY <1>11, <2>1, <2>2, <3>1, <3>2
    <2>3. CASE p # W
      <3>1. work'.next[p] = work.next[p]
        BY <1>2, <1>6, <2>3
      <3> QED
        BY <1>12, <2>1, <2>3, <3>1
    <2> QED
      BY <2>2, <2>3
  <1>14. Contiguous(work')
    BY <1>13 DEF Contiguous
  <1>15. ViewInv' /\ TablesInv' /\ InsertedInv'
    BY <1>1, <1>8, <1>10, <1>14 DEF PathInv, ViewInv, TablesInv, InsertedInv
  <1>16. PreparedInv'
    BY <1>1 DEF PathInv, PreparedInv, PreparedOrdinals, PreparedCommits
  <1>17. \A p \in Paths : /\ work'.next[p] >= db.next[p]
                          /\ p # W => work'.next[p] = db.next[p]
    BY <1>1, <1>2, <1>6 DEF PathInv, RangesInv
  <1>18. RangesInv'
    BY <1>1, <1>2, <1>17 DEF PathInv, RangesInv, FactOwners
  <1> QED
    BY <1>15, <1>16, <1>18 DEF PathInv

\* A fact whose key is free lies beyond the counter of its path.
LEMMA InsertFactPathInv ==
    ASSUME TypeOK, PathInv, InsertFact
    PROVE  PathInv'
  <1> DEFINE f == facts[at]
             e == Entry(f, <<"commit", f.commit>>)
             n == at - 1
             o == f.trace_owner_id
             b == work.next[o]
  <1>1. /\ db' = db /\ pc = "fact" /\ pc' = "fact" /\ ~ctxDone /\ ctxDone' = ctxDone
        /\ facts' = facts /\ staged' = staged /\ receipt' = receipt
        /\ at \in DOMAIN facts /\ at' = at + 1
        /\ KeysFree(work, e)
    BY DEF InsertFact, FactInserts
  <1>2. /\ work'.paths = work.paths \cup {e}
        /\ work'.next = work.next
        /\ work'.commitSeq = work.commitSeq
    BY InsertFactTables
  <1>3. /\ e.path_ref = o /\ e.path_ordinal = f.owner_ordinal
        /\ e.commit_receipt[1] = "commit" /\ e.commit_receipt[2] = f.commit
    BY EntryFields
  <1>4. /\ at \in 1 .. Len(facts) /\ Len(facts) \in Nat
        /\ FactTypeOK(f)
        /\ work.next \in [Paths -> Nat]
    BY <1>1, AppendOverRange DEF TypeOK, TablesTypeOK
  <1>5. n \in Nat /\ at = n + 1 /\ at' = at + 1 /\ at' - 1 = at
    BY <1>1, <1>4
  <1>6. o \in Paths /\ f.owner_ordinal \in Nat /\ b \in Nat
    BY <1>4 DEF FactTypeOK
  <1>7. f = facts[at]
    OBVIOUS
  <1> HIDE DEF f, e, n
  <1>8. /\ at \in 1 .. Len(facts) + 1
        /\ \A p \in Paths :
             /\ Ordinals(work, p) = (0 .. work.next[p] - 1) \cup PreparedOrdinals(facts, n, p)
             /\ \A k \in PreparedOrdinals(facts, n, p) : k >= work.next[p]
        /\ CommitsOf(work) = (0 .. work.commitSeq - 1) \cup PreparedCommits(facts, n)
    BY <1>1 DEF PathInv, InsertedInv, n
  <1>9. f.owner_ordinal >= b
    <2>1. f.owner_ordinal \notin Ordinals(work, o)
      BY <1>1, <1>3, FreeKeyIsNew
    <2>2. f.owner_ordinal \notin 0 .. b - 1
      BY <1>6, <1>8, <2>1
    <2> QED
      BY <1>6, <2>2
  <1>10. PreparedOrdinals(facts, at, o) = PreparedOrdinals(facts, n, o) \cup {f.owner_ordinal}
    BY <1>5, <1>7, OneMorePrepared
  <1>11. \A p \in Paths : p # o => PreparedOrdinals(facts, at, p) = PreparedOrdinals(facts, n, p)
    BY <1>5, <1>7, OneMorePrepared
  <1>12. PreparedCommits(facts, at) = PreparedCommits(facts, n) \cup {f.commit}
    BY <1>5, <1>7, OneMorePrepared
  <1>13. Ordinals(work', o) = Ordinals(work, o) \cup {f.owner_ordinal}
    BY <1>2, <1>3, OneMoreEntry
  <1>14. \A p \in Paths : p # o => Ordinals(work', p) = Ordinals(work, p)
    BY <1>2, <1>3, OneMoreEntry
  <1>15. CommitsOf(work') = CommitsOf(work) \cup {f.commit}
    BY <1>2, <1>3, OneMoreEntry
  <1> HIDE DEF o, b
  <1>16. ASSUME NEW p \in Paths
         PROVE  /\ Ordinals(work', p) = (0 .. work.next[p] - 1) \cup PreparedOrdinals(facts, at, p)
                /\ \A k \in PreparedOrdinals(facts, at, p) : k >= work.next[p]
    <2>1. CASE p = o
      BY <1>8, <1>9, <1>10, <1>13, <2>1 DEF b
    <2>2. CASE p # o
      BY <1>8, <1>11, <1>14, <2>2
    <2> QED
      BY <2>1, <2>2
  <1>17. CommitsOf(work') = (0 .. work.commitSeq - 1) \cup PreparedCommits(facts, at)
    BY <1>8, <1>12, <1>15
  <1>18. at' \in 1 .. Len(facts) + 1
    BY <1>4, <1>5
  <1>19. InsertedInv'
    BY <1>1, <1>2, <1>5, <1>16, <1>17, <1>18 DEF InsertedInv
  <1>20. KeysUnique(work')
    BY <1>1, <1>2, OneMoreEntry DEF PathInv, TablesInv
  <1>21. ViewInv' /\ TablesInv'
    BY <1>1, <1>20 DEF PathInv, ViewInv, TablesInv
  <1>22. PreparedInv'
    BY <1>1 DEF PathInv, PreparedInv
  <1>23. RangesInv'
    BY <1>1, <1>2 DEF PathInv, RangesInv, FactOwners
  <1> QED
    BY <1>19, <1>21, <1>22, <1>23 DEF PathInv

\* The counters move to where the inserted facts end.  A batch with facts on the
\* witness path gets here only if it inserted no witness: its first fact there has
\* the ordinal the counter had when the batch was staged, and that lies beyond the
\* counter now.
LEMMA AdvanceCountersPathInv ==
    ASSUME TypeOK, PathInv, AdvanceCounters
    PROVE  PathInv'
  <1> DEFINE n == Len(facts)
  <1>1. /\ db' = db /\ pc = "fact" /\ pc' \in {"index", "commit"}
        /\ ~ctxDone /\ ctxDone' = ctxDone /\ at \notin DOMAIN facts
    BY DEF AdvanceCounters, scratch
  <1>2. /\ n \in Nat /\ DOMAIN facts = 1 .. n
        /\ work.next \in [Paths -> Nat] /\ db.next \in [Paths -> Nat]
        /\ staged \in [Paths -> Nat]
        /\ db.commitSeq \in Nat
    BY AppendOverRange DEF TypeOK, TablesTypeOK
  <1>3. at - 1 = n
    BY <1>1, <1>2 DEF PathInv, InsertedInv
  <1>4. /\ \A p \in Paths :
             /\ Ordinals(work, p) = (0 .. work.next[p] - 1) \cup PreparedOrdinals(facts, n, p)
             /\ \A k \in PreparedOrdinals(facts, n, p) : k >= work.next[p]
        /\ CommitsOf(work) = (0 .. work.commitSeq - 1) \cup PreparedCommits(facts, n)
    BY <1>1, <1>3 DEF PathInv, InsertedInv
  <1>5. /\ \A p \in Paths :
             /\ staged[p] >= db.next[p]
             /\ PreparedOrdinals(facts, n, p) = db.next[p] .. staged[p] - 1
        /\ PreparedCommits(facts, n) = db.commitSeq .. db.commitSeq + n - 1
        /\ facts # << >> => facts[n].commit = db.commitSeq + n - 1
    BY <1>1 DEF PathInv, PreparedInv
  <1>6. /\ receipt.owner_ranges = [o \in FactOwners |-> <<db.next[o], staged[o] - 1>>]
        /\ work.commitSeq = db.commitSeq
        /\ \A p \in Paths : work.next[p] >= db.next[p] /\ (p # W => work.next[p] = db.next[p])
    BY <1>1 DEF PathInv, RangesInv
  <1>7. facts = << >> <=> n = 0
    BY <1>2 DEF TypeOK
  <1> HIDE DEF n
  <1>8. \A p \in Paths : p \notin FactOwners => PreparedOrdinals(facts, n, p) = {}
    BY <1>2 DEF PreparedOrdinals, FactOwners
  <1>9. \A p \in FactOwners : PreparedOrdinals(facts, n, p) # {}
    BY <1>2 DEF PreparedOrdinals, FactOwners
  <1>10. /\ work'.paths = work.paths
         /\ work'.commitSeq = nextCommitSeq
         /\ work'.next = [p \in Paths |-> IF p \in DOMAIN receipt.owner_ranges
                                          THEN receipt.owner_ranges[p][2] + 1
                                          ELSE work.next[p]]
    BY AdvanceCountersTables
  <1>11. \A p \in Paths :
           work'.next[p] = IF p \in FactOwners THEN staged[p] ELSE work.next[p]
    BY <1>2, <1>6, <1>10
  <1>12. ASSUME NEW p \in Paths
         PROVE  Ordinals(work, p) = 0 .. work'.next[p] - 1
    <2>1. /\ work.next[p] \in Nat /\ db.next[p] \in Nat /\ staged[p] \in Nat
          /\ db.next[p] <= work.next[p] /\ db.next[p] <= staged[p]
      BY <1>2, <1>5, <1>6
    <2>2. CASE p \notin FactOwners
      BY <1>4, <1>8, <1>11, <2>2
    <2>3. CASE p \in FactOwners
      <3>1. db.next[p] \in PreparedOrdinals(facts, n, p)
        BY <1>5, <1>9, <2>1, <2>3
      <3>2. work.next[p] = db.next[p]
        BY <1>4, <2>1, <3>1
      <3>3. Ordinals(work, p) = (0 .. db.next[p] - 1) \cup (db.next[p] .. staged[p] - 1)
        BY <1>4, <1>5, <3>2
      <3>4. (0 .. db.next[p] - 1) \cup (db.next[p] .. staged[p] - 1) = 0 .. staged[p] - 1
        BY <2>1
      <3> QED
        BY <1>11, <2>3, <3>3, <3>4
    <2> QED
      BY <2>2, <2>3
  <1>13. nextCommitSeq = db.commitSeq + n
    <2>1. CASE facts = << >>
      BY <1>2, <1>6, <1>7, <2>1 DEF nextCommitSeq
    <2>2. CASE facts # << >>
      <3>1. nextCommitSeq = facts[n].commit + 1
        BY <2>2 DEF nextCommitSeq, n
      <3> QED
        BY <1>2, <1>5, <2>2, <3>1
    <2> QED
      BY <2>1, <2>2
  <1>14. CommitsOf(work) = 0 .. nextCommitSeq - 1
    <2>1. (0 .. db.commitSeq - 1) \cup (db.commitSeq .. db.commitSeq + n - 1)
            = 0 .. (db.commitSeq + n) - 1
      BY <1>2
    <2> QED
      BY <1>4, <1>5, <1>6, <1>13, <2>1
  <1>15. KeysUnique(work') /\ Contiguous(work') /\ GapFree(work')
    <2>1. KeysUnique(work)
      BY DEF PathInv, TablesInv
    <2> QED
      BY <1>10, <1>12, <1>14, <2>1, SamePaths DEF Contiguous, GapFree
  <1>16. ViewInv' /\ TablesInv' /\ PreparedInv' /\ RangesInv' /\ InsertedInv'
    BY <1>1, <1>15 DEF PathInv, ViewInv, TablesInv, PreparedInv, RangesInv, InsertedInv
  <1> QED
    BY <1>16 DEF PathInv

\* COMMIT makes the view the committed tables; after the inserts the two may differ.
LEMMA CommitTxPathInv ==
    ASSUME PathInv, CommitTx
    PROVE  PathInv'
  <1>1. /\ db' = work /\ work' = work /\ pc = "commit" /\ pc' \in {"publish", "reply"}
        /\ ctxDone' = ctxDone
    BY DEF CommitTx
  <1>2. ViewInv' /\ TablesInv' /\ PreparedInv' /\ RangesInv' /\ InsertedInv'
    BY <1>1 DEF PathInv, ViewInv, TablesInv, PreparedInv, RangesInv, InsertedInv
  <1> QED
    BY <1>2 DEF PathInv

\* The frontier index is no path entry either.
LEMMA IndexPathInv ==
    ASSUME TypeOK, PathInv, IndexFrontier \/ KeepFrontier
    PROVE  PathInv'
  <1>1. /\ db' = db /\ pc = "index" /\ pc' = "commit" /\ ctxDone' = ctxDone /\ ~ctxDone
        /\ work'.paths = work.paths
        /\ work'.next = work.next
        /\ work'.commitSeq = work.commitSeq
    BY EmptyTablesFields
       DEF IndexFrontier, KeepFrontier, scratch, TypeOK, TablesTypeOK, TableNames
  <1>2. KeysUnique(work') /\ Contiguous(work') /\ GapFree(work')
    BY <1>1, SamePaths DEF PathInv, TablesInv, Contiguous, GapFree
  <1>3. ViewInv' /\ TablesInv' /\ PreparedInv' /\ RangesInv' /\ InsertedInv'
    BY <1>1, <1>2 DEF PathInv, ViewInv, TablesInv, PreparedInv, RangesInv, InsertedInv
  <1> QED
    BY <1>3 DEF PathInv

\* Every step of a call preserves the invariant.
LEMMA StepPathInv ==
    ASSUME TypeOK, PathInv, Step
    PROVE  PathInv'
  <1>1. CASE ResolveThrough
    <2>1. work = db /\ facts = << >>
      BY <1>1 DEF ResolveThrough, PathInv, ViewInv, PreparedInv
    <2> QED
      BY <1>1, <2>1, QuietPathInv DEF ResolveThrough
  <1>2. CASE AnswerRetry
    <2>1. work = db
      BY <1>2 DEF AnswerRetry, PathInv, ViewInv
    <2> QED
      BY <1>2, <2>1, QuietPathInv DEF AnswerRetry
  <1>3. CASE StartStaging
    BY <1>3, StartStagingPathInv
  <1>4. CASE StageDraft
    BY <1>4, StageDraftPathInv
  <1>5. CASE RetainIntent
    BY <1>5, RetainIntentPathInv
  <1>6. CASE KeepWitness \/ EndWitnesses
    BY <1>6, KeepPathInv
  <1>7. CASE InsertWitness
    BY <1>7, InsertWitnessPathInv
  <1>8. CASE InsertFact
    BY <1>8, InsertFactPathInv
  <1>9. CASE AdvanceCounters
    BY <1>9, AdvanceCountersPathInv
  <1>10. CASE IndexFrontier \/ KeepFrontier
    BY <1>10, IndexPathInv
  <1>11. CASE CommitTx
    BY <1>11, CommitTxPathInv
  <1>12. CASE PublishEvent \/ EndPublish
    <2>1. work = db
      BY <1>12 DEF PublishEvent, EndPublish, PathInv, ViewInv
    <2> QED
      BY <1>12, <2>1, QuietPathInv DEF PublishEvent, EndPublish
  <1>13. CASE Return
    <2>1. work = db
      BY <1>13 DEF Return, PathInv, ViewInv
    <2> QED
      BY <1>13, <2>1, ForgetPathInv DEF Return
  <1>14. CASE Errors
    BY <1>14, ErrorsFail, FailPathInv
  <1> QED
    BY <1>1, <1>2, <1>3, <1>4, <1>5, <1>6, <1>7, <1>8, <1>9, <1>10, <1>11, <1>12,
       <1>13, <1>14 DEF Step, Errors

\* Every step of the store preserves the invariant.
LEMMA NextPathInv ==
    ASSUME TypeOK, PathInv, [Next]_vars
    PROVE  PathInv'
  <1>1. CASE Begin
    BY <1>1, BeginPathInv
  <1>2. CASE Step
    BY <1>2, StepPathInv
  <1>3. CASE Cancel
    BY <1>3, CancelPathInv
  <1>4. CASE Crash
    BY <1>4, ForgetPathInv DEF Crash
  <1>5. CASE UNCHANGED vars
    BY <1>5 DEF vars, scratch, PathInv, ViewInv, TablesInv, PreparedInv, RangesInv, InsertedInv,
                PreparedOrdinals, PreparedCommits, FactOwners
  <1> QED
    BY <1>1, <1>2, <1>3, <1>4, <1>5 DEF Next

\* At every statement of Append and PublishFrontier the path entries are those the
\* counters know and the facts inserted so far.
THEOREM PathInvHolds ==
    Spec => []PathInv
  <1>1. Init => PathInv
    BY InitPathInv
  <1>2. TypeOK /\ PathInv /\ [Next]_vars => PathInv'
    BY NextPathInv
  <1> QED
    BY <1>1, <1>2, TypeCorrect, PTL DEF Spec

-----------------------------------------------------------------------------
(***************************************************************************)
(* The laws.                                                               *)
(***************************************************************************)
\* Whatever the batches, however the calls interleave with cancellations and
\* crashes, and even when a batch puts facts on the witnesses' own path, an owner
\* path is 0, 1, ... up to its counter, each ordinal once.
THEOREM PathsStayContiguous ==
    Spec => []PathsContiguous
  <1>1. PathInv => PathsContiguous
    BY DEF PathInv, TablesInv, Contiguous, KeysUnique, PathsContiguous, Entries
  <1> QED
    BY <1>1, PathInvHolds, PTL

\* Commit receipts number the retained facts of all paths 0, 1, ... each once: what
\* the store allocates before it inserts is used entirely or not at all.
THEOREM CommitNumbersStayGapFree ==
    Spec => []CommitNumbersGapFree
  <1>1. ASSUME PathInv, TypeOK
        PROVE  CommitNumbersGapFree
    <2>1. ASSUME NEW e \in FactEntries(db), NEW f \in FactEntries(db), Commit(e) = Commit(f)
          PROVE  e = f
      <3>1. e \in db.paths /\ f \in db.paths /\ e.commit_receipt[1] = f.commit_receipt[1]
        BY DEF FactEntries
      <3>2. e.commit_receipt = f.commit_receipt
        BY <1>1, <2>1, <3>1 DEF TypeOK, TablesTypeOK, EntryTypeOK, Commit
      <3> QED
        BY <1>1, <3>1, <3>2 DEF PathInv, TablesInv, KeysUnique
    <2> QED
      BY <1>1, <2>1 DEF PathInv, TablesInv, GapFree, CommitsOf, CommitNumbersGapFree
  <1> QED
    BY <1>1, PathInvHolds, TypeCorrect, PTL

-----------------------------------------------------------------------------
(***************************************************************************)
(* Nothing committed is ever changed or removed, the causal graph is sound *)
(* and every record leads to the root witness.                             *)
(*                                                                         *)
(* COMMIT is the only step that changes the committed tables, and it puts  *)
(* the transaction's view in their place; so what has to be invariant is   *)
(* that the view holds everything that is committed.  The statement that   *)
(* might overwrite a row is the insert of the intent: what keeps it from   *)
(* it is that the intent was looked up in the same transaction before the  *)
(* staging began.  That the counters never go back follows from the paths  *)
(* that grow and are contiguous.                                           *)
(***************************************************************************)

\* The rows of one table are rows of another, the same ones.
Grown(t, u) ==
    /\ t.paths \subseteq u.paths
    /\ t.edges \subseteq u.edges
    /\ Extends(t.records, u.records)
    /\ Extends(t.contexts, u.contexts)
    /\ Extends(t.intents, u.intents)
    /\ Extends(t.frontiers, u.frontiers)

\* A batch that is being staged is one whose intent is not retained.
FreshIntent == pc = "stage" => batch.append_intent_id \notin DOMAIN db.intents

GrowthInv == Grown(db, work) /\ FreshIntent

-----------------------------------------------------------------------------
\* Tables hold their own rows.
LEMMA GrownReflexive ==
    ASSUME NEW t
    PROVE  Grown(t, t)
  BY DEF Grown, Extends

\* What holds all rows of a table that holds all rows of another holds those.
LEMMA GrownTransitive ==
    ASSUME NEW t, NEW u, NEW v, Grown(t, u), Grown(u, v)
    PROVE  Grown(t, v)
  BY DEF Grown, Extends

\* A table with one more row, or with that row as it was.
LEMMA OneMoreRow ==
    ASSUME NEW f, NEW x, NEW y, x \notin DOMAIN f
    PROVE  Extends(f, [z \in DOMAIN f \cup {x} |-> IF z = x THEN y ELSE f[z]])
  BY DEF Extends

\* A fact row is inserted beside what the tables hold.
LEMMA InsertFactRowGrows ==
    ASSUME NEW t, DOMAIN t = TableNames, NEW fact, NEW r
    PROVE  Grown(t, insertFactRow(t, fact, r))
<1> DEFINE u == insertRecordIfMissing(t, fact)
           n == [id \in DOMAIN t.records \cup {fact.record_id} |->
                   IF id = fact.record_id THEN Row(fact) ELSE t.records[id]]
<1>1. DOMAIN u = TableNames /\ Grown(t, u)
  <2>1. CASE fact.record_id \in DOMAIN t.records
    BY <2>1, GrownReflexive DEF insertRecordIfMissing
  <2>2. CASE fact.record_id \notin DOMAIN t.records
    <3>1. Extends(t.records, n)
      BY <2>2, OneMoreRow
    <3>2. u = [t EXCEPT !.records = n, !.edges = @ \cup Edges(fact)]
      BY <2>2 DEF insertRecordIfMissing
    <3> HIDE DEF n, u
    <3>3. /\ DOMAIN u = TableNames
          /\ u.records = n /\ u.edges = t.edges \cup Edges(fact)
          /\ u.paths = t.paths /\ u.contexts = t.contexts
          /\ u.intents = t.intents /\ u.frontiers = t.frontiers
      BY <3>2 DEF TableNames
    <3> QED
      BY <3>1, <3>3 DEF Grown, Extends
  <2> QED
    BY <2>1, <2>2
<1>2. insertFactRow(t, fact, r) = [u EXCEPT !.paths = @ \cup {Entry(fact, r)}]
  BY DEF insertFactRow
<1> HIDE DEF u
<1>3. Grown(u, insertFactRow(t, fact, r))
  BY <1>1, <1>2 DEF Grown, Extends, TableNames
<1> QED
  BY <1>1, <1>3, GrownTransitive

\* The counters are no rows.
LEMMA CountersGrow ==
    ASSUME NEW t, NEW u, DOMAIN t = TableNames, NEW n, u = [t EXCEPT !.next = n]
    PROVE  Grown(t, u)
  BY DEF Grown, Extends, TableNames

\* The intent and the new contexts are rows that were not there.
LEMMA RetainIntentGrows ==
    ASSUME TypeOK, ViewInv, GrowthInv, RetainIntent
    PROVE  Grown(work, work')
<1>1. work = db /\ batch.append_intent_id \notin DOMAIN work.intents
  BY DEF RetainIntent, ViewInv, GrowthInv, FreshIntent
<1>2. DOMAIN work = TableNames
  BY EmptyTablesFields DEF TypeOK, TablesTypeOK
<1>3. Extends(work.intents, WithIntent(work))
  BY <1>1 DEF Extends, WithIntent
<1>4. Extends(work.contexts, WithContexts(work))
  BY DEF Extends, WithContexts
<1>5. work' = [work EXCEPT !.intents = WithIntent(work), !.contexts = WithContexts(work)]
  BY DEF RetainIntent
<1>6. /\ work'.intents = WithIntent(work) /\ work'.contexts = WithContexts(work)
      /\ work'.paths = work.paths /\ work'.edges = work.edges
      /\ work'.records = work.records /\ work'.frontiers = work.frontiers
  BY <1>2, <1>5 DEF TableNames
<1> QED
  BY <1>3, <1>4, <1>6 DEF Grown, Extends

\* A witness, a fact, the counters and a frontier go beside what is there.
LEMMA InsertWitnessGrows ==
    ASSUME TypeOK, InsertWitness
    PROVE  Grown(work, work')
<1> DEFINE t == insertFactRow(work, WitnessFact(Plan(at)), <<"witness", Plan(at).record_id>>)
           n == [t.next EXCEPT ![witnessTraceOwnerID] = @ + 1]
<1>1. DOMAIN work = TableNames
  BY EmptyTablesFields DEF TypeOK, TablesTypeOK
<1>2. Grown(work, t) /\ DOMAIN t = TableNames
  BY <1>1, InsertFactRowGrows, InsertFactRowFields
<1>3. work' = [t EXCEPT !.next = n]
  BY DEF InsertWitness
<1> HIDE DEF t, n
<1> QED
  BY <1>2, <1>3, CountersGrow, GrownTransitive

\* So does a fact.
LEMMA InsertFactGrows ==
    ASSUME TypeOK, InsertFact
    PROVE  Grown(work, work')
<1>1. DOMAIN work = TableNames
  BY EmptyTablesFields DEF TypeOK, TablesTypeOK
<1> QED
  BY <1>1, InsertFactRowGrows DEF InsertFact

\* The counters are set.
LEMMA AdvanceCountersGrows ==
    ASSUME TypeOK, AdvanceCounters
    PROVE  Grown(work, work')
<1>1. DOMAIN work = TableNames
  BY EmptyTablesFields DEF TypeOK, TablesTypeOK
<1> DEFINE n == [p \in Paths |-> IF p \in DOMAIN receipt.owner_ranges
                                 THEN receipt.owner_ranges[p][2] + 1 ELSE work.next[p]]
<1>2. work' = [work EXCEPT !.next = n, !.commitSeq = nextCommitSeq]
  BY DEF AdvanceCounters
<1> HIDE DEF n
<1> QED
  BY <1>1, <1>2 DEF Grown, Extends, TableNames

\* A frontier is indexed only if its id is not.
LEMMA IndexFrontierGrows ==
    ASSUME TypeOK, IndexFrontier
    PROVE  Grown(work, work')
<1> DEFINE f == call.spec.frontier_id
           n == [z \in DOMAIN work.frontiers \cup {f} |->
                   IF z = f THEN FrontierRow ELSE work.frontiers[z]]
<1>1. DOMAIN work = TableNames
  BY EmptyTablesFields DEF TypeOK, TablesTypeOK
<1>2. Extends(work.frontiers, n)
  <2>1. f \notin DOMAIN work.frontiers
    BY DEF IndexFrontier, FrontierKnown
  <2> QED
    BY <2>1 DEF Extends
<1>3. work' = [work EXCEPT !.frontiers = n]
  BY DEF IndexFrontier
<1> HIDE DEF n
<1> QED
  BY <1>1, <1>2, <1>3 DEF Grown, Extends, TableNames

\* The statements that write to the transaction's view.
Writes == RetainIntent \/ InsertWitness \/ InsertFact \/ AdvanceCounters \/ IndexFrontier

\* Each lets the view grow and none begins to stage.
LEMMA WritesGrow ==
    ASSUME TypeOK, ViewInv, GrowthInv, Writes
    PROVE  GrowthInv'
<1>1. Grown(work, work')
  BY RetainIntentGrows, InsertWitnessGrows, InsertFactGrows, AdvanceCountersGrows,
     IndexFrontierGrows DEF Writes
<1>2. db' = db /\ pc' # "stage"
  BY DEF Writes, RetainIntent, InsertWitness, InsertFact, AdvanceCounters, IndexFrontier
<1> QED
  BY <1>1, <1>2, GrownTransitive DEF GrowthInv, FreshIntent

\* All others leave the view, drop it, or commit it.
LEMMA OthersGrow ==
    ASSUME ViewInv, GrowthInv, [Next]_vars, ~Writes
    PROVE  GrowthInv' /\ Grown(db, db')
<1>1. CASE StartStaging
  <2>1. work = db /\ db' = db /\ work' = work /\ batch' = batch
        /\ batch.append_intent_id \notin DOMAIN work.intents
    BY <1>1 DEF StartStaging, IntentKnown, ViewInv
  <2> QED
    BY <2>1, GrownReflexive DEF GrowthInv, FreshIntent
<1>2. CASE StageDraft \/ Cancel \/ UNCHANGED vars
  <2>1. db' = db /\ pc' = pc /\ batch' = batch /\ (work' = work \/ work' = db)
    BY <1>2 DEF StageDraft, Cancel, vars, scratch
  <2> QED
    BY <2>1, GrownReflexive DEF GrowthInv, FreshIntent
<1>3. CASE CommitTx
  <2>1. db' = work /\ work' = work /\ pc' # "stage"
    BY <1>3 DEF CommitTx
  <2> QED
    BY <2>1, GrownReflexive DEF GrowthInv, FreshIntent
<1>4. CASE Errors \/ Crash \/ Return
  <2>1. db' = db /\ (work' = db \/ work' = work) /\ pc' # "stage"
    BY <1>4, ErrorsFail DEF Fail, Crash, Return, Forget
  <2> QED
    BY <2>1, GrownReflexive DEF GrowthInv, FreshIntent
<1>5. CASE Begin \/ ResolveThrough \/ AnswerRetry \/ KeepWitness \/ EndWitnesses \/ KeepFrontier
           \/ PublishEvent \/ EndPublish
  <2>1. db' = db /\ work' = work /\ pc' # "stage"
    BY <1>5 DEF Begin, BeginAppend, BeginPublish, RefuseCaller, ResolveThrough, AnswerRetry,
                KeepWitness, EndWitnesses, KeepFrontier, PublishEvent, EndPublish
  <2> QED
    BY <2>1, GrownReflexive DEF GrowthInv, FreshIntent
<1> QED
  BY <1>1, <1>2, <1>3, <1>4, <1>5 DEF Next, Step, Writes, Errors

\* Every step keeps the invariant, and what is committed.
LEMMA NextGrows ==
    ASSUME TypeOK, ViewInv, GrowthInv, [Next]_vars
    PROVE  GrowthInv' /\ Grown(db, db')
<1>1. CASE Writes
  <2>1. db' = db
    BY <1>1 DEF Writes, RetainIntent, InsertWitness, InsertFact, AdvanceCounters, IndexFrontier
  <2> QED
    BY <1>1, <2>1, WritesGrow, GrownReflexive
<1> QED
  BY <1>1, OthersGrow

\* Paths that grow and are contiguous have counters that do not go back.
LEMMA CountersNeverGoBack ==
    ASSUME TypeOK, TypeOK', Contiguous(db), Contiguous(db'), db.paths \subseteq db'.paths,
           NEW p \in Paths
    PROVE  db.next[p] <= db'.next[p]
<1>1. db.next[p] \in Nat /\ db'.next[p] \in Nat
  BY DEF TypeOK, TablesTypeOK
<1>2. Ordinals(db, p) \subseteq Ordinals(db', p)
  BY DEF Ordinals, Entries
<1>3. 0 .. db.next[p] - 1 \subseteq 0 .. db'.next[p] - 1
  BY <1>2 DEF Contiguous
<1> QED
  BY <1>1, <1>3

\* At every statement the transaction's view holds all that is committed.
THEOREM ViewHoldsCommitted == Spec => []GrowthInv
<1>1. Init => GrowthInv
  BY GrownReflexive DEF Init, GrowthInv, FreshIntent
<1>2. TypeOK /\ PathInv /\ GrowthInv /\ [Next]_vars => GrowthInv'
  BY NextGrows DEF PathInv
<1> QED
  BY <1>1, <1>2, TypeCorrect, PathInvHolds, PTL DEF Spec

\* README.md:3, append-only: for any calls, however they interleave with cancellations and
\* crashes, no step changes or removes a committed row, and no counter goes back: every
\* cut of a path reads the same for ever.
THEOREM NothingCommittedChanges == Spec => AppendOnly
<1> DEFINE Kept == /\ db.paths \subseteq db'.paths
                   /\ db.edges \subseteq db'.edges
                   /\ Extends(db.records, db'.records)
                   /\ Extends(db.contexts, db'.contexts)
                   /\ Extends(db.intents, db'.intents)
                   /\ Extends(db.frontiers, db'.frontiers)
                   /\ \A p \in Paths : db.next[p] <= db'.next[p]
<1>1. TypeOK /\ TypeOK' /\ PathInv /\ PathInv' /\ GrowthInv /\ [Next]_vars => [Kept]_vars
  BY NextGrows, CountersNeverGoBack DEF PathInv, TablesInv, Grown
<1> QED
  BY <1>1, TypeCorrect, PathInvHolds, ViewHoldsCommitted, PTL DEF Spec, AppendOnly

-----------------------------------------------------------------------------
(***************************************************************************)
(* The causal graph.  A record is inserted with its edges, behind records  *)
(* that are there, and with a greater commit number than theirs.           *)
(***************************************************************************)
\* The edge table holds the causes that the records name.
EdgesMirror(t) ==
    /\ t.edges = UNION {{[parent |-> t.records[id].caused_by[i], child |-> id, position |-> i - 1] :
                            i \in DOMAIN t.records[id].caused_by} : id \in DOMAIN t.records}
    /\ \A e \in t.edges : e.parent \in DOMAIN t.records

\* A record is one that a path holds.
Filed(t) == {e.record_id : e \in t.paths} = DOMAIN t.records

\* What a fact cites is retained, with a smaller commit number if it is a fact.
CausesFirst(t) ==
    \A e \in FactEntries(t) :
      \A parent \in Range(t.records[e.record_id].caused_by) :
        \E p \in t.paths : p.record_id = parent /\ (p \in FactEntries(t) => Commit(p) < Commit(e))

GraphOK(t) == EdgesMirror(t) /\ Filed(t) /\ CausesFirst(t)

\* The prepared facts are numbered in their order.
NumberedInv ==
    pc \in {"stage", "witness", "fact"} =>
      \A k \in DOMAIN facts : facts[k].commit = db.commitSeq + k - 1

GraphInv == GraphOK(db) /\ GraphOK(work) /\ NumberedInv

\* Only records, edges and paths matter to the graph.
LEMMA SameGraph ==
    ASSUME NEW t, NEW u, GraphOK(t),
           u.records = t.records, u.edges = t.edges, u.paths = t.paths
    PROVE  GraphOK(u)
<1>1. EdgesMirror(u)
  BY DEF GraphOK, EdgesMirror
<1>2. Filed(u)
  BY DEF GraphOK, Filed
<1>3. FactEntries(u) = FactEntries(t)
  BY DEF FactEntries
<1>4. CausesFirst(u)
  BY <1>3 DEF GraphOK, CausesFirst
<1> QED
  BY <1>1, <1>2, <1>4 DEF GraphOK

\* What insertFactRow does to the three.
LEMMA InsertFactRowGraph ==
    ASSUME NEW t, DOMAIN t = TableNames, NEW fact, NEW r
    PROVE  LET u == insertFactRow(t, fact, r)
               x == fact.record_id
           IN  /\ u.paths = t.paths \cup {Entry(fact, r)}
               /\ x \in DOMAIN t.records => u.records = t.records /\ u.edges = t.edges
               /\ x \notin DOMAIN t.records =>
                    /\ u.records = [id \in DOMAIN t.records \cup {x} |->
                                      IF id = x THEN Row(fact) ELSE t.records[id]]
                    /\ u.edges = t.edges \cup Edges(fact)
<1> DEFINE u == insertFactRow(t, fact, r)
           v == insertRecordIfMissing(t, fact)
           x == fact.record_id
           n == [id \in DOMAIN t.records \cup {x} |-> IF id = x THEN Row(fact) ELSE t.records[id]]
<1>1. u = [v EXCEPT !.paths = @ \cup {Entry(fact, r)}]
  BY DEF insertFactRow
<1>2. CASE x \in DOMAIN t.records
  <2>1. v = t
    BY <1>2 DEF insertRecordIfMissing
  <2> HIDE DEF u, v, x, n
  <2> QED
    BY <1>1, <1>2, <2>1 DEF TableNames, u, x
<1>3. CASE x \notin DOMAIN t.records
  <2>1. v = [t EXCEPT !.records = n, !.edges = @ \cup Edges(fact)]
    BY <1>3 DEF insertRecordIfMissing
  <2> HIDE DEF u, v, x, n
  <2>2. /\ DOMAIN v = TableNames /\ v.paths = t.paths
        /\ v.records = n /\ v.edges = t.edges \cup Edges(fact)
    BY <2>1 DEF TableNames
  <2>3. u.paths = t.paths \cup {Entry(fact, r)} /\ u.records = n /\ u.edges = t.edges \cup Edges(fact)
    BY <1>1, <2>2 DEF TableNames
  <2> QED
    BY <1>3, <2>3 DEF u, x, n
<1> QED
  BY <1>2, <1>3

\* A row inserted behind its parents, with the greatest number if it has one, keeps the
\* graph sound.
LEMMA InsertKeepsGraph ==
    ASSUME NEW t, DOMAIN t = TableNames, GraphOK(t), NEW fact, NEW r,
           ParentsRetained(t, fact),
           fact.record_id \in DOMAIN t.records => t.records[fact.record_id].caused_by = fact.caused_by,
           r[1] = "commit" => \A p \in FactEntries(t) : Commit(p) < r[2]
    PROVE  GraphOK(insertFactRow(t, fact, r))
<1> DEFINE u == insertFactRow(t, fact, r)
           x == fact.record_id
           new == Entry(fact, r)
<1>1. /\ u.paths = t.paths \cup {new}
      /\ x \in DOMAIN t.records => u.records = t.records /\ u.edges = t.edges
      /\ x \notin DOMAIN t.records =>
           /\ u.records = [id \in DOMAIN t.records \cup {x} |->
                             IF id = x THEN Row(fact) ELSE t.records[id]]
           /\ u.edges = t.edges \cup Edges(fact)
  BY InsertFactRowGraph
<1>2. new.record_id = x /\ new.commit_receipt = r
  BY DEF Entry
<1>3. /\ DOMAIN u.records = DOMAIN t.records \cup {x}
      /\ \A id \in DOMAIN t.records : u.records[id] = t.records[id]
      /\ u.records[x].caused_by = fact.caused_by
  <2>1. Row(fact).caused_by = fact.caused_by
    BY DEF Row
  <2> HIDE DEF u, x, new
  <2>2. CASE x \in DOMAIN t.records
    BY <1>1, <2>2 DEF x
  <2>3. CASE x \notin DOMAIN t.records
    BY <1>1, <2>1, <2>3
  <2> QED
    BY <2>2, <2>3
<1>4. Edges(fact) = {[parent |-> u.records[x].caused_by[i], child |-> x, position |-> i - 1] :
                        i \in DOMAIN u.records[x].caused_by}
  BY <1>3 DEF Edges
<1> DEFINE From(v, id) == {[parent |-> v.records[id].caused_by[i], child |-> id, position |-> i - 1] :
                              i \in DOMAIN v.records[id].caused_by}
<1>5. t.edges = UNION {From(t, id) : id \in DOMAIN t.records}
  BY DEF GraphOK, EdgesMirror
<1>6. \A id \in DOMAIN t.records : From(u, id) = From(t, id)
  BY <1>3
<1>7. Edges(fact) = From(u, x)
  BY <1>4
<1> HIDE DEF From
<1>8. u.edges = UNION {From(u, id) : id \in DOMAIN u.records}
  <2> HIDE DEF u, x, new
  <2>1. CASE x \in DOMAIN t.records
    <3>1. u.edges = t.edges /\ DOMAIN u.records = DOMAIN t.records
      BY <1>1, <2>1
    <3> QED
      BY <1>5, <1>6, <3>1
  <2>2. CASE x \notin DOMAIN t.records
    <3>1. u.edges = t.edges \cup From(u, x)
      BY <1>1, <1>7, <2>2
    <3> QED
      BY <1>3, <1>5, <1>6, <3>1
  <2> QED
    BY <2>1, <2>2
<1>9. ASSUME NEW e \in u.edges PROVE e.parent \in DOMAIN u.records
  <2>1. CASE e \in t.edges
    BY <1>3, <2>1 DEF GraphOK, EdgesMirror
  <2>2. CASE e \in Edges(fact)
    BY <1>3, <2>2 DEF Edges, ParentsRetained
  <2>3. e \in t.edges \/ e \in Edges(fact)
    BY <1>1
  <2> QED
    BY <2>1, <2>2, <2>3
<1>10. EdgesMirror(u)
  BY <1>8, <1>9 DEF EdgesMirror, From
<1>11. Filed(u)
  <2>1. Filed(t)
    BY DEF GraphOK
  <2> HIDE DEF u, x, new
  <2> QED
    BY <1>1, <1>2, <1>3, <2>1 DEF Filed
<1>12. /\ FactEntries(t) \subseteq FactEntries(u)
       /\ FactEntries(u) \subseteq FactEntries(t) \cup {new}
       /\ t.paths \cap FactEntries(u) \subseteq FactEntries(t)
       /\ new \in FactEntries(u) => r[1] = "commit" /\ Commit(new) = r[2]
  <2> HIDE DEF u, x, new
  <2> QED
    BY <1>1, <1>2 DEF FactEntries, Commit
<1>13. ASSUME NEW e \in FactEntries(u), NEW parent \in Range(u.records[e.record_id].caused_by)
       PROVE  \E p \in u.paths : p.record_id = parent /\ (p \in FactEntries(u) => Commit(p) < Commit(e))
  <2> HIDE DEF u, x, new
  <2>0. t.paths \subseteq u.paths
    BY <1>1
  <2>1. CASE e \in FactEntries(t)
    <3>1. e.record_id \in DOMAIN t.records
      BY <2>1 DEF FactEntries, GraphOK, Filed
    <3>2. parent \in Range(t.records[e.record_id].caused_by)
      BY <1>3, <1>13, <3>1
    <3>3. PICK p \in t.paths : p.record_id = parent /\ (p \in FactEntries(t) => Commit(p) < Commit(e))
      BY <2>1, <3>2 DEF GraphOK, CausesFirst
    <3> QED
      BY <1>12, <2>0, <3>3
  <2>2. CASE e \notin FactEntries(t)
    <3>1. e = new /\ r[1] = "commit" /\ Commit(e) = r[2]
      BY <1>12, <1>13, <2>2
    <3>2. parent \in DOMAIN t.records
      BY <1>2, <1>3, <1>13, <3>1 DEF ParentsRetained, Range
    <3>3. PICK p \in t.paths : p.record_id = parent
      BY <3>2 DEF GraphOK, Filed
    <3>4. p \in FactEntries(u) => Commit(p) < Commit(e)
      BY <1>12, <3>1, <3>3
    <3> QED
      BY <2>0, <3>3, <3>4
  <2> QED
    BY <2>1, <2>2
<1>14. CausesFirst(u)
  BY <1>13 DEF CausesFirst
<1> QED
  BY <1>10, <1>11, <1>14 DEF GraphOK

\* A witness cites nothing.
LEMMA InsertWitnessGraph ==
    ASSUME TypeOK, GraphOK(work), InsertWitness
    PROVE  GraphOK(work')
<1> DEFINE f == WitnessFact(Plan(at))
           r == <<"witness", Plan(at).record_id>>
           t == insertFactRow(work, f, r)
           n == [t.next EXCEPT ![witnessTraceOwnerID] = @ + 1]
<1>1. DOMAIN work = TableNames
  BY EmptyTablesFields DEF TypeOK, TablesTypeOK
<1>2. f.caused_by = << >> /\ f.record_id = Plan(at).record_id
  BY DEF WitnessFact
<1>3. f.record_id \notin DOMAIN work.records
  BY <1>2 DEF InsertWitness
<1>4. ParentsRetained(work, f)
  BY <1>2 DEF ParentsRetained
<1>5. r[1] # "commit"
  OBVIOUS
<1>6. work' = [t EXCEPT !.next = n]
  BY DEF InsertWitness
<1> HIDE DEF f, r, n
<1>7. GraphOK(t) /\ DOMAIN t = TableNames
  BY <1>1, <1>3, <1>4, <1>5, InsertKeepsGraph, InsertFactRowFields
<1> HIDE DEF t
<1>8. work'.records = t.records /\ work'.edges = t.edges /\ work'.paths = t.paths
  BY <1>6, <1>7 DEF TableNames
<1> QED
  BY <1>7, <1>8, SameGraph

\* A fact is inserted after everything it cites, with the next number.
LEMMA InsertFactGraph ==
    ASSUME TypeOK, PathInv, GraphOK(work), NumberedInv, InsertFact
    PROVE  GraphOK(work')
<1> DEFINE f == facts[at]
           r == <<"commit", f.commit>>
<1>1. /\ pc = "fact" /\ ~ctxDone /\ at \in DOMAIN facts
      /\ FactInserts(f)
      /\ work' = insertFactRow(work, f, r)
  BY DEF InsertFact
<1>2. DOMAIN work = TableNames /\ db.commitSeq \in Nat /\ DOMAIN facts = 1 .. Len(facts)
      /\ Len(facts) \in Nat
  BY EmptyTablesFields, AppendOverRange DEF TypeOK, TablesTypeOK
<1>3. f.commit = db.commitSeq + at - 1
  BY <1>1 DEF NumberedInv
<1>4. CommitsOf(work) = (0 .. db.commitSeq - 1) \cup PreparedCommits(facts, at - 1)
  BY <1>1 DEF PathInv, InsertedInv, RangesInv
<1>5. \A k \in 1 .. at - 1 : facts[k].commit = db.commitSeq + k - 1
  BY <1>1, <1>2 DEF NumberedInv
<1>6. \A n \in PreparedCommits(facts, at - 1) : n < f.commit
  BY <1>1, <1>2, <1>3, <1>5 DEF PreparedCommits
<1>7. \A n \in 0 .. db.commitSeq - 1 : n < f.commit
  BY <1>1, <1>2, <1>3
<1>8. \A e \in FactEntries(work) : Commit(e) < f.commit
  BY <1>4, <1>6, <1>7 DEF CommitsOf
<1>9. /\ ParentsRetained(work, f)
      /\ f.record_id \in DOMAIN work.records =>
           work.records[f.record_id].caused_by = f.caused_by
  BY <1>1 DEF FactInserts, recordContentMatches
<1>10. r[2] = f.commit
  OBVIOUS
<1> HIDE DEF f, r
<1> QED
  BY <1>1, <1>2, <1>8, <1>9, <1>10, InsertKeepsGraph

\* The intent, the counters and the frontier index are not of the graph.
LEMMA OtherWritesGraph ==
    ASSUME TypeOK, GraphOK(work), RetainIntent \/ AdvanceCounters \/ IndexFrontier
    PROVE  GraphOK(work')
<1>1. DOMAIN work = TableNames
  BY EmptyTablesFields DEF TypeOK, TablesTypeOK
<1>2. work'.records = work.records /\ work'.edges = work.edges /\ work'.paths = work.paths
  <2>1. CASE RetainIntent
    BY <1>1, <2>1 DEF RetainIntent, TableNames
  <2>2. CASE AdvanceCounters
    BY <1>1, <2>2 DEF AdvanceCounters, TableNames
  <2>3. CASE IndexFrontier
    BY <1>1, <2>3 DEF IndexFrontier, TableNames
  <2> QED
    BY <2>1, <2>2, <2>3
<1> QED
  BY <1>2, SameGraph

\* A staged draft has the next number.
LEMMA StageDraftNumbered ==
    ASSUME TypeOK, PathInv, NumberedInv, StageDraft
    PROVE  NumberedInv'
<1> DEFINE f == PreparedFact(at)
<1>1. /\ pc = "stage" /\ work = db /\ db' = db /\ facts' = Append(facts, f)
      /\ db.commitSeq \in Nat
  BY DEF StageDraft, PathInv, ViewInv, TypeOK, TablesTypeOK
<1>2. f.commit = db.commitSeq + Len(facts)
  BY <1>1, PreparedFactFields
<1> HIDE DEF f
<1>3. /\ Len(facts) \in Nat /\ DOMAIN facts = 1 .. Len(facts)
      /\ DOMAIN facts' = 1 .. Len(facts) + 1
      /\ \A i \in 1 .. Len(facts) : facts'[i] = facts[i]
      /\ facts'[Len(facts) + 1] = f
  BY <1>1, AppendOverRange DEF TypeOK
<1>4. ASSUME NEW k \in DOMAIN facts' PROVE facts'[k].commit = db.commitSeq + k - 1
  <2>1. CASE k = Len(facts) + 1
    BY <1>1, <1>2, <1>3, <2>1
  <2>2. CASE k \in DOMAIN facts
    BY <1>1, <1>3, <2>2 DEF NumberedInv
  <2> QED
    BY <1>3, <2>1, <2>2
<1> QED
  BY <1>1, <1>4 DEF NumberedInv

\* The others prepare no fact, while facts are numbered.
LEMMA OthersNumbered ==
    ASSUME PathInv, NumberedInv, [Next]_vars, ~StageDraft
    PROVE  NumberedInv'
<1>1. CASE pc' \notin {"stage", "witness", "fact"}
  BY <1>1 DEF NumberedInv
<1>2. CASE StartStaging
  BY <1>2 DEF StartStaging, PathInv, PreparedInv, NumberedInv
<1>3. CASE /\ db' = db /\ facts' = facts
           /\ pc \in {"stage", "witness", "fact"}
  BY <1>3 DEF NumberedInv
<1>4. CASE RetainIntent \/ KeepWitness \/ InsertWitness \/ EndWitnesses \/ InsertFact
  BY <1>3, <1>4 DEF RetainIntent, KeepWitness, InsertWitness, EndWitnesses, InsertFact
<1>5. CASE Cancel \/ UNCHANGED vars
  BY <1>1, <1>3, <1>5 DEF Cancel, vars, scratch, NumberedInv
<1>6. CASE Errors \/ Crash \/ Return \/ Begin
  BY <1>1, <1>6, ErrorsFail DEF Fail, Crash, Return, Forget, Begin, BeginAppend, BeginPublish, RefuseCaller
<1>7. CASE ResolveThrough \/ AnswerRetry \/ AdvanceCounters \/ IndexFrontier \/ KeepFrontier
           \/ CommitTx \/ PublishEvent \/ EndPublish
  BY <1>1, <1>7 DEF ResolveThrough, AnswerRetry, AdvanceCounters, IndexFrontier, KeepFrontier,
                    CommitTx, PublishEvent, EndPublish
<1> QED
  BY <1>2, <1>4, <1>5, <1>6, <1>7 DEF Next, Step, Errors

\* Which tables a step leaves to which view.
LEMMA OthersKeepTables ==
    ASSUME [Next]_vars, ~Writes
    PROVE  (db' = db \/ db' = work) /\ (work' = work \/ work' = db)
<1>1. CASE Begin \/ Cancel \/ Crash \/ UNCHANGED vars
  BY <1>1 DEF Begin, BeginAppend, BeginPublish, RefuseCaller, Cancel, Crash, vars
<1>2. CASE Errors
  BY <1>2, ErrorsFail DEF Fail
<1>3. CASE Step /\ ~Errors
  BY <1>3 DEF Step, Errors, Writes, ResolveThrough, AnswerRetry, StartStaging, StageDraft,
              KeepWitness, EndWitnesses, KeepFrontier, CommitTx, PublishEvent, EndPublish, Return
<1> QED
  BY <1>1, <1>2, <1>3 DEF Next

\* Every step keeps the graph of both views.
LEMMA NextGraph ==
    ASSUME TypeOK, PathInv, GraphInv, [Next]_vars
    PROVE  GraphInv'
<1>1. NumberedInv'
  BY StageDraftNumbered, OthersNumbered DEF GraphInv
<1>2. CASE Writes
  <2>1. db' = db
    BY <1>2 DEF Writes, RetainIntent, InsertWitness, InsertFact, AdvanceCounters, IndexFrontier
  <2>2. GraphOK(work')
    BY <1>2, InsertWitnessGraph, InsertFactGraph, OtherWritesGraph DEF Writes, GraphInv
  <2> QED
    BY <1>1, <2>1, <2>2 DEF GraphInv
<1>3. CASE ~Writes
  BY <1>1, <1>3, OthersKeepTables DEF GraphInv
<1> QED
  BY <1>2, <1>3

\* At every statement the transaction's view and the committed tables hold one graph.
THEOREM GraphInvHolds == Spec => []GraphInv
<1>1. Init => GraphInv
  <2> SUFFICES ASSUME Init PROVE GraphInv
    OBVIOUS
  <2>1. /\ EmptyTables.records = << >> /\ EmptyTables.edges = {} /\ EmptyTables.paths = {}
    BY DEF EmptyTables
  <2>2. GraphOK(EmptyTables)
    BY <2>1 DEF GraphOK, EdgesMirror, Filed, CausesFirst, FactEntries
  <2> QED
    BY <2>2 DEF Init, GraphInv, NumberedInv
<1> QED
  BY <1>1, NextGraph, TypeCorrect, PathInvHolds, PTL DEF Spec

\* store_append.go:589: for any batches, however they cite each other and whatever is
\* cancelled or lost in a crash, the edge table and the records tell one causal graph,
\* both ends of every edge are retained, and every cause was committed before its effect;
\* so the graph has no cycle.
THEOREM CausalGraphStaysSound == Spec => []CausalGraphIsSound
<1>1. GraphOK(db) => CausesComeFirst
  BY DEF GraphOK, CausesFirst, CausesComeFirst
<1>2. GraphOK(db) => EdgesMirrorCauses
  BY DEF GraphOK, EdgesMirror, EdgesMirrorCauses
<1>3. GraphInv => CausalGraphIsSound
  BY <1>1, <1>2 DEF GraphInv, CausalGraphIsSound
<1> QED
  BY <1>3, GraphInvHolds, PTL

-----------------------------------------------------------------------------
(***************************************************************************)
(* The witnesses.  A row's schema and witness are those its id is made of; *)
(* the witnesses of a batch are inserted, the root's first, before any of  *)
(* its facts.  Which witness a draft cites was decided from the contexts   *)
(* as they were committed, and they are the same when it is inserted.      *)
(***************************************************************************)
Told(row, id) == row.schema_ref = id[1] /\ row.witness_ref = id[5]

\* What WitnessedToRoot says of one record.
LeadsToRoot(t, id) ==
    LET row == t.records[id]
    IN  \/ id = RootWitnessRecordID /\ row.witness_ref = RootWitnessRef
        \/ /\ row.witness_ref \in DOMAIN t.records
           /\ LET witness == t.records[row.witness_ref]
              IN  \/ witness.schema_ref = RootWitnessSchemaRef
                  \/ /\ witness.schema_ref = WitnessSchemaRef
                     /\ witness.witness_ref = RootWitnessRecordID
                     /\ RootWitnessRecordID \in DOMAIN t.records

WitnessedOK(t) ==
    \A id \in DOMAIN t.records : Told(t.records[id], id) /\ LeadsToRoot(t, id)

ContextOf(k) == GroupOf(batch, k).retained_context

\* The witness of a draft's group by the committed contexts.
CommittedWitness(k) ==
    ordinaryWitnessPlan(IF ContextOf(k).form = "reuse" THEN db.contexts[ContextOf(k).id].content
                        ELSE contextPayload(DraftContent(ContextOf(k)), call.auth), call.auth).record_id

CitesCommitted(k) ==
    /\ ContextOf(k).form = "reuse" => ContextOf(k).id \in DOMAIN db.contexts
    /\ facts[k].witness_ref = CommittedWitness(k)

PreparedWitnessed ==
    /\ pc \in {"stage", "witness", "fact"} =>
         \A k \in DOMAIN facts : Told(facts[k], facts[k].record_id) /\ CitesCommitted(k)
    /\ pc = "stage" => at = Len(facts) + 1

\* The witnesses the insert loop has passed.
WitnessesInserted ==
    /\ (pc = "witness" /\ ~ctxDone /\ facts # << >>) =>
         /\ at >= 1 => RootWitnessRecordID \in DOMAIN work.records
         /\ \A j \in DOMAIN facts : j < at => facts[j].witness_ref \in DOMAIN work.records
    /\ (pc = "fact" /\ ~ctxDone /\ facts # << >>) =>
         /\ RootWitnessRecordID \in DOMAIN work.records
         /\ \A j \in DOMAIN facts : facts[j].witness_ref \in DOMAIN work.records

WitnessInv == WitnessedOK(db) /\ WitnessedOK(work) /\ PreparedWitnessed /\ WitnessesInserted

\* A committed context is in the transaction's view, so the view names the same witness.
LEMMA ViewNamesSameWitness ==
    ASSUME GrowthInv, NEW k \in DOMAIN facts, CitesCommitted(k)
    PROVE  WitnessOf(k).record_id = facts[k].witness_ref
<1>1. ContextOf(k).form = "reuse" => work.contexts[ContextOf(k).id] = db.contexts[ContextOf(k).id]
  BY DEF GrowthInv, Grown, Extends, CitesCommitted
<1>2. RetainedContext(k).content =
        IF ContextOf(k).form = "reuse" THEN db.contexts[ContextOf(k).id].content
        ELSE contextPayload(DraftContent(ContextOf(k)), call.auth)
  BY <1>1 DEF RetainedContext, ContextOf
<1> QED
  BY <1>2 DEF WitnessOf, CitesCommitted, CommittedWitness

\* What an ordinary witness is, by its id.
LEMMA OrdinaryWitnessIds ==
    /\ \A content, auth :
         LET plan == ordinaryWitnessPlan(content, auth)
         IN  /\ plan.record_id[1] = WitnessSchemaRef /\ plan.record_id[5] = RootWitnessRecordID
             /\ plan.schema_ref = WitnessSchemaRef /\ plan.witness_ref = RootWitnessRecordID
    /\ rootWitnessPlan.record_id = RootWitnessRecordID
    /\ rootWitnessPlan.schema_ref = RootWitnessSchemaRef
    /\ rootWitnessPlan.witness_ref = RootWitnessRef
    /\ RootWitnessRecordID[1] = RootWitnessSchemaRef
    /\ RootWitnessRecordID[5] = RootWitnessRef
<1>1. \A a, b, c, d, e : RecordDigest(a, b, c, d, e)[1] = a /\ RecordDigest(a, b, c, d, e)[5] = e
  BY DEF RecordDigest
<1> QED
  BY <1>1 DEF ordinaryWitnessPlan, rootWitnessPlan, RootWitnessRecordID

\* Only the records matter.
LEMMA SameWitnessed ==
    ASSUME NEW t, NEW u, WitnessedOK(t), u.records = t.records
    PROVE  WitnessedOK(u)
  BY DEF WitnessedOK, LeadsToRoot

\* A row whose witness is there, or that is the root's, keeps all witnessed.
LEMMA InsertKeepsWitnessed ==
    ASSUME NEW t, DOMAIN t = TableNames, WitnessedOK(t), NEW fact, NEW r,
           Told(fact, fact.record_id),
           \/ fact.record_id = RootWitnessRecordID
           \/ fact.witness_ref = RootWitnessRecordID /\ fact.witness_ref \in DOMAIN t.records
           \/ /\ fact.witness_ref \in DOMAIN t.records
              /\ fact.witness_ref[1] = WitnessSchemaRef
              /\ fact.witness_ref[5] = RootWitnessRecordID
              /\ RootWitnessRecordID \in DOMAIN t.records
    PROVE  LET u == insertFactRow(t, fact, r)
           IN  /\ WitnessedOK(u)
               /\ DOMAIN u.records = DOMAIN t.records \cup {fact.record_id}
<1> DEFINE u == insertFactRow(t, fact, r)
           x == fact.record_id
<1>1. /\ u.paths = t.paths \cup {Entry(fact, r)}
      /\ x \in DOMAIN t.records => u.records = t.records /\ u.edges = t.edges
      /\ x \notin DOMAIN t.records =>
           /\ u.records = [id \in DOMAIN t.records \cup {x} |->
                             IF id = x THEN Row(fact) ELSE t.records[id]]
           /\ u.edges = t.edges \cup Edges(fact)
  BY InsertFactRowGraph
<1> HIDE DEF u
<1>2. CASE x \in DOMAIN t.records
  <2>1. u.records = t.records
    BY <1>1, <1>2
  <2> QED
    BY <1>2, <2>1, SameWitnessed DEF u
<1>3. CASE x \notin DOMAIN t.records
  <2>1. /\ DOMAIN u.records = DOMAIN t.records \cup {x}
        /\ \A id \in DOMAIN t.records : u.records[id] = t.records[id]
        /\ u.records[x] = Row(fact)
    BY <1>1, <1>3
  <2>2. Row(fact).schema_ref = fact.schema_ref /\ Row(fact).witness_ref = fact.witness_ref
    BY DEF Row
  <2>3. \A id \in DOMAIN t.records : LeadsToRoot(u, id)
    BY <2>1 DEF WitnessedOK, LeadsToRoot
  <2>4. \A id \in DOMAIN t.records : Told(t.records[id], id)
    BY DEF WitnessedOK
  <2>5. LeadsToRoot(u, x)
    <3>1. CASE x = RootWitnessRecordID
      BY <2>1, <2>2, <3>1, OrdinaryWitnessIds DEF LeadsToRoot, Told
    <3>2. CASE fact.witness_ref = RootWitnessRecordID /\ fact.witness_ref \in DOMAIN t.records
      <4>1. t.records[fact.witness_ref].schema_ref = RootWitnessSchemaRef
        BY <2>4, <3>2, OrdinaryWitnessIds DEF Told
      <4> QED
        BY <2>1, <2>2, <3>2, <4>1 DEF LeadsToRoot
    <3>3. CASE /\ fact.witness_ref \in DOMAIN t.records
               /\ fact.witness_ref[1] = WitnessSchemaRef
               /\ fact.witness_ref[5] = RootWitnessRecordID
               /\ RootWitnessRecordID \in DOMAIN t.records
      <4>1. /\ t.records[fact.witness_ref].schema_ref = WitnessSchemaRef
            /\ t.records[fact.witness_ref].witness_ref = RootWitnessRecordID
        BY <2>4, <3>3 DEF Told
      <4> QED
        BY <2>1, <2>2, <3>3, <4>1 DEF LeadsToRoot
    <3> QED
      BY <3>1, <3>2, <3>3
  <2>6. Told(u.records[x], x)
    BY <2>1, <2>2 DEF Told
  <2>7. WitnessedOK(u)
    BY <2>1, <2>3, <2>4, <2>5, <2>6 DEF WitnessedOK
  <2> QED
    BY <2>1, <2>7 DEF u
<1> QED
  BY <1>2, <1>3

\* The witness the loop is at is that of the draft it is at.
LEMMA PlanOfDraft ==
    ASSUME TypeOK, GrowthInv, PreparedWitnessed, pc = "witness", WitnessesLeft
    PROVE  /\ at = 0 => Plan(at) = rootWitnessPlan
           /\ at # 0 => /\ at \in DOMAIN facts
                        /\ Plan(at) = WitnessOf(at)
                        /\ Plan(at).record_id = facts[at].witness_ref
<1>1. at # 0 => at \in DOMAIN facts
  BY DEF WitnessesLeft
<1>2. at \in DOMAIN facts => WitnessOf(at).record_id = facts[at].witness_ref
  BY ViewNamesSameWitness DEF PreparedWitnessed
<1> QED
  BY <1>1, <1>2 DEF Plan

\* Once the witness the loop is at is there, it may go on.
LEMMA PassingWitness ==
    ASSUME TypeOK, GrowthInv, PreparedWitnessed, WitnessesInserted, pc = "witness", ~ctxDone,
           WitnessesLeft, NEW t, DOMAIN work.records \subseteq t, Plan(at).record_id \in t
    PROVE  RootWitnessRecordID \in t /\ \A j \in DOMAIN facts : j < at + 1 => facts[j].witness_ref \in t
<1>1. facts # << >> /\ at \in Nat /\ DOMAIN facts \subseteq Nat
  BY AppendOverRange DEF WitnessesLeft, TypeOK
<1>2. /\ at >= 1 => RootWitnessRecordID \in t
      /\ \A j \in DOMAIN facts : j < at => facts[j].witness_ref \in t
  BY <1>1 DEF WitnessesInserted
<1>3. CASE at = 0
  BY <1>1, <1>2, <1>3, PlanOfDraft, OrdinaryWitnessIds DEF TypeOK, WitnessesLeft
<1>4. CASE at # 0
  <2>1. facts[at].witness_ref \in t
    BY <1>4, PlanOfDraft
  <2>2. \A j \in DOMAIN facts : j < at + 1 => j < at \/ j = at
    BY <1>1
  <2> QED
    BY <1>1, <1>2, <1>4, <2>1, <2>2
<1> QED
  BY <1>3, <1>4

\* No draft comes before the first.
LEMMA DraftsFromOne ==
    ASSUME TypeOK
    PROVE  /\ DOMAIN facts = 1 .. Len(facts) /\ Len(facts) \in Nat /\ at \in Nat
           /\ facts = << >> <=> Len(facts) = 0
  BY AppendOverRange DEF TypeOK

\* A witness is inserted behind the root's.
LEMMA InsertWitnessWitnessed ==
    ASSUME TypeOK, GrowthInv, WitnessInv, InsertWitness
    PROVE  WitnessedOK(work') /\ WitnessesInserted'
<1> DEFINE f == WitnessFact(Plan(at))
           r == <<"witness", Plan(at).record_id>>
           t == insertFactRow(work, f, r)
           n == [t.next EXCEPT ![witnessTraceOwnerID] = @ + 1]
<1>1. DOMAIN work = TableNames
  BY EmptyTablesFields DEF TypeOK, TablesTypeOK
<1>2. /\ pc = "witness" /\ pc' = "witness" /\ ~ctxDone /\ WitnessesLeft
      /\ at' = at + 1 /\ facts' = facts
      /\ work' = [t EXCEPT !.next = n]
  BY DEF InsertWitness
<1>3. /\ f.record_id = Plan(at).record_id
      /\ f.schema_ref = Plan(at).schema_ref /\ f.witness_ref = Plan(at).witness_ref
  BY DEF WitnessFact
<1>4. facts # << >> /\ at \in Nat
  BY <1>2 DEF WitnessesLeft, TypeOK
<1>5. /\ Told(f, f.record_id)
      /\ \/ f.record_id = RootWitnessRecordID
         \/ f.witness_ref = RootWitnessRecordID /\ f.witness_ref \in DOMAIN work.records
  <2>1. CASE at = 0
    <3>1. Plan(at) = rootWitnessPlan
      BY <1>2, <2>1, PlanOfDraft DEF WitnessInv
    <3> HIDE DEF f
    <3> QED
      BY <1>3, <3>1, OrdinaryWitnessIds DEF Told
  <2>2. CASE at # 0
    <3>1. Plan(at) = WitnessOf(at)
      BY <1>2, <2>2, PlanOfDraft DEF WitnessInv
    <3>2. RootWitnessRecordID \in DOMAIN work.records
      BY <1>2, <1>4, <2>2 DEF WitnessInv, WitnessesInserted
    <3>3. /\ Plan(at).record_id[1] = Plan(at).schema_ref
          /\ Plan(at).record_id[5] = Plan(at).witness_ref
          /\ Plan(at).witness_ref = RootWitnessRecordID
      BY <3>1, OrdinaryWitnessIds DEF WitnessOf
    <3> HIDE DEF f
    <3> QED
      BY <1>3, <3>2, <3>3 DEF Told
  <2> QED
    BY <2>1, <2>2
<1> HIDE DEF f, r, n
<1>6. /\ WitnessedOK(t) /\ DOMAIN t.records = DOMAIN work.records \cup {f.record_id}
      /\ DOMAIN t = TableNames
  BY <1>1, <1>5, InsertKeepsWitnessed, InsertFactRowFields DEF WitnessInv
<1> HIDE DEF t
<1>7. work'.records = t.records
  BY <1>2, <1>6 DEF TableNames
<1>8. /\ RootWitnessRecordID \in DOMAIN work'.records
       /\ \A j \in DOMAIN facts : j < at + 1 => facts[j].witness_ref \in DOMAIN work'.records
  BY <1>2, <1>3, <1>6, <1>7, PassingWitness DEF WitnessInv
<1> QED
  BY <1>2, <1>6, <1>7, <1>8, SameWitnessed DEF WitnessesInserted

\* One that is there already is passed, and after the last the facts follow.
LEMMA KeepWitnessed ==
    ASSUME TypeOK, GrowthInv, WitnessInv, KeepWitness \/ EndWitnesses
    PROVE  WitnessesInserted'
<1>1. CASE KeepWitness
  <2>1. /\ pc = "witness" /\ pc' = "witness" /\ ~ctxDone /\ WitnessesLeft
        /\ at' = at + 1 /\ facts' = facts /\ work' = work
        /\ Plan(at).record_id \in DOMAIN work.records
    BY <1>1 DEF KeepWitness
  <2>2. /\ RootWitnessRecordID \in DOMAIN work.records
        /\ \A j \in DOMAIN facts : j < at + 1 => facts[j].witness_ref \in DOMAIN work.records
    BY <2>1, PassingWitness DEF WitnessInv
  <2> QED
    BY <2>1, <2>2 DEF WitnessesInserted
<1>2. CASE EndWitnesses
  <2>1. /\ pc = "witness" /\ pc' = "fact" /\ ~ctxDone /\ ~WitnessesLeft
        /\ facts' = facts /\ work' = work
    BY <1>2 DEF EndWitnesses
  <2>2. facts # << >> => at > Len(facts) /\ at >= 1
    BY <2>1, DraftsFromOne DEF WitnessesLeft
  <2>3. \A j \in DOMAIN facts : facts # << >> => j < at
    BY <2>2, DraftsFromOne
  <2> QED
    BY <2>1, <2>2, <2>3 DEF WitnessInv, WitnessesInserted
<1> QED
  BY <1>1, <1>2

\* A fact is inserted behind its witness.
LEMMA InsertFactWitnessed ==
    ASSUME TypeOK, WitnessInv, InsertFact
    PROVE  WitnessedOK(work') /\ WitnessesInserted'
<1> DEFINE f == facts[at]
           r == <<"commit", f.commit>>
<1>1. /\ pc = "fact" /\ pc' = "fact" /\ ~ctxDone /\ at \in DOMAIN facts /\ facts # << >>
      /\ facts' = facts
      /\ work' = insertFactRow(work, f, r)
  BY DraftsFromOne DEF InsertFact
<1>2. DOMAIN work = TableNames
  BY EmptyTablesFields DEF TypeOK, TablesTypeOK
<1>3. /\ Told(f, f.record_id)
      /\ f.witness_ref[1] = WitnessSchemaRef /\ f.witness_ref[5] = RootWitnessRecordID
  BY <1>1, OrdinaryWitnessIds DEF WitnessInv, PreparedWitnessed, CitesCommitted, CommittedWitness
<1>4. /\ RootWitnessRecordID \in DOMAIN work.records
      /\ \A j \in DOMAIN facts : facts[j].witness_ref \in DOMAIN work.records
  BY <1>1 DEF WitnessInv, WitnessesInserted
<1>5. f.witness_ref \in DOMAIN work.records
  BY <1>1, <1>4
<1> HIDE DEF f, r
<1>6. /\ WitnessedOK(work')
      /\ DOMAIN work'.records = DOMAIN work.records \cup {f.record_id}
  BY <1>1, <1>2, <1>3, <1>4, <1>5, InsertKeepsWitnessed DEF WitnessInv
<1> QED
  BY <1>1, <1>4, <1>6 DEF WitnessesInserted

\* A staged draft's witness is that of the committed contexts.
LEMMA StageDraftWitnessed ==
    ASSUME TypeOK, ViewInv, PreparedWitnessed, StageDraft
    PROVE  PreparedWitnessed'
<1> DEFINE f == PreparedFact(at)
           m == Len(facts) + 1
<1>1. /\ pc = "stage" /\ pc' = "stage" /\ work = db /\ db' = db /\ batch' = batch /\ call' = call
      /\ facts' = Append(facts, f) /\ at' = at + 1 /\ DraftResolves(at)
  BY DEF StageDraft, ViewInv
<1>2. at = m
  BY <1>1 DEF PreparedWitnessed
<1>3. Told(f, f.record_id) /\ f.witness_ref = WitnessOf(at).record_id
  BY DEF PreparedFact, RecordDigest, Told
<1>4. ContextOf(at).form = "reuse" => ContextOf(at).id \in DOMAIN db.contexts
  BY <1>1 DEF DraftResolves, ContextResolves, ContextOf
<1>5. WitnessOf(at).record_id = CommittedWitness(at)
  <2>1. RetainedContext(at).content =
          IF ContextOf(at).form = "reuse" THEN db.contexts[ContextOf(at).id].content
          ELSE contextPayload(DraftContent(ContextOf(at)), call.auth)
    BY <1>1 DEF RetainedContext, ContextOf
  <2> QED
    BY <2>1 DEF WitnessOf, CommittedWitness
<1> HIDE DEF f
<1>6. /\ Len(facts) \in Nat /\ DOMAIN facts = 1 .. Len(facts)
      /\ DOMAIN facts' = 1 .. m /\ Len(facts') = m
      /\ \A i \in 1 .. Len(facts) : facts'[i] = facts[i]
      /\ facts'[m] = f
  BY <1>1, AppendOverRange DEF TypeOK
<1>7. \A k : ContextOf(k)' = ContextOf(k) /\ CommittedWitness(k)' = CommittedWitness(k)
  BY <1>1 DEF ContextOf, CommittedWitness, GroupOf
<1>8. ASSUME NEW k \in DOMAIN facts'
      PROVE  Told(facts'[k], facts'[k].record_id) /\ CitesCommitted(k)'
  <2>1. CASE k = m
    BY <1>1, <1>2, <1>3, <1>4, <1>5, <1>6, <1>7, <2>1 DEF CitesCommitted
  <2>2. CASE k \in DOMAIN facts
    <3>1. Told(facts[k], facts[k].record_id) /\ CitesCommitted(k) /\ facts'[k] = facts[k]
      BY <1>1, <1>6, <2>2 DEF PreparedWitnessed
    <3> QED
      BY <1>1, <1>7, <3>1 DEF CitesCommitted
  <2> QED
    BY <1>6, <2>1, <2>2
<1> QED
  BY <1>1, <1>2, <1>6, <1>8 DEF PreparedWitnessed

\* The other steps change neither what is prepared nor what is committed under it.
LEMMA OthersWitnessed ==
    ASSUME TypeOK, PathInv, PreparedWitnessed, [Next]_vars, ~StageDraft
    PROVE  PreparedWitnessed'
<1>1. CASE pc' \notin {"stage", "witness", "fact"}
  BY <1>1 DEF PreparedWitnessed
<1>2. CASE StartStaging
  BY <1>2 DEF StartStaging, PathInv, PreparedInv, PreparedWitnessed
<1>3. CASE /\ db' = db /\ facts' = facts /\ batch' = batch /\ call' = call
           /\ pc \in {"stage", "witness", "fact"}
           /\ pc' = "stage" => pc = "stage" /\ at' = at
  <2>1. \A k : ContextOf(k)' = ContextOf(k) /\ CommittedWitness(k)' = CommittedWitness(k)
    BY <1>3 DEF ContextOf, CommittedWitness, GroupOf
  <2>2. \A k : CitesCommitted(k) => CitesCommitted(k)'
    BY <1>3, <2>1 DEF CitesCommitted
  <2> QED
    BY <1>3, <2>2 DEF PreparedWitnessed
<1>4. CASE RetainIntent \/ KeepWitness \/ InsertWitness \/ EndWitnesses \/ InsertFact
  BY <1>3, <1>4 DEF RetainIntent, KeepWitness, InsertWitness, EndWitnesses, InsertFact
<1>5. CASE Cancel \/ UNCHANGED vars
  BY <1>1, <1>3, <1>5 DEF Cancel, vars, scratch
<1>6. CASE Errors \/ Crash \/ Return \/ Begin
  BY <1>1, <1>6, ErrorsFail DEF Fail, Crash, Return, Forget, Begin, BeginAppend, BeginPublish, RefuseCaller
<1>7. CASE ResolveThrough \/ AnswerRetry \/ AdvanceCounters \/ IndexFrontier \/ KeepFrontier
           \/ CommitTx \/ PublishEvent \/ EndPublish
  BY <1>1, <1>7 DEF ResolveThrough, AnswerRetry, AdvanceCounters, IndexFrontier, KeepFrontier,
                    CommitTx, PublishEvent, EndPublish
<1> QED
  BY <1>2, <1>4, <1>5, <1>6, <1>7 DEF Next, Step, Errors

\* The loop's progress is lost with the call, and begins anew with the next.
LEMMA OthersInserted ==
    ASSUME TypeOK, WitnessesInserted, [Next]_vars,
           ~(KeepWitness \/ InsertWitness \/ EndWitnesses \/ InsertFact)
    PROVE  WitnessesInserted'
<1>1. CASE pc' \notin {"witness", "fact"} \/ ctxDone'
  BY <1>1 DEF WitnessesInserted
<1>2. CASE RetainIntent
  <2>1. pc' = "witness" /\ at' = 0 /\ facts' = facts
    BY <1>2 DEF RetainIntent
  <2> QED
    BY <2>1, DraftsFromOne DEF WitnessesInserted
<1>3. CASE UNCHANGED vars
  BY <1>3 DEF vars, scratch, WitnessesInserted
<1>4. CASE Cancel
  BY <1>1, <1>4 DEF Cancel
<1>5. CASE Errors \/ Crash \/ Return \/ Begin
  BY <1>1, <1>5, ErrorsFail DEF Fail, Crash, Return, Forget, Begin, BeginAppend, BeginPublish, RefuseCaller
<1>6. CASE ResolveThrough \/ AnswerRetry \/ StartStaging \/ StageDraft \/ AdvanceCounters
           \/ IndexFrontier \/ KeepFrontier \/ CommitTx \/ PublishEvent \/ EndPublish
  BY <1>1, <1>6 DEF ResolveThrough, AnswerRetry, StartStaging, StageDraft, AdvanceCounters,
                    IndexFrontier, KeepFrontier, CommitTx, PublishEvent, EndPublish
<1> QED
  BY <1>2, <1>3, <1>4, <1>5, <1>6 DEF Next, Step, Errors

\* Every step keeps all records witnessed.
LEMMA NextWitnessed ==
    ASSUME TypeOK, PathInv, GrowthInv, WitnessInv, [Next]_vars
    PROVE  WitnessInv'
<1>1. PreparedWitnessed'
  BY StageDraftWitnessed, OthersWitnessed DEF WitnessInv, PathInv
<1>2. WitnessesInserted'
  BY InsertWitnessWitnessed, KeepWitnessed, InsertFactWitnessed, OthersInserted DEF WitnessInv
<1>3. CASE Writes
  <2>1. db' = db
    BY <1>3 DEF Writes, RetainIntent, InsertWitness, InsertFact, AdvanceCounters, IndexFrontier
  <2>2. DOMAIN work = TableNames
    BY EmptyTablesFields DEF TypeOK, TablesTypeOK
  <2>3. CASE RetainIntent \/ AdvanceCounters \/ IndexFrontier
    <3>1. work'.records = work.records
      <4>1. CASE RetainIntent
        BY <2>2, <4>1 DEF RetainIntent, TableNames
      <4>2. CASE AdvanceCounters
        BY <2>2, <4>2 DEF AdvanceCounters, TableNames
      <4>3. CASE IndexFrontier
        BY <2>2, <4>3 DEF IndexFrontier, TableNames
      <4> QED
        BY <2>3, <4>1, <4>2, <4>3
    <3>2. WitnessedOK(work')
      BY <3>1, SameWitnessed DEF WitnessInv
    <3> QED
      BY <1>1, <1>2, <2>1, <3>2 DEF WitnessInv
  <2>4. CASE InsertWitness \/ InsertFact
    <3>1. WitnessedOK(work')
      BY <2>4, InsertWitnessWitnessed, InsertFactWitnessed
    <3> QED
      BY <1>1, <1>2, <2>1, <3>1 DEF WitnessInv
  <2> QED
    BY <1>3, <2>3, <2>4 DEF Writes
<1>4. CASE ~Writes
  BY <1>1, <1>2, <1>4, OthersKeepTables DEF WitnessInv
<1> QED
  BY <1>3, <1>4

\* At every statement what is inserted leads to the root witness.
THEOREM WitnessInvHolds == Spec => []WitnessInv
<1>1. Init => WitnessInv
  <2> SUFFICES ASSUME Init PROVE WitnessInv
    OBVIOUS
  <2>1. EmptyTables.records = << >>
    BY DEF EmptyTables
  <2> QED
    BY <2>1 DEF Init, WitnessInv, WitnessedOK, PreparedWitnessed, WitnessesInserted
<1> QED
  BY <1>1, NextWitnessed, TypeCorrect, PathInvHolds, ViewHoldsCommitted, PTL DEF Spec

\* store_witness.go:267: whatever contexts the batches spell out or reuse, whichever of
\* their witnesses are retained already, and whatever is cancelled or lost in a crash,
\* every committed record is on a path and its witness leads to the root witness.
THEOREM AllAreWitnessed == Spec => []WitnessedToRoot
<1>1. Filed(db) /\ WitnessedOK(db) => WitnessedToRoot
  <2> SUFFICES ASSUME Filed(db), WitnessedOK(db), NEW id \in DOMAIN db.records
               PROVE  (\E e \in db.paths : e.record_id = id) /\ LeadsToRoot(db, id)
    BY DEF WitnessedToRoot, LeadsToRoot
  <2> QED
    BY DEF Filed, WitnessedOK
<1>2. GraphInv /\ WitnessInv => WitnessedToRoot
  BY <1>1 DEF GraphInv, GraphOK, WitnessInv
<1> QED
  BY <1>2, GraphInvHolds, WitnessInvHolds, PTL
-----------------------------------------------------------------------------
(***************************************************************************)
(* The receipts, and the store as a log.  While a batch is inserted its    *)
(* entries are those of the facts inserted so far, which are numbered and  *)
(* placed as its receipt says; entries of other intents are not added to.  *)
(*                                                                         *)
(* COMMIT is the only step of the abstract log.  What it adds is what the  *)
(* transaction's view is ahead by: nothing when a retry is answered, else  *)
(* the witnesses and the facts of one intent that was not committed, and   *)
(* at most one frontier, whose place was resolved in the same transaction. *)
(* A log is read off the entries of a path by ordinal, so it is continued  *)
(* by the added entries because the ordinals of a path have no gap and no  *)
(* entry shares one.                                                       *)
(***************************************************************************)
\* The entries of an intent's facts, and what its receipt must say of them.
Mine(t, i) == {e \in FactEntries(t) : e.append_intent_id = i}

Accounts(t, i) ==
    LET r == t.intents[i].receipt
    IN  /\ {<<Commit(e), e.record_id>> : e \in Mine(t, i)}
             = {<<r.commits[k], r.fact_ids[k]>> : k \in DOMAIN r.fact_ids}
        /\ {e.path_ref : e \in Mine(t, i)} = DOMAIN r.owner_ranges
        /\ \A p \in DOMAIN r.owner_ranges :
             {e.path_ordinal : e \in Mine(t, i) \cap Entries(t, p)}
               = r.owner_ranges[p][1] .. r.owner_ranges[p][2]

AllAccounted(t) == \A i \in DOMAIN t.intents : Accounts(t, i)

IntentsKnown(t) == \A e \in FactEntries(t) : e.append_intent_id \in DOMAIN t.intents

\* What the entries of the first n prepared facts say.
PreparedPlaces(fs, n) ==
    {<<fs[k].commit, fs[k].record_id, fs[k].trace_owner_id, fs[k].owner_ordinal>> : k \in 1 .. n}

EntryPlaces(S) == {<<Commit(e), e.record_id, e.path_ref, e.path_ordinal>> : e \in S}

\* The intent that is being inserted.
Inserting ==
    LET i == batch.append_intent_id
    IN  /\ i \notin DOMAIN db.intents
        /\ DOMAIN work.intents = DOMAIN db.intents \cup {i}
        /\ work.intents[i].receipt = receipt
        /\ receipt.fact_ids = [k \in DOMAIN facts |-> facts[k].record_id]
        /\ receipt.commits = [k \in DOMAIN facts |-> facts[k].commit]
        /\ \A j \in DOMAIN db.intents : Accounts(work, j)
        /\ EntryPlaces(Mine(work, i)) = PreparedPlaces(facts, IF pc = "fact" THEN at - 1 ELSE 0)

ReceiptsInv ==
    /\ IntentsKnown(db) /\ AllAccounted(db) /\ IntentsKnown(work)
    /\ pc \notin {"witness", "fact"} \/ ctxDone => AllAccounted(work)
    /\ (pc \in {"witness", "fact"} /\ ~ctxDone) => Inserting

\* Only intents and paths matter to an account.
LEMMA SameAccounts ==
    ASSUME NEW t, NEW u, u.paths = t.paths, NEW i, u.intents[i].receipt = t.intents[i].receipt
    PROVE  /\ FactEntries(u) = FactEntries(t) /\ Mine(u, i) = Mine(t, i)
           /\ Accounts(u, i) <=> Accounts(t, i)
<1>1. FactEntries(u) = FactEntries(t) /\ Mine(u, i) = Mine(t, i)
  BY DEF FactEntries, Mine
<1>2. \A p : Entries(u, p) = Entries(t, p)
  BY DEF Entries
<1> QED
  BY <1>1, <1>2 DEF Accounts

\* An entry of another intent, or of a witness, is not of an account.
LEMMA OtherEntryAccounts ==
    ASSUME NEW t, NEW u, NEW e, u.paths = t.paths \cup {e}, u.intents = t.intents,
           NEW i, e.append_intent_id # i \/ e.commit_receipt[1] # "commit"
    PROVE  Mine(u, i) = Mine(t, i) /\ (Accounts(u, i) <=> Accounts(t, i))
<1>1. Mine(u, i) = Mine(t, i)
  BY DEF Mine, FactEntries
<1>2. \A p : Mine(u, i) \cap Entries(u, p) = Mine(t, i) \cap Entries(t, p)
  BY <1>1 DEF Entries, Mine, FactEntries
<1> QED
  BY <1>1, <1>2 DEF Accounts

\* The intents are not touched by an insert.
LEMMA InsertKeepsIntents ==
    ASSUME NEW t, DOMAIN t = TableNames, NEW fact, NEW r
    PROVE  insertFactRow(t, fact, r).intents = t.intents
<1> DEFINE v == insertRecordIfMissing(t, fact)
<1>1. v.intents = t.intents /\ DOMAIN v = TableNames
  BY DEF insertRecordIfMissing, TableNames
<1>2. insertFactRow(t, fact, r) = [v EXCEPT !.paths = @ \cup {Entry(fact, r)}]
  BY DEF insertFactRow
<1> HIDE DEF v
<1> QED
  BY <1>1, <1>2 DEF TableNames

\* When all its facts are inserted, an intent is accounted for.
LEMMA AllInserted ==
    ASSUME TypeOK, PathInv, Inserting, pc = "fact", ~ctxDone, at \notin DOMAIN facts
    PROVE  Accounts(work, batch.append_intent_id)
<1> DEFINE i == batch.append_intent_id
           n == Len(facts)
           S == Mine(work, i)
<1>1. at - 1 = n /\ n \in Nat /\ DOMAIN facts = 1 .. n
  BY DraftsFromOne DEF PathInv, InsertedInv
<1>2. EntryPlaces(S) = PreparedPlaces(facts, n)
  BY <1>1 DEF Inserting
<1>3. /\ receipt.owner_ranges = [o \in FactOwners |-> <<db.next[o], staged[o] - 1>>]
      /\ \A p \in Paths : PreparedOrdinals(facts, n, p) = db.next[p] .. staged[p] - 1
  BY DEF PathInv, RangesInv, PreparedInv
<1>4. FactOwners \subseteq Paths
  BY DEF TypeOK, FactOwners, FactTypeOK
<1>5. /\ receipt.fact_ids = [k \in 1 .. n |-> facts[k].record_id]
      /\ receipt.commits = [k \in 1 .. n |-> facts[k].commit]
      /\ work.intents[i].receipt = receipt
  BY <1>1 DEF Inserting
<1> HIDE DEF S, n
<1>6. /\ \A e \in S : \E k \in 1 .. n :
           /\ Commit(e) = facts[k].commit /\ e.record_id = facts[k].record_id
           /\ e.path_ref = facts[k].trace_owner_id /\ e.path_ordinal = facts[k].owner_ordinal
      /\ \A k \in 1 .. n : \E e \in S :
           /\ Commit(e) = facts[k].commit /\ e.record_id = facts[k].record_id
           /\ e.path_ref = facts[k].trace_owner_id /\ e.path_ordinal = facts[k].owner_ordinal
  <2>1. ASSUME NEW e \in S PROVE \E k \in 1 .. n :
           /\ Commit(e) = facts[k].commit /\ e.record_id = facts[k].record_id
           /\ e.path_ref = facts[k].trace_owner_id /\ e.path_ordinal = facts[k].owner_ordinal
    <3>1. <<Commit(e), e.record_id, e.path_ref, e.path_ordinal>> \in PreparedPlaces(facts, n)
      BY <1>2 DEF EntryPlaces
    <3> QED
      BY <3>1 DEF PreparedPlaces
  <2>2. ASSUME NEW k \in 1 .. n PROVE \E e \in S :
           /\ Commit(e) = facts[k].commit /\ e.record_id = facts[k].record_id
           /\ e.path_ref = facts[k].trace_owner_id /\ e.path_ordinal = facts[k].owner_ordinal
    <3>1. <<facts[k].commit, facts[k].record_id, facts[k].trace_owner_id, facts[k].owner_ordinal>>
            \in EntryPlaces(S)
      BY <1>2 DEF PreparedPlaces
    <3> QED
      BY <3>1 DEF EntryPlaces
  <2> QED
    BY <2>1, <2>2
<1>7. {<<Commit(e), e.record_id>> : e \in S} = {<<facts[k].commit, facts[k].record_id>> : k \in 1 .. n}
  BY <1>6
<1>8. {e.path_ref : e \in S} = FactOwners
  <2>1. FactOwners = {facts[k].trace_owner_id : k \in 1 .. n}
    BY <1>1 DEF FactOwners
  <2>2. \A e \in S : e.path_ref \in {facts[k].trace_owner_id : k \in 1 .. n}
    BY <1>6
  <2>3. \A k \in 1 .. n : facts[k].trace_owner_id \in {e.path_ref : e \in S}
    BY <1>6
  <2> QED
    BY <2>1, <2>2, <2>3
<1>9. ASSUME NEW p \in FactOwners
      PROVE  {e.path_ordinal : e \in S \cap Entries(work, p)} = db.next[p] .. staged[p] - 1
  <2>1. S \subseteq work.paths
    BY DEF S, Mine, FactEntries
  <2>2. S \cap Entries(work, p) = {e \in S : e.path_ref = p}
    BY <2>1 DEF Entries
  <2>3. {e.path_ordinal : e \in {d \in S : d.path_ref = p}} = PreparedOrdinals(facts, n, p)
    BY <1>6 DEF PreparedOrdinals
  <2> QED
    BY <1>3, <1>4, <2>2, <2>3
<1>10. {<<receipt.commits[k], receipt.fact_ids[k]>> : k \in DOMAIN receipt.fact_ids}
         = {<<facts[k].commit, facts[k].record_id>> : k \in 1 .. n}
  BY <1>5
<1>11. /\ DOMAIN receipt.owner_ranges = FactOwners
       /\ \A p \in FactOwners : receipt.owner_ranges[p][1] = db.next[p]
                                /\ receipt.owner_ranges[p][2] = staged[p] - 1
  BY <1>3
<1>12. \A p \in DOMAIN receipt.owner_ranges :
          {e.path_ordinal : e \in S \cap Entries(work, p)}
            = receipt.owner_ranges[p][1] .. receipt.owner_ranges[p][2]
  BY <1>9, <1>11
<1>13. {<<Commit(e), e.record_id>> : e \in S}
         = {<<receipt.commits[k], receipt.fact_ids[k]>> : k \in DOMAIN receipt.fact_ids}
  BY <1>7, <1>10, Zenon
<1>14. {e.path_ref : e \in S} = DOMAIN receipt.owner_ranges
  BY <1>8, <1>11
<1>15. work.intents[i].receipt = receipt
  BY <1>5
<1> HIDE DEF i
<1>16. Accounts(work, i)
  BY <1>12, <1>13, <1>14, <1>15 DEF Accounts, S
<1> QED
  BY <1>16 DEF i

\* Before the first fact no place is prepared, and one more fact prepares one more.
LEMMA PlacesStepwise ==
    ASSUME NEW fs
    PROVE  /\ PreparedPlaces(fs, 0) = {}
           /\ \A n \in Nat : PreparedPlaces(fs, n + 1) = PreparedPlaces(fs, n) \cup
                {<<fs[n + 1].commit, fs[n + 1].record_id, fs[n + 1].trace_owner_id, fs[n + 1].owner_ordinal>>}
<1>1. 1 .. 0 = {} /\ \A n \in Nat : 1 .. n + 1 = (1 .. n) \cup {n + 1}
  OBVIOUS
<1> QED
  BY <1>1 DEF PreparedPlaces

\* The tables a write leaves.
LEMMA WritesTables ==
    ASSUME TypeOK
    PROVE  /\ RetainIntent => work'.paths = work.paths /\ work'.intents = WithIntent(work)
           /\ InsertWitness => /\ work'.paths = work.paths \cup {WitnessEntry(Plan(at))}
                               /\ work'.intents = work.intents
           /\ InsertFact => /\ work'.paths = work.paths \cup {Entry(facts[at], <<"commit", facts[at].commit>>)}
                            /\ work'.intents = work.intents
           /\ AdvanceCounters => work'.paths = work.paths /\ work'.intents = work.intents
           /\ IndexFrontier => work'.paths = work.paths /\ work'.intents = work.intents
<1>1. DOMAIN work = TableNames
  BY EmptyTablesFields DEF TypeOK, TablesTypeOK
<1>2. ASSUME RetainIntent PROVE work'.paths = work.paths /\ work'.intents = WithIntent(work)
  BY <1>1, <1>2 DEF RetainIntent, TableNames
<1>3. ASSUME InsertWitness PROVE work'.intents = work.intents
  <2> DEFINE t == insertFactRow(work, WitnessFact(Plan(at)), <<"witness", Plan(at).record_id>>)
             n == [t.next EXCEPT ![witnessTraceOwnerID] = @ + 1]
  <2>1. work' = [t EXCEPT !.next = n]
    BY <1>3 DEF InsertWitness
  <2> HIDE DEF n
  <2>2. t.intents = work.intents /\ DOMAIN t = TableNames
    BY <1>1, InsertKeepsIntents, InsertFactRowFields
  <2> HIDE DEF t
  <2> QED
    BY <2>1, <2>2 DEF TableNames
<1>4. ASSUME InsertFact PROVE work'.intents = work.intents
  BY <1>1, <1>4, InsertKeepsIntents DEF InsertFact
<1>5. ASSUME AdvanceCounters PROVE work'.paths = work.paths /\ work'.intents = work.intents
  BY <1>1, <1>5 DEF AdvanceCounters, TableNames
<1>6. ASSUME IndexFrontier PROVE work'.paths = work.paths /\ work'.intents = work.intents
  BY <1>1, <1>6 DEF IndexFrontier, TableNames
<1> QED
  BY <1>2, <1>3, <1>4, <1>5, <1>6, InsertWitnessTables, InsertFactTables

\* Retaining an intent begins its account.
LEMMA RetainIntentReceipts ==
    ASSUME TypeOK, ViewInv, GrowthInv, ReceiptsInv, RetainIntent
    PROVE  ReceiptsInv'
<1> DEFINE i == batch.append_intent_id
<1>1. /\ work = db /\ db' = db /\ pc' = "witness" /\ ~ctxDone /\ ctxDone' = ctxDone
      /\ batch' = batch /\ facts' = facts /\ receipt' = PreparedReceipt
      /\ i \notin DOMAIN db.intents
  BY DEF RetainIntent, ViewInv, GrowthInv, FreshIntent
<1>2. work'.paths = work.paths /\ work'.intents = WithIntent(work)
  BY WritesTables
<1>3. /\ DOMAIN work'.intents = DOMAIN db.intents \cup {i}
      /\ work'.intents[i].receipt = PreparedReceipt
      /\ \A j \in DOMAIN db.intents : work'.intents[j] = db.intents[j]
  BY <1>1, <1>2 DEF WithIntent
<1>4. /\ PreparedReceipt.fact_ids = [k \in DOMAIN facts |-> facts[k].record_id]
      /\ PreparedReceipt.commits = [k \in DOMAIN facts |-> facts[k].commit]
  BY DEF PreparedReceipt
<1> HIDE DEF i
<1>5. \A j \in DOMAIN db.intents : Accounts(work', j)
  BY <1>1, <1>2, <1>3, SameAccounts DEF ReceiptsInv, AllAccounted
<1>6. FactEntries(work') = FactEntries(db)
  BY <1>1, <1>2 DEF FactEntries
<1>7. IntentsKnown(work') /\ Mine(work', i) = {}
  BY <1>1, <1>3, <1>6 DEF ReceiptsInv, IntentsKnown, Mine
<1>8. EntryPlaces(Mine(work', i)) = PreparedPlaces(facts, 0)
  BY <1>7, PlacesStepwise DEF EntryPlaces
<1>9. Inserting'
  BY <1>1, <1>3, <1>4, <1>5, <1>8 DEF Inserting, i
<1> QED
  BY <1>1, <1>7, <1>9 DEF ReceiptsInv

\* Witnesses are of no account.
LEMMA InsertWitnessReceipts ==
    ASSUME TypeOK, ReceiptsInv, InsertWitness
    PROVE  ReceiptsInv'
<1> DEFINE e == WitnessEntry(Plan(at))
<1>1. /\ db' = db /\ pc = "witness" /\ pc' = pc /\ ~ctxDone /\ ctxDone' = ctxDone
      /\ batch' = batch /\ facts' = facts /\ receipt' = receipt
  BY DEF InsertWitness
<1>2. work'.paths = work.paths \cup {e} /\ work'.intents = work.intents
  BY WritesTables
<1>3. e.commit_receipt[1] = "witness"
  BY EntryFields DEF WitnessEntry
<1> HIDE DEF e
<1>4. FactEntries(work') = FactEntries(work)
  BY <1>2, <1>3 DEF FactEntries
<1>5. \A j : Mine(work', j) = Mine(work, j) /\ (Accounts(work', j) <=> Accounts(work, j))
  BY <1>2, <1>3, OtherEntryAccounts
<1>6. Inserting
  BY <1>1 DEF ReceiptsInv
<1>7. Inserting'
  BY <1>1, <1>2, <1>5, <1>6 DEF Inserting
<1> QED
  BY <1>1, <1>2, <1>4, <1>7 DEF ReceiptsInv, IntentsKnown

\* A fact is one more entry of its intent's account.
LEMMA InsertFactReceipts ==
    ASSUME TypeOK, ReceiptsInv, InsertFact
    PROVE  ReceiptsInv'
<1> DEFINE i == batch.append_intent_id
           f == facts[at]
           e == Entry(f, <<"commit", f.commit>>)
           m == at - 1
<1>1. /\ db' = db /\ pc = "fact" /\ pc' = pc /\ ~ctxDone /\ ctxDone' = ctxDone
      /\ batch' = batch /\ facts' = facts /\ receipt' = receipt /\ at \in DOMAIN facts /\ at' = at + 1
  BY DEF InsertFact
<1>2. work'.paths = work.paths \cup {e} /\ work'.intents = work.intents
  BY WritesTables
<1>3. /\ e.commit_receipt = <<"commit", f.commit>> /\ e.append_intent_id = i
      /\ e.path_ref = f.trace_owner_id /\ e.path_ordinal = f.owner_ordinal
      /\ e.record_id = f.record_id
  BY DEF Entry
<1>4. e.commit_receipt[1] = "commit" /\ Commit(e) = f.commit
  BY <1>3 DEF Commit
<1>5. m \in Nat /\ m + 1 = at /\ at' - 1 = at
  BY <1>1, DraftsFromOne
<1>6. PreparedPlaces(facts, at) = PreparedPlaces(facts, m) \cup
        {<<f.commit, f.record_id, f.trace_owner_id, f.owner_ordinal>>}
  BY <1>5, PlacesStepwise
<1>7. Inserting /\ EntryPlaces(Mine(work, i)) = PreparedPlaces(facts, m)
  BY <1>1 DEF ReceiptsInv, Inserting
<1> HIDE DEF e, f, i, m
<1>8. FactEntries(work') = FactEntries(work) \cup {e}
  BY <1>2, <1>4 DEF FactEntries
<1>9. Mine(work', i) = Mine(work, i) \cup {e}
  BY <1>3, <1>8 DEF Mine
<1>10. EntryPlaces(Mine(work', i)) = PreparedPlaces(facts, at)
  <2>1. EntryPlaces(Mine(work', i)) = EntryPlaces(Mine(work, i)) \cup
          {<<Commit(e), e.record_id, e.path_ref, e.path_ordinal>>}
    BY <1>9 DEF EntryPlaces
  <2> QED
    BY <1>3, <1>4, <1>6, <1>7, <2>1
<1>11. ASSUME NEW j \in DOMAIN db.intents PROVE Accounts(work', j)
  <2>1. j # i /\ Accounts(work, j)
    BY <1>7 DEF Inserting, i
  <2> QED
    BY <1>2, <1>3, <2>1, OtherEntryAccounts
<1>12. Inserting'
  BY <1>1, <1>2, <1>5, <1>7, <1>10, <1>11 DEF Inserting, i
<1>13. IntentsKnown(work')
  BY <1>2, <1>3, <1>7, <1>8 DEF ReceiptsInv, IntentsKnown, Inserting, i
<1> QED
  BY <1>1, <1>12, <1>13 DEF ReceiptsInv

\* The account is whole before the counters move.
LEMMA AdvanceCountersReceipts ==
    ASSUME TypeOK, PathInv, ReceiptsInv, AdvanceCounters
    PROVE  ReceiptsInv'
<1>1. /\ db' = db /\ pc = "fact" /\ pc' \notin {"witness", "fact"} /\ ~ctxDone /\ at \notin DOMAIN facts
  BY DEF AdvanceCounters
<1>2. work'.paths = work.paths /\ work'.intents = work.intents
  BY WritesTables
<1>3. Inserting
  BY <1>1 DEF ReceiptsInv
<1>4. \A j \in DOMAIN work.intents : Accounts(work, j)
  BY <1>1, <1>3, AllInserted DEF Inserting
<1>5. AllAccounted(work') /\ IntentsKnown(work')
  BY <1>2, <1>4, SameAccounts DEF AllAccounted, IntentsKnown, ReceiptsInv
<1> QED
  BY <1>1, <1>5 DEF ReceiptsInv

\* The frontier index is of no account.
LEMMA IndexFrontierReceipts ==
    ASSUME TypeOK, ReceiptsInv, IndexFrontier
    PROVE  ReceiptsInv'
<1>1. db' = db /\ pc = "index" /\ pc' = "commit"
  BY DEF IndexFrontier
<1>2. work'.paths = work.paths /\ work'.intents = work.intents
  BY WritesTables
<1>3. AllAccounted(work') /\ IntentsKnown(work')
  BY <1>1, <1>2, SameAccounts DEF AllAccounted, IntentsKnown, ReceiptsInv
<1> QED
  BY <1>1, <1>3 DEF ReceiptsInv

\* All others leave the accounts, drop them or commit them.
LEMMA OthersReceipts ==
    ASSUME TypeOK, ReceiptsInv, [Next]_vars, ~Writes
    PROVE  ReceiptsInv'
<1>1. CASE KeepWitness \/ EndWitnesses
  <2>1. /\ db' = db /\ work' = work /\ pc = "witness" /\ ~ctxDone /\ ctxDone' = ctxDone
        /\ batch' = batch /\ facts' = facts /\ receipt' = receipt
        /\ (pc' = "witness" \/ (pc' = "fact" /\ at' - 1 = 0))
    BY <1>1 DEF KeepWitness, EndWitnesses
  <2>2. Inserting'
    BY <2>1 DEF ReceiptsInv, Inserting
  <2> QED
    BY <2>1, <2>2 DEF ReceiptsInv
<1>2. CASE CommitTx
  <2>1. db' = work /\ work' = work /\ pc = "commit" /\ pc' \notin {"witness", "fact"}
    BY <1>2 DEF CommitTx
  <2> QED
    BY <2>1 DEF ReceiptsInv
<1>3. CASE work' = db /\ db' = db /\ (pc' \notin {"witness", "fact"} \/ ctxDone')
  BY <1>3 DEF ReceiptsInv
<1>4. CASE work' = work /\ db' = db /\ pc \notin {"witness", "fact"} /\ pc' \notin {"witness", "fact"}
  BY <1>4 DEF ReceiptsInv
<1>5. CASE Errors \/ Crash \/ Cancel
  BY <1>3, <1>5, ErrorsFail DEF Fail, Crash, Forget, Cancel
<1>6. CASE Begin \/ ResolveThrough \/ AnswerRetry \/ StartStaging \/ StageDraft \/ KeepFrontier
           \/ PublishEvent \/ EndPublish \/ Return
  BY <1>4, <1>6 DEF Begin, BeginAppend, BeginPublish, RefuseCaller, ResolveThrough, AnswerRetry,
                    StartStaging, StageDraft, KeepFrontier, PublishEvent, EndPublish, Return, Forget
<1>7. CASE UNCHANGED vars
  BY <1>7 DEF vars, scratch, ReceiptsInv, Inserting
<1> QED
  BY <1>1, <1>2, <1>5, <1>6, <1>7 DEF Next, Step, Errors, Writes

\* At every statement the receipts account for the entries.
THEOREM ReceiptsInvHolds == Spec => []ReceiptsInv
<1>1. Init => ReceiptsInv
  <2> SUFFICES ASSUME Init PROVE ReceiptsInv
    OBVIOUS
  <2>1. EmptyTables.intents = << >> /\ EmptyTables.paths = {}
    BY DEF EmptyTables
  <2> QED
    BY <2>1 DEF Init, ReceiptsInv, IntentsKnown, AllAccounted, FactEntries
<1>2. TypeOK /\ PathInv /\ GrowthInv /\ ReceiptsInv /\ [Next]_vars => ReceiptsInv'
  BY RetainIntentReceipts, InsertWitnessReceipts, InsertFactReceipts, AdvanceCountersReceipts,
     IndexFrontierReceipts, OthersReceipts DEF Writes, PathInv
<1> QED
  BY <1>1, <1>2, TypeCorrect, PathInvHolds, ViewHoldsCommitted, PTL DEF Spec

\* What is acknowledged: the receipt that the intents table keeps.
Keeps(t, r) ==
    /\ batch.append_intent_id \in DOMAIN t.intents
    /\ t.intents[batch.append_intent_id].receipt = r

DurableInv ==
    /\ (pc \in {"index", "commit"} /\ ~ctxDone) => Keeps(work, receipt)
    /\ pc \notin {"publish", "reply"} => reply = NoReply
    /\ reply.status = "ok" => Keeps(db, reply.receipt)

\* A refusal is no acknowledgement.
LEMMA RefusalsAreNotOk ==
    ASSUME Errors \/ \E c \in AppendCalls \cup PublishCalls : RefuseCaller(c)
    PROVE  pc' = "reply" /\ reply'.status # "ok"
<1>1. \A status : Fail(status) => pc' = "reply" /\ reply'.status = status
  BY DEF Fail
<1>2. Errors => \E status \in {"rejected", "unknown_fact", "conflict", "refused", "error"} : Fail(status)
  BY DEF Errors, RefuseThrough, RejectShape, RefuseConflict, RefuseDraft, RefuseFact,
         RefuseFrontier, FailStatement
<1>3. \A c : RefuseCaller(c) => pc' = "reply" /\ reply'.status = "unauthorized"
  BY DEF RefuseCaller
<1> QED
  BY <1>1, <1>2, <1>3

\* Every step keeps what is acknowledged.
LEMMA NextDurable ==
    ASSUME TypeOK, ViewInv, ReceiptsInv, DurableInv, [Next]_vars
    PROVE  DurableInv'
<1>0. NoReply.status # "ok"
  BY DEF NoReply
<1>1. CASE Errors \/ \E c \in AppendCalls \cup PublishCalls : RefuseCaller(c)
  BY <1>1, RefusalsAreNotOk DEF DurableInv
<1>2. CASE pc' \notin {"index", "commit", "publish", "reply"} /\ reply' = NoReply
  BY <1>0, <1>2 DEF DurableInv
<1>3. CASE \/ \E c \in AppendCalls : BeginAppend(c)
           \/ \E c \in PublishCalls : BeginPublish(c)
           \/ ResolveThrough \/ StartStaging \/ StageDraft \/ RetainIntent
           \/ KeepWitness \/ InsertWitness \/ EndWitnesses \/ InsertFact
  <2>1. reply = NoReply
    BY <1>3 DEF BeginAppend, BeginPublish, ResolveThrough, StartStaging, StageDraft, RetainIntent,
                KeepWitness, InsertWitness, EndWitnesses, InsertFact, DurableInv
  <2> QED
    BY <1>2, <1>3, <2>1
       DEF BeginAppend, BeginPublish, ResolveThrough, StartStaging, StageDraft, RetainIntent,
           KeepWitness, InsertWitness, EndWitnesses, InsertFact
<1>4. CASE Crash \/ Return
  BY <1>2, <1>4 DEF Crash, Return, Forget
<1>5. CASE AnswerRetry
  <2>1. /\ pc = "lookup" /\ pc' \in {"index", "commit"} /\ reply' = reply /\ batch' = batch /\ work' = work
        /\ IntentKnown /\ receipt' = work.intents[batch.append_intent_id].receipt
    BY <1>5 DEF AnswerRetry
  <2> QED
    BY <1>0, <2>1 DEF DurableInv, Keeps, IntentKnown
<1>6. CASE AdvanceCounters
  <2>1. /\ pc = "fact" /\ pc' \in {"index", "commit"} /\ ~ctxDone
        /\ reply' = reply /\ batch' = batch /\ receipt' = receipt
    BY <1>6 DEF AdvanceCounters, scratch
  <2>2. work'.intents = work.intents
    BY <1>6, WritesTables
  <2>3. Keeps(work, receipt)
    BY <2>1 DEF ReceiptsInv, Inserting, Keeps
  <2> QED
    BY <1>0, <2>1, <2>2, <2>3 DEF DurableInv, Keeps
<1>7. CASE IndexFrontier \/ KeepFrontier
  <2>1. /\ pc = "index" /\ pc' = "commit" /\ ~ctxDone
        /\ reply' = reply /\ batch' = batch /\ receipt' = receipt
    BY <1>7 DEF IndexFrontier, KeepFrontier, scratch
  <2>2. work'.intents = work.intents
    BY <1>7, WritesTables DEF KeepFrontier
  <2> QED
    BY <1>0, <2>1, <2>2 DEF DurableInv, Keeps
<1>8. CASE CommitTx
  <2>1. /\ pc = "commit" /\ pc' \in {"publish", "reply"} /\ ~ctxDone
        /\ db' = work /\ batch' = batch /\ reply' = [status |-> "ok", receipt |-> receipt]
    BY <1>8 DEF CommitTx
  <2> QED
    BY <2>1 DEF DurableInv, Keeps
<1>9. CASE PublishEvent \/ EndPublish
  <2>1. pc' \in {"publish", "reply"} /\ db' = db /\ batch' = batch /\ reply' = reply
    BY <1>9 DEF PublishEvent, EndPublish, scratch
  <2> QED
    BY <2>1 DEF DurableInv, Keeps
<1>10. CASE Cancel
  <2>1. reply' = reply /\ pc' = pc /\ pc \notin {"publish", "reply"} /\ ctxDone'
    BY <1>10 DEF Cancel, InTransaction
  <2> QED
    BY <1>0, <2>1 DEF DurableInv
<1>11. CASE UNCHANGED vars
  BY <1>11 DEF vars, scratch, DurableInv, Keeps
<1> QED
  BY <1>1, <1>3, <1>4, <1>5, <1>6, <1>7, <1>8, <1>9, <1>10, <1>11
     DEF Next, Begin, Step, Errors

\* store_append.go:41: for any batches and retries, through every cancellation and crash, a
\* caller that is answered holds the receipt the store keeps for its intent, and a kept
\* receipt names exactly the entries of its intent, with their numbers and places.
THEOREM ReceiptsStayDurable == Spec => []ReceiptsAreDurable
<1>1. Init => DurableInv
  <2>1. NoReply.status # "ok"
    BY DEF NoReply
  <2> QED
    BY <2>1 DEF Init, DurableInv
<1>2. TypeOK /\ PathInv /\ ReceiptsInv /\ DurableInv /\ [Next]_vars => DurableInv'
  BY NextDurable DEF PathInv
<1>3. ReceiptsInv => ReceiptsAccountForEntries
  BY DEF ReceiptsInv, AllAccounted, Accounts, Mine, ReceiptsAccountForEntries
<1>4. DurableInv => AckedIsDurable
  BY DEF DurableInv, Keeps, AckedIsDurable
<1>5. ReceiptsInv /\ DurableInv => ReceiptsAreDurable
  BY <1>3, <1>4 DEF ReceiptsAreDurable
<1> QED
  BY <1>1, <1>2, <1>5, TypeCorrect, PathInvHolds, ReceiptsInvHolds, PTL DEF Spec

-----------------------------------------------------------------------------
(***************************************************************************)
(* The logs, read off the entries.                                         *)
(***************************************************************************)
\* The log of a path by any tables.
LogIn(t, path) ==
    [n \in 1 .. t.next[path] |->
       (CHOOSE e \in Entries(t, path) : e.path_ordinal = n - 1).record_id]

\* The tables of which a log can be read.
Readable(t) == TablesTypeOK(t) /\ Contiguous(t) /\ KeysUnique(t)

\* A log has the entries of its path at their ordinals.
LEMMA LogEntries ==
    ASSUME NEW t, Readable(t), NEW p \in Paths
    PROVE  /\ t.next[p] \in Nat
           /\ LogIn(t, p) \in Seq({e.record_id : e \in t.paths})
           /\ Len(LogIn(t, p)) = t.next[p]
           /\ \A e \in Entries(t, p) :
                /\ e.path_ordinal \in Nat /\ e.path_ordinal + 1 \in 1 .. t.next[p]
                /\ LogIn(t, p)[e.path_ordinal + 1] = e.record_id
           /\ \A n \in 1 .. t.next[p] : \E e \in Entries(t, p) : e.path_ordinal = n - 1
<1> DEFINE last == t.next[p]
           At(n) == CHOOSE e \in Entries(t, p) : e.path_ordinal = n - 1
<1>1. last \in Nat
  BY DEF Readable, TablesTypeOK
<1>2. \A n \in 1 .. last : \E e \in Entries(t, p) : e.path_ordinal = n - 1
  <2> SUFFICES ASSUME NEW n \in 1 .. last PROVE \E e \in Entries(t, p) : e.path_ordinal = n - 1
    OBVIOUS
  <2>1. n - 1 \in 0 .. last - 1
    BY <1>1
  <2>2. n - 1 \in Ordinals(t, p)
    BY <2>1 DEF Readable, Contiguous
  <2> QED
    BY <2>2 DEF Ordinals
<1>3. \A e \in Entries(t, p) : e.path_ordinal \in Nat /\ e.path_ordinal + 1 \in 1 .. last
  <2> SUFFICES ASSUME NEW e \in Entries(t, p)
               PROVE  e.path_ordinal \in Nat /\ e.path_ordinal + 1 \in 1 .. last
    OBVIOUS
  <2>1. e.path_ordinal \in Ordinals(t, p)
    BY DEF Ordinals
  <2>2. e.path_ordinal \in 0 .. last - 1
    BY <2>1 DEF Readable, Contiguous
  <2> QED
    BY <1>1, <2>2
<1>4. \A n \in 1 .. last : At(n) \in Entries(t, p) /\ At(n).path_ordinal = n - 1
  BY <1>2
<1>5. LogIn(t, p) = [n \in 1 .. last |-> At(n).record_id]
  BY DEF LogIn
<1> HIDE DEF At, last
<1>6. \A n \in 1 .. last : At(n).record_id \in {e.record_id : e \in t.paths}
  BY <1>4 DEF Entries
<1>7. LogIn(t, p) \in Seq({e.record_id : e \in t.paths}) /\ Len(LogIn(t, p)) = last
  BY <1>1, <1>5, <1>6
<1>8. ASSUME NEW e \in Entries(t, p)
      PROVE  LogIn(t, p)[e.path_ordinal + 1] = e.record_id
  <2> DEFINE n == e.path_ordinal + 1
  <2>1. n \in 1 .. last /\ n - 1 = e.path_ordinal
    BY <1>3
  <2>2. At(n) \in Entries(t, p) /\ At(n).path_ordinal = e.path_ordinal
    BY <1>4, <2>1
  <2>3. At(n) = e
    BY <2>2 DEF Readable, KeysUnique, Entries
  <2> QED
    BY <1>5, <2>1, <2>3
<1> QED
  BY <1>1, <1>2, <1>3, <1>7, <1>8 DEF last

\* A log is a sequence as long as the counter says.
LEMMA LogLength ==
    ASSUME NEW t, Readable(t), NEW p \in Paths
    PROVE  t.next[p] \in Nat /\ Len(LogIn(t, p)) = t.next[p]
  BY LogEntries

\* An entry is in the log at its ordinal.
LEMMA EntryInLog ==
    ASSUME NEW t, Readable(t), NEW p \in Paths, NEW e \in Entries(t, p)
    PROVE  /\ e.path_ordinal \in Nat /\ e.path_ordinal + 1 \in 1 .. t.next[p]
           /\ LogIn(t, p)[e.path_ordinal + 1] = e.record_id
  BY LogEntries

\* At every place of a log there is an entry.
LEMMA PlaceHasEntry ==
    ASSUME NEW t, Readable(t), NEW p \in Paths, NEW n \in 1 .. t.next[p]
    PROVE  \E e \in Entries(t, p) : e.path_ordinal = n - 1
  BY LogEntries

\* Only entries and counters matter to a log.
LEMMA SameLog ==
    ASSUME NEW t, NEW u, t.paths = u.paths, t.next = u.next, NEW p
    PROVE  LogIn(t, p) = LogIn(u, p)
<1>1. Entries(t, p) = Entries(u, p)
  BY DEF Entries
<1> QED
  BY <1>1 DEF LogIn

\* When entries are added, the log is continued.
LEMMA LogContinues ==
    ASSUME NEW t, NEW u, Readable(t), Readable(u), t.paths \subseteq u.paths, NEW p \in Paths,
           t.next[p] <= u.next[p]
    PROVE  TraceLog!IsPrefix(LogIn(t, p), LogIn(u, p))
<1> DEFINE s == LogIn(t, p)
           l == LogIn(u, p)
           S == {e.record_id : e \in u.paths}
<1>1. Len(s) = t.next[p] /\ Len(l) = u.next[p] /\ Len(s) \in Nat /\ Len(l) \in Nat
  BY LogLength
<1>2. s \in Seq(S) /\ l \in Seq(S)
  <2>1. {e.record_id : e \in t.paths} \subseteq S
    OBVIOUS
  <2>2. s \in Seq({e.record_id : e \in t.paths}) /\ l \in Seq(S)
    BY LogEntries
  <2> HIDE DEF s, l, S
  <2> QED
    BY <2>1, <2>2
<1>3. ASSUME NEW n \in 1 .. Len(s) PROVE s[n] = l[n]
  <2>1. PICK e \in Entries(t, p) : e.path_ordinal = n - 1
    BY <1>1, LogEntries
  <2>2. e \in Entries(u, p)
    BY <2>1 DEF Entries
  <2>3. e.path_ordinal + 1 = n
    BY <2>1
  <2>4. s[e.path_ordinal + 1] = e.record_id /\ l[e.path_ordinal + 1] = e.record_id
    BY <2>1, <2>2, LogEntries
  <2> QED
    BY <2>3, <2>4
<1> HIDE DEF s, l, S
<1>4. Len(s) <= Len(l)
  BY <1>1
<1>5. SubSeq(s, 1, Len(s)) = SubSeq(l, 1, Len(s))
  BY <1>1, <1>2, <1>3, <1>4
<1> QED
  BY <1>4, <1>5 DEF TraceLog!IsPrefix, s, l

-----------------------------------------------------------------------------
\* An entry of the path at an ordinal.
Holds(t, path, ordinal, id) ==
    \E e \in t.paths : e.path_ref = path /\ e.path_ordinal = ordinal /\ e.record_id = id

\* The transaction's view has the committed logs, or those and one more batch: witnesses
\* and the facts of its intent.
SameLogs == work.intents = db.intents /\ work.paths = db.paths /\ work.next = db.next

OneMoreBatch ==
    LET i == batch.append_intent_id
    IN  /\ i \notin DOMAIN db.intents
        /\ DOMAIN work.intents = DOMAIN db.intents \cup {i}
        /\ \A e \in work.paths \ db.paths : e.path_ref = W \/ e \in Mine(work, i)

LogsInv ==
    (pc \in {"witness", "fact", "index", "commit"} /\ ~ctxDone) =>
      (pc \in {"index", "commit"} /\ SameLogs) \/ OneMoreBatch

\* The batch of a frontier says where its through fact is, and its row says the same.
Prepared ==
    \E n : /\ batch = FrontierBatch(call.spec, call.auth, n)
           /\ Holds(db, call.spec.target_trace_owner_id, n, call.spec.through_fact_id)

OneMoreMark ==
    \E f \in DOMAIN work.frontiers :
      LET row == work.frontiers[f]
      IN  /\ f \notin DOMAIN db.frontiers
          /\ DOMAIN work.frontiers = DOMAIN db.frontiers \cup {f}
          /\ row.target_trace_owner_id \in Paths
          /\ Holds(work, row.target_trace_owner_id, row.through_owner_ordinal, row.through_fact_id)

MarksInv ==
    /\ pc = "through" => call \in PublishCalls
    /\ pc = "index" => call.op = "publish"
    /\ (call.op = "publish" /\ pc \in {"lookup", "stage", "witness", "fact", "index"}) =>
         call \in PublishCalls /\ Prepared
    /\ (pc \in {"witness", "fact", "index"} /\ ~ctxDone) => work.frontiers = db.frontiers
    /\ (pc = "commit" /\ ~ctxDone) => work.frontiers = db.frontiers \/ OneMoreMark

-----------------------------------------------------------------------------
-----------------------------------------------------------------------------
\* The counters that the writes leave alone.
LEMMA WritesCounters ==
    ASSUME TypeOK
    PROVE  IndexFrontier => work'.next = work.next
  BY EmptyTablesFields DEF IndexFrontier, TypeOK, TablesTypeOK, TableNames

\* The writes keep the view one batch ahead of the logs.
LEMMA WritesLogs ==
    ASSUME TypeOK, ViewInv, GrowthInv, ReceiptsInv, LogsInv, Writes
    PROVE  LogsInv'
<1> DEFINE i == batch.append_intent_id
<1>1. CASE RetainIntent
  <2>1. /\ work = db /\ db' = db /\ batch' = batch /\ i \notin DOMAIN db.intents
    BY <1>1 DEF RetainIntent, ViewInv, GrowthInv, FreshIntent
  <2>2. work'.paths = work.paths /\ work'.intents = WithIntent(work)
    BY <1>1, WritesTables
  <2>3. DOMAIN work'.intents = DOMAIN db.intents \cup {i}
    BY <2>1, <2>2 DEF WithIntent
  <2> HIDE DEF i
  <2> QED
    BY <2>1, <2>2, <2>3 DEF LogsInv, OneMoreBatch, i
<1>2. CASE InsertWitness
  <2> DEFINE e == WitnessEntry(Plan(at))
  <2>1. /\ db' = db /\ batch' = batch /\ pc = "witness" /\ ~ctxDone /\ OneMoreBatch
    BY <1>2 DEF InsertWitness, LogsInv
  <2>2. work'.paths = work.paths \cup {e} /\ work'.intents = work.intents
    BY <1>2, WritesTables
  <2>3. e.path_ref = W
    BY EntryFields, WitnessFactFields DEF WitnessEntry, W
  <2> HIDE DEF e, i
  <2>4. Mine(work, i) \subseteq Mine(work', i)
    BY <2>2 DEF Mine, FactEntries
  <2>5. OneMoreBatch'
    BY <2>1, <2>2, <2>3, <2>4 DEF OneMoreBatch, i
  <2> QED
    BY <2>5 DEF LogsInv
<1>3. CASE InsertFact
  <2> DEFINE e == Entry(facts[at], <<"commit", facts[at].commit>>)
  <2>1. /\ db' = db /\ batch' = batch /\ pc = "fact" /\ ~ctxDone /\ OneMoreBatch
    BY <1>3 DEF InsertFact, LogsInv
  <2>2. work'.paths = work.paths \cup {e} /\ work'.intents = work.intents
    BY <1>3, WritesTables
  <2>3. e.commit_receipt[1] = "commit" /\ e.append_intent_id = i
    BY DEF Entry
  <2> HIDE DEF e, i
  <2>4. Mine(work', i) = Mine(work, i) \cup {e}
    BY <2>2, <2>3 DEF Mine, FactEntries
  <2>5. OneMoreBatch'
    BY <2>1, <2>2, <2>4 DEF OneMoreBatch, i
  <2> QED
    BY <2>5 DEF LogsInv
<1>4. CASE AdvanceCounters
  <2>1. /\ db' = db /\ batch' = batch /\ OneMoreBatch
    BY <1>4 DEF AdvanceCounters, LogsInv, scratch
  <2>2. work'.paths = work.paths /\ work'.intents = work.intents
    BY <1>4, WritesTables
  <2>3. Mine(work', i) = Mine(work, i)
    BY <2>2 DEF Mine, FactEntries
  <2> HIDE DEF i
  <2>4. OneMoreBatch'
    BY <2>1, <2>2, <2>3 DEF OneMoreBatch, i
  <2> QED
    BY <2>4 DEF LogsInv
<1>5. CASE IndexFrontier
  <2>1. /\ db' = db /\ batch' = batch /\ pc' = "commit" /\ (SameLogs \/ OneMoreBatch)
    BY <1>5 DEF IndexFrontier, LogsInv, scratch
  <2>2. work'.paths = work.paths /\ work'.intents = work.intents /\ work'.next = work.next
    BY <1>5, WritesTables, WritesCounters
  <2>3. Mine(work', i) = Mine(work, i)
    BY <2>2 DEF Mine, FactEntries
  <2> HIDE DEF i
  <2>4. SameLogs' \/ OneMoreBatch'
    BY <2>1, <2>2, <2>3 DEF SameLogs, OneMoreBatch, i
  <2> QED
    BY <2>1, <2>4 DEF LogsInv
<1> QED
  BY <1>1, <1>2, <1>3, <1>4, <1>5 DEF Writes

\* All others keep the view, drop it or commit it.
LEMMA OthersLogs ==
    ASSUME TypeOK, ViewInv, LogsInv, [Next]_vars, ~Writes
    PROVE  LogsInv'
<1>1. CASE pc' \notin {"witness", "fact", "index", "commit"} \/ ctxDone'
  BY <1>1 DEF LogsInv
<1>2. CASE KeepWitness \/ EndWitnesses \/ KeepFrontier
  <2>1. /\ db' = db /\ work' = work /\ ~ctxDone /\ batch' = batch
        /\ \/ pc = "witness" /\ pc' \in {"witness", "fact"}
           \/ pc = "index" /\ pc' = "commit"
    BY <1>2 DEF KeepWitness, EndWitnesses, KeepFrontier, scratch
  <2> QED
    BY <2>1 DEF LogsInv, SameLogs, OneMoreBatch
<1>3. CASE AnswerRetry
  <2>1. /\ db' = db /\ work' = work /\ work = db /\ pc' \in {"index", "commit"}
    BY <1>3 DEF AnswerRetry, ViewInv
  <2> QED
    BY <2>1 DEF LogsInv, SameLogs
<1>4. CASE Errors \/ Crash \/ Cancel
  BY <1>1, <1>4, ErrorsFail DEF Fail, Crash, Forget, Cancel
<1>5. CASE Begin \/ ResolveThrough \/ StartStaging \/ StageDraft \/ CommitTx
           \/ PublishEvent \/ EndPublish \/ Return
  BY <1>1, <1>5 DEF Begin, BeginAppend, BeginPublish, RefuseCaller, ResolveThrough,
                    StartStaging, StageDraft, CommitTx, PublishEvent, EndPublish, Return, Forget
<1>6. CASE UNCHANGED vars
  BY <1>6 DEF vars, scratch, LogsInv, SameLogs, OneMoreBatch
<1> QED
  BY <1>2, <1>3, <1>4, <1>5, <1>6 DEF Next, Step, Errors, Writes

-----------------------------------------------------------------------------
\* A set of numbers up to n that is not empty has a greatest.
LEMMA GreatestOrdinal ==
    ASSUME NEW n \in Nat, NEW S \in SUBSET (0 .. n), S # {}
    PROVE  Max(S) \in S /\ \A k \in S : k <= Max(S)
<1> DEFINE below == {n - k : k \in S}
<1>1. below \in SUBSET Nat /\ below # {}
  <2>1. \A k \in S : k \in Nat /\ k <= n /\ n - k \in Nat
    OBVIOUS
  <2> QED
    BY <2>1
<1> HIDE DEF below
<1>2. PICK d \in below : \A e \in below : ~(<<e, d>> \in OpToRel(<, Nat))
  BY <1>1, NatLessThanWellFounded, WFMin, Zenon
<1>3. \A e \in below : ~(e < d)
  <2>1. \A a, b \in Nat : a < b => <<a, b>> \in OpToRel(<, Nat)
    BY DEF OpToRel
  <2> QED
    BY <1>1, <1>2, <2>1, Zenon
<1>4. PICK m \in S : d = n - m
  BY <1>2 DEF below
<1>5. ASSUME NEW k \in S PROVE m >= k
  <2>1. n - k \in below
    BY DEF below
  <2>2. ~(n - k < n - m)
    BY <1>3, <1>4, <2>1
  <2> QED
    BY <2>2
<1>6. \E x \in S : \A y \in S : x >= y
  BY <1>4, <1>5
<1>7. Max(S) \in S /\ \A y \in S : Max(S) >= y
  BY <1>6 DEF Max
<1> QED
  BY <1>7

\* The place that PublishFrontier resolves is one at which the through fact is.
LEMMA LatestPlaceHolds ==
    ASSUME NEW t, TablesTypeOK(t), Contiguous(t), NEW p \in Paths, NEW id, Places(t, id, p) # {}
    PROVE  /\ Holds(t, p, LatestPlace(t, id, p), id)
           /\ \A k \in Places(t, id, p) : k <= LatestPlace(t, id, p)
<1> DEFINE S == Places(t, id, p)
           n == t.next[p]
<1>1. n \in Nat
  BY DEF TablesTypeOK
<1>2. Ordinals(t, p) = 0 .. n - 1
  BY DEF Contiguous
<1>3. S \subseteq Ordinals(t, p)
  BY DEF Places, Ordinals, Entries
<1> HIDE DEF S, n
<1>4. S \in SUBSET (0 .. n)
  BY <1>1, <1>2, <1>3
<1>5. Max(S) \in S /\ \A k \in S : k <= Max(S)
  BY <1>1, <1>4, GreatestOrdinal DEF S
<1>6. /\ LatestPlace(t, id, p) \in Places(t, id, p)
      /\ \A k \in Places(t, id, p) : k <= LatestPlace(t, id, p)
  BY <1>5 DEF LatestPlace, S
<1> QED
  BY <1>6 DEF Places, Holds

\* The row of a prepared frontier says what its call and its batch say.
LEMMA PreparedRow ==
    ASSUME NEW n, batch = FrontierBatch(call.spec, call.auth, n)
    PROVE  /\ FrontierRow.target_trace_owner_id = call.spec.target_trace_owner_id
           /\ FrontierRow.through_fact_id = call.spec.through_fact_id
           /\ FrontierRow.through_owner_ordinal = n
<1> DEFINE body == [frontier_id |-> call.spec.frontier_id,
                    target_trace_owner_id |-> call.spec.target_trace_owner_id,
                    through_fact_id |-> call.spec.through_fact_id,
                    through_owner_ordinal |-> n,
                    publisher_trace_owner_id |-> FrontierPublisher(call.spec)]
<1>1. batch.drafts[1] = FrontierDraft(call.spec, n)
  BY DEF FrontierBatch
<1>2. /\ body.target_trace_owner_id = call.spec.target_trace_owner_id
      /\ body.through_fact_id = call.spec.through_fact_id
      /\ body.through_owner_ordinal = n
  OBVIOUS
<1>3. FrontierDraft(call.spec, n).payload = Plain(body)
  BY DEF FrontierDraft
<1> HIDE DEF body
<1>4. batch.drafts[1].payload.json = body
  BY <1>1, <1>3 DEF Plain
<1> QED
  BY <1>2, <1>4 DEF FrontierRow

\* No insert but the last touches the frontier index.
LEMMA InsertsKeepFrontiers ==
    ASSUME TypeOK, RetainIntent \/ InsertWitness \/ InsertFact \/ AdvanceCounters
    PROVE  work'.frontiers = work.frontiers
<1>1. DOMAIN work = TableNames
  BY EmptyTablesFields DEF TypeOK, TablesTypeOK
<1>2. ASSUME NEW fact, NEW r
      PROVE  /\ DOMAIN insertFactRow(work, fact, r) = TableNames
             /\ insertFactRow(work, fact, r).frontiers = work.frontiers
  <2> DEFINE v == insertRecordIfMissing(work, fact)
  <2>1. v.frontiers = work.frontiers /\ DOMAIN v = TableNames
    BY <1>1 DEF insertRecordIfMissing, TableNames
  <2>2. insertFactRow(work, fact, r) = [v EXCEPT !.paths = @ \cup {Entry(fact, r)}]
    BY DEF insertFactRow
  <2> HIDE DEF v
  <2> QED
    BY <2>1, <2>2 DEF TableNames
<1>3. CASE RetainIntent
  BY <1>1, <1>3 DEF RetainIntent, TableNames
<1>4. CASE InsertWitness
  <2> DEFINE t == insertFactRow(work, WitnessFact(Plan(at)), <<"witness", Plan(at).record_id>>)
             n == [t.next EXCEPT ![witnessTraceOwnerID] = @ + 1]
  <2>1. work' = [t EXCEPT !.next = n]
    BY <1>4 DEF InsertWitness
  <2>2. t.frontiers = work.frontiers /\ DOMAIN t = TableNames
    BY <1>2
  <2> HIDE DEF n, t
  <2> QED
    BY <2>1, <2>2 DEF TableNames
<1>5. CASE InsertFact
  BY <1>2, <1>5 DEF InsertFact
<1>6. CASE AdvanceCounters
  BY <1>1, <1>6 DEF AdvanceCounters, TableNames
<1> QED
  BY <1>3, <1>4, <1>5, <1>6

\* The writes keep the view one mark ahead of the committed marks.
LEMMA WritesMarks ==
    ASSUME TypeOK, ViewInv, GrowthInv, MarksInv, Writes
    PROVE  MarksInv'
<1>1. CASE RetainIntent \/ InsertWitness \/ InsertFact \/ AdvanceCounters
  <2>1. work'.frontiers = work.frontiers
    BY <1>1, InsertsKeepFrontiers
  <2>2. /\ db' = db /\ call' = call /\ batch' = batch /\ ~ctxDone
        /\ pc \in {"stage", "witness", "fact"} /\ pc' \in {"witness", "fact", "index", "commit"}
        /\ pc' = "index" => call.op = "publish"
        /\ pc = "stage" => work = db
    BY <1>1 DEF RetainIntent, InsertWitness, InsertFact, AdvanceCounters, scratch, ViewInv
  <2>3. work'.frontiers = db.frontiers
    BY <2>1, <2>2 DEF MarksInv
  <2>4. call.op = "publish" => call \in PublishCalls /\ Prepared
    BY <2>2 DEF MarksInv
  <2>5. Prepared => Prepared'
    BY <2>2 DEF Prepared, Holds
  <2> QED
    BY <2>2, <2>3, <2>4, <2>5 DEF MarksInv
<1>2. CASE IndexFrontier
  <2>1. /\ db' = db /\ pc = "index" /\ pc' = "commit" /\ ~ctxDone
        /\ call.spec.frontier_id \notin DOMAIN work.frontiers
    BY <1>2 DEF IndexFrontier, FrontierKnown
  <2>2. call \in PublishCalls /\ Prepared /\ work.frontiers = db.frontiers
    BY <2>1 DEF MarksInv
  <2> DEFINE f == call.spec.frontier_id
             rows == [g \in DOMAIN work.frontiers \cup {f} |->
                        IF g = f THEN FrontierRow ELSE work.frontiers[g]]
  <2>3. work' = [work EXCEPT !.frontiers = rows]
    BY <1>2 DEF IndexFrontier
  <2>4. DOMAIN rows = DOMAIN work.frontiers \cup {f} /\ rows[f] = FrontierRow
    OBVIOUS
  <2>5. work'.paths = work.paths /\ work'.frontiers = rows
    <3>1. DOMAIN work = TableNames
      BY EmptyTablesFields DEF TypeOK, TablesTypeOK
    <3> HIDE DEF rows
    <3> QED
      BY <2>3, <3>1 DEF TableNames
  <2>6. PICK n : /\ batch = FrontierBatch(call.spec, call.auth, n)
                 /\ Holds(db, call.spec.target_trace_owner_id, n, call.spec.through_fact_id)
    BY <2>2 DEF Prepared
  <2>7. /\ FrontierRow.target_trace_owner_id = call.spec.target_trace_owner_id
        /\ FrontierRow.through_fact_id = call.spec.through_fact_id
        /\ FrontierRow.through_owner_ordinal = n
    BY <2>6, PreparedRow
  <2>8. call.spec.target_trace_owner_id \in Paths
    BY <2>2, PublishCallsAssumption
  <2>9. Holds(work', call.spec.target_trace_owner_id, n, call.spec.through_fact_id)
    BY <2>5, <2>6 DEF GrowthInv, Grown, Holds
  <2> HIDE DEF rows
  <2> DEFINE row == rows[f]
  <2>10. /\ f \in DOMAIN rows /\ f \notin DOMAIN db.frontiers
         /\ DOMAIN rows = DOMAIN db.frontiers \cup {f}
         /\ row.target_trace_owner_id \in Paths
         /\ Holds(work', row.target_trace_owner_id, row.through_owner_ordinal, row.through_fact_id)
    BY <2>1, <2>2, <2>4, <2>7, <2>8, <2>9
  <2> HIDE DEF f
  <2>11. OneMoreMark'
    BY <2>1, <2>5, <2>10 DEF OneMoreMark, Holds
  <2> QED
    BY <2>1, <2>11 DEF MarksInv
<1> QED
  BY <1>1, <1>2 DEF Writes

\* All others keep the view, drop it or commit it.
LEMMA OthersMarks ==
    ASSUME TypeOK, PathInv, MarksInv, [Next]_vars, ~Writes
    PROVE  MarksInv'
<1>1. CASE pc' \notin {"through", "lookup", "stage", "witness", "fact", "index", "commit"}
  BY <1>1 DEF MarksInv
<1>2. CASE Errors \/ Crash \/ CommitTx \/ PublishEvent \/ EndPublish \/ Return
           \/ \E c \in AppendCalls \cup PublishCalls : RefuseCaller(c)
  BY <1>1, <1>2, ErrorsFail DEF Fail, Crash, Forget, CommitTx, PublishEvent, EndPublish, Return,
                                RefuseCaller
<1>3. CASE \E c \in AppendCalls : BeginAppend(c)
  <2>1. pc' = "lookup" /\ call'.op = "append"
    BY <1>3, AppendCallsAssumption DEF BeginAppend
  <2> QED
    BY <2>1 DEF MarksInv
<1>4. CASE \E c \in PublishCalls : BeginPublish(c)
  BY <1>4 DEF BeginPublish, MarksInv
<1>5. CASE ResolveThrough
  <2> DEFINE n == LatestPlace(work, call.spec.through_fact_id, call.spec.target_trace_owner_id)
  <2>1. /\ pc = "through" /\ pc' = "lookup" /\ db' = db /\ call' = call /\ work = db
        /\ batch' = FrontierBatch(call.spec, call.auth, n) /\ ThroughPlaces # {}
    BY <1>5 DEF ResolveThrough, PathInv, ViewInv
  <2>2. call \in PublishCalls /\ call.spec.target_trace_owner_id \in Paths
    BY <2>1, PublishCallsAssumption DEF MarksInv
  <2>3. TablesTypeOK(db) /\ Contiguous(db)
    BY DEF TypeOK, PathInv, TablesInv
  <2>4. Holds(db, call.spec.target_trace_owner_id, n, call.spec.through_fact_id)
    BY <2>1, <2>2, <2>3, LatestPlaceHolds DEF ThroughPlaces
  <2> HIDE DEF n
  <2>5. Prepared'
    BY <2>1, <2>4 DEF Prepared, Holds
  <2> QED
    BY <2>1, <2>2, <2>5 DEF MarksInv
<1>6. CASE AnswerRetry
  <2>1. /\ pc = "lookup" /\ db' = db /\ work' = work /\ call' = call /\ batch' = batch /\ work = db
        /\ pc' = IF call.op = "publish" THEN "index" ELSE "commit"
    BY <1>6 DEF AnswerRetry, PathInv, ViewInv
  <2>2. Prepared => Prepared'
    BY <2>1 DEF Prepared, Holds
  <2> QED
    BY <2>1, <2>2 DEF MarksInv
<1>7. CASE StartStaging \/ StageDraft \/ KeepWitness \/ EndWitnesses
  <2>1. /\ db' = db /\ work' = work /\ call' = call /\ batch' = batch /\ ctxDone' = ctxDone
        /\ \/ pc = "lookup" /\ pc' = "stage"
           \/ pc = "stage" /\ pc' = "stage"
           \/ pc = "witness" /\ pc' \in {"witness", "fact"}
    BY <1>7 DEF StartStaging, StageDraft, KeepWitness, EndWitnesses
  <2>2. Prepared => Prepared'
    BY <2>1 DEF Prepared, Holds
  <2> QED
    BY <2>1, <2>2 DEF MarksInv
<1>8. CASE KeepFrontier
  <2>1. work' = work /\ db' = db /\ pc = "index" /\ pc' = "commit" /\ ~ctxDone
    BY <1>8 DEF KeepFrontier
  <2> QED
    BY <2>1 DEF MarksInv
<1>9. CASE Cancel
  <2>1. db' = db /\ call' = call /\ batch' = batch /\ ctxDone' /\ pc' = pc
    BY <1>9 DEF Cancel
  <2>2. Prepared => Prepared'
    BY <2>1 DEF Prepared, Holds
  <2> QED
    BY <2>1, <2>2 DEF MarksInv
<1>10. CASE UNCHANGED vars
  BY <1>10 DEF vars, scratch, MarksInv, Prepared, OneMoreMark, Holds
<1> QED
  BY <1>2, <1>3, <1>4, <1>5, <1>6, <1>7, <1>8, <1>9, <1>10 DEF Next, Begin, Step, Errors, Writes

-----------------------------------------------------------------------------
\* Only COMMIT changes what is committed.
LEMMA OnlyCommitChanges ==
    ASSUME [Next]_vars, ~CommitTx
    PROVE  db' = db
<1>1. CASE Errors
  BY <1>1, ErrorsFail DEF Fail
<1>2. CASE Begin \/ Cancel \/ Crash \/ UNCHANGED vars
  BY <1>2 DEF Begin, BeginAppend, BeginPublish, RefuseCaller, Cancel, Crash, vars
<1>3. CASE Writes
  BY <1>3 DEF Writes, RetainIntent, InsertWitness, InsertFact, AdvanceCounters, IndexFrontier
<1>4. CASE Step /\ ~Errors /\ ~Writes
  BY <1>4 DEF Step, Errors, Writes, ResolveThrough, AnswerRetry, StartStaging, StageDraft,
              KeepWitness, EndWitnesses, KeepFrontier, PublishEvent, EndPublish, Return
<1> QED
  BY <1>1, <1>2, <1>3, <1>4 DEF Next

-----------------------------------------------------------------------------
(***************************************************************************)
(* What subscribers are told.  An event is made from the batch and from    *)
(* the receipt, long after the entry it tells of was inserted from the     *)
(* prepared fact; the invariant carries the agreement of the three from    *)
(* staging to publication.                                                 *)
(***************************************************************************)
\* A table holds the entry that the event of draft k tells of.
RetainedAs(t, k) ==
    \E e \in FactEntries(t) :
      /\ Commit(e) = receipt.commits[k]
      /\ e.record_id = receipt.fact_ids[k]
      /\ e.path_ref = GroupOf(batch, k).trace_owner_id
      /\ e.kind_label = KindLabel(Draft(k))

PreparedAs(k) ==
    /\ facts[k].trace_owner_id = GroupOf(batch, k).trace_owner_id
    /\ facts[k].kind_label = KindLabel(Draft(k))

\* A prepared fact has the owner and the label of its draft, and so has its entry.
AgreeInv ==
    /\ isNew => pc \in {"witness", "fact", "index", "commit", "publish", "reply"}
    /\ pc \in {"witness", "fact"} => isNew
    /\ pc = "stage" => at = Len(facts) + 1
    /\ pc \in {"stage", "witness", "fact"} => \A k \in DOMAIN facts : PreparedAs(k)
    /\ (pc = "fact" /\ ~ctxDone) => \A k \in 1 .. at - 1 : RetainedAs(work, k)
    /\ (pc \in {"index", "commit"} /\ isNew /\ ~ctxDone) =>
         /\ batch.append_intent_id \notin DOMAIN db.intents
         /\ receipt.fact_ids \in Seq(Range(receipt.fact_ids))
         /\ \A k \in DOMAIN receipt.fact_ids :
              receipt.commits[k] = db.commitSeq + k - 1 /\ RetainedAs(work, k)

\* An index and a receipt's entry depend on no more than these.
LEMMA RetainedStays ==
    ASSUME NEW t, NEW u, FactEntries(t) \subseteq FactEntries(u), NEW k, RetainedAs(t, k)
    PROVE  RetainedAs(u, k)
  BY DEF RetainedAs

\* The label of a prepared fact and of its entry.
LEMMA LabelFields ==
    /\ \A k : PreparedFact(k).kind_label = KindLabel(Draft(k))
              /\ PreparedFact(k).trace_owner_id = GroupOf(batch, k).trace_owner_id
    /\ \A fact, r : Entry(fact, r).kind_label = fact.kind_label /\ Entry(fact, r).record_id = fact.record_id
  BY DEF PreparedFact, Entry

\* Staging prepares the next draft's fact.
LEMMA StageDraftAgree ==
    ASSUME TypeOK, AgreeInv, StageDraft
    PROVE  AgreeInv'
<1> DEFINE f == PreparedFact(at)
<1>1. /\ pc = "stage" /\ pc' = pc /\ facts' = Append(facts, f) /\ at' = at + 1 /\ isNew' = isNew
      /\ batch' = batch
  BY DEF StageDraft
<1>2. f.trace_owner_id = GroupOf(batch, at).trace_owner_id /\ f.kind_label = KindLabel(Draft(at))
  BY LabelFields
<1> HIDE DEF f
<1>3. /\ Len(facts) \in Nat /\ DOMAIN facts = 1 .. Len(facts)
      /\ Len(facts') = Len(facts) + 1 /\ DOMAIN facts' = 1 .. Len(facts) + 1
      /\ \A i \in 1 .. Len(facts) : facts'[i] = facts[i]
      /\ facts'[Len(facts) + 1] = f
  BY <1>1, AppendOverRange DEF TypeOK
<1>4. at = Len(facts) + 1 /\ \A k \in DOMAIN facts : PreparedAs(k)
  BY <1>1 DEF AgreeInv
<1>5. \A k \in DOMAIN facts : PreparedAs(k)'
  BY <1>1, <1>3, <1>4 DEF PreparedAs, Draft
<1>6. ASSUME NEW k, k = at PROVE PreparedAs(k)'
  BY <1>1, <1>2, <1>3, <1>4, <1>6 DEF PreparedAs, Draft
<1>7. \A k \in DOMAIN facts' : PreparedAs(k)'
  BY <1>3, <1>4, <1>5, <1>6
<1>8. at' = Len(facts') + 1
  BY <1>1, <1>3, <1>4
<1> QED
  BY <1>1, <1>7, <1>8 DEF AgreeInv

\* A fact is inserted as its event will tell.
LEMMA InsertFactAgree ==
    ASSUME TypeOK, ReceiptsInv, AgreeInv, InsertFact
    PROVE  AgreeInv'
<1> DEFINE f == facts[at]
           e == Entry(f, <<"commit", f.commit>>)
<1>1. /\ db' = db /\ pc = "fact" /\ pc' = pc /\ ~ctxDone /\ ctxDone' = ctxDone /\ isNew' = isNew
      /\ batch' = batch /\ facts' = facts /\ receipt' = receipt /\ at \in DOMAIN facts /\ at' = at + 1
  BY DEF InsertFact
<1>2. work'.paths = work.paths \cup {e}
  BY WritesTables
<1>3. e.commit_receipt = <<"commit", f.commit>> /\ e.path_ref = f.trace_owner_id
      /\ e.record_id = f.record_id /\ e.kind_label = f.kind_label
  BY DEF Entry
<1>4. e.commit_receipt[1] = "commit" /\ Commit(e) = f.commit
  BY <1>3 DEF Commit
<1>5. receipt.fact_ids[at] = f.record_id /\ receipt.commits[at] = f.commit
  BY <1>1 DEF ReceiptsInv, Inserting
<1>6. f.trace_owner_id = GroupOf(batch, at).trace_owner_id /\ f.kind_label = KindLabel(Draft(at))
  BY <1>1 DEF AgreeInv, PreparedAs
<1> HIDE DEF e, f
<1>7. e \in FactEntries(work') /\ FactEntries(work) \subseteq FactEntries(work')
  BY <1>2, <1>4 DEF FactEntries
<1>8. RetainedAs(work', at)
  BY <1>3, <1>4, <1>5, <1>6, <1>7 DEF RetainedAs
<1>9. \A k \in 1 .. at - 1 : RetainedAs(work', k)
  BY <1>1, <1>7, RetainedStays DEF AgreeInv
<1>10. at \in Nat /\ at >= 1
  BY <1>1, DraftsFromOne
<1>11. \A k \in 1 .. at' - 1 : RetainedAs(work', k)
  BY <1>1, <1>8, <1>9, <1>10
<1>12. \A k \in 1 .. at' - 1 : RetainedAs(work, k)'
  BY <1>1, <1>11 DEF RetainedAs, Draft
<1>13. \A k \in DOMAIN facts' : PreparedAs(k)'
  BY <1>1 DEF AgreeInv, PreparedAs, Draft
<1> QED
  BY <1>1, <1>12, <1>13 DEF AgreeInv

\* When all facts are in, every event to come has its entry.
LEMMA AdvanceCountersAgree ==
    ASSUME TypeOK, PathInv, NumberedInv, ReceiptsInv, AgreeInv, AdvanceCounters
    PROVE  AgreeInv'
<1>1. /\ db' = db /\ pc = "fact" /\ pc' \in {"index", "commit"} /\ ~ctxDone /\ at \notin DOMAIN facts
      /\ batch' = batch /\ receipt' = receipt /\ isNew' = isNew
  BY DEF AdvanceCounters, scratch
<1>2. work'.paths = work.paths
  BY WritesTables
<1>3. Inserting
  BY <1>1 DEF ReceiptsInv
<1>4. DOMAIN facts = 1 .. Len(facts) /\ Len(facts) \in Nat /\ at = Len(facts) + 1
  BY <1>1, DraftsFromOne DEF PathInv, InsertedInv
<1>5. /\ receipt.fact_ids = [k \in 1 .. Len(facts) |-> facts[k].record_id]
      /\ receipt.commits = [k \in 1 .. Len(facts) |-> facts[k].commit]
  BY <1>3, <1>4 DEF Inserting
<1>6. receipt.fact_ids \in Seq(Range(receipt.fact_ids)) /\ DOMAIN receipt.fact_ids = DOMAIN facts
  <2> DEFINE n == Len(facts)
             s == receipt.fact_ids
  <2>1. n \in Nat /\ DOMAIN s = 1 .. n /\ s = [k \in 1 .. n |-> s[k]]
    BY <1>4, <1>5
  <2>2. \A k \in 1 .. n : s[k] \in Range(s)
    BY <2>1 DEF Range
  <2> HIDE DEF s, n
  <2>3. s \in Seq(Range(s))
    BY <2>1, <2>2
  <2> QED
    BY <1>4, <2>1, <2>3 DEF s, n
<1>7. \A k \in DOMAIN facts : receipt.commits[k] = db.commitSeq + k - 1
  BY <1>1, <1>4, <1>5 DEF NumberedInv
<1>8. \A k \in DOMAIN facts : RetainedAs(work, k)
  BY <1>1, <1>4 DEF AgreeInv
<1>9. FactEntries(work') = FactEntries(work)
  BY <1>2 DEF FactEntries
<1>10. \A k \in DOMAIN facts : RetainedAs(work, k)'
  BY <1>1, <1>8, <1>9 DEF RetainedAs, Draft
<1>11. batch.append_intent_id \notin DOMAIN db.intents
  BY <1>3 DEF Inserting
<1>12. isNew
  BY <1>1 DEF AgreeInv
<1> QED
  BY <1>1, <1>6, <1>7, <1>10, <1>11, <1>12 DEF AgreeInv

\* The frontier index tells nothing.
LEMMA IndexAgree ==
    ASSUME TypeOK, AgreeInv, IndexFrontier \/ KeepFrontier
    PROVE  AgreeInv'
<1>1. /\ db' = db /\ pc = "index" /\ pc' = "commit" /\ ~ctxDone /\ ctxDone' = ctxDone
      /\ batch' = batch /\ receipt' = receipt /\ isNew' = isNew
  BY DEF IndexFrontier, KeepFrontier, scratch
<1>2. work'.paths = work.paths
  BY WritesTables DEF KeepFrontier
<1>3. \A k : RetainedAs(work, k)' <=> RetainedAs(work, k)
  BY <1>1, <1>2 DEF RetainedAs, Draft, FactEntries
<1> QED
  BY <1>1, <1>3 DEF AgreeInv

\* The others.
LEMMA OthersAgree ==
    ASSUME TypeOK, PathInv, AgreeInv, [Next]_vars,
           ~StageDraft, ~InsertFact, ~AdvanceCounters, ~IndexFrontier, ~KeepFrontier
    PROVE  AgreeInv'
<1>1. CASE pc' \in {"idle", "through", "lookup"} /\ ~isNew'
  BY <1>1 DEF AgreeInv
<1>2. CASE pc' \in {"publish", "reply"} /\ (isNew' => isNew)
  BY <1>2 DEF AgreeInv
<1>3. CASE Errors \/ Begin \/ ResolveThrough \/ CommitTx \/ PublishEvent \/ EndPublish \/ Return \/ Crash
  <2>1. Begin \/ ResolveThrough => ~isNew' /\ pc' \in {"through", "lookup", "reply"}
    <3>1. Begin \/ ResolveThrough => /\ pc \in {"idle", "through"} /\ isNew' = isNew
                                     /\ pc' \in {"through", "lookup", "reply"}
      BY DEF Begin, BeginAppend, BeginPublish, RefuseCaller, ResolveThrough, scratch
    <3>2. pc \in {"idle", "through"} => ~isNew
      BY DEF AgreeInv
    <3> QED
      BY <3>1, <3>2, Zenon
  <2>2. Errors \/ CommitTx \/ PublishEvent \/ EndPublish => isNew' = isNew /\ pc' \in {"publish", "reply"}
    BY ErrorsFail DEF Fail, CommitTx, PublishEvent, EndPublish, scratch
  <2>3. Return \/ Crash => ~isNew' /\ pc' = "idle"
    BY DEF Return, Crash, Forget
  <2> QED
    BY <1>1, <1>2, <1>3, <2>1, <2>2, <2>3
<1>4. CASE AnswerRetry
  BY <1>4 DEF AnswerRetry, AgreeInv
<1>5. CASE StartStaging
  <2>1. /\ pc = "lookup" /\ pc' = "stage" /\ facts' = << >> /\ at' = 1 /\ isNew' = isNew
    BY <1>5 DEF StartStaging, PathInv, PreparedInv
  <2> QED
    BY <2>1 DEF AgreeInv
<1>6. CASE RetainIntent \/ KeepWitness \/ InsertWitness
  <2>1. /\ pc \in {"stage", "witness"} /\ pc' = "witness" /\ facts' = facts /\ batch' = batch /\ isNew'
    BY <1>6 DEF RetainIntent, KeepWitness, InsertWitness, AgreeInv
  <2> QED
    BY <2>1 DEF AgreeInv, PreparedAs, Draft
<1>7. CASE EndWitnesses
  <2>1. pc = "witness" /\ pc' = "fact" /\ facts' = facts /\ batch' = batch /\ isNew' /\ at' = 1
    BY <1>7 DEF EndWitnesses, AgreeInv
  <2>2. 1 .. at' - 1 = {}
    BY <2>1
  <2> QED
    BY <2>1, <2>2 DEF AgreeInv, PreparedAs, Draft
<1>8. CASE Cancel
  <2>1. pc' = pc /\ facts' = facts /\ batch' = batch /\ isNew' = isNew /\ at' = at /\ ctxDone'
    BY <1>8 DEF Cancel
  <2> QED
    BY <2>1 DEF AgreeInv, PreparedAs, Draft
<1>9. CASE UNCHANGED vars
  BY <1>9 DEF vars, scratch, AgreeInv, PreparedAs, Draft, RetainedAs
<1> QED
  BY <1>3, <1>4, <1>5, <1>6, <1>7, <1>8, <1>9 DEF Next, Step, Errors

-----------------------------------------------------------------------------
(***************************************************************************)
(* The events.  They are numbered within their intent by counting, so an   *)
(* event adds one to the count of its intent and disturbs no other.        *)
(***************************************************************************)
CommitsRise(r) ==
    \A i, k \in DOMAIN r.fact_ids : i < k => r.commits[i] < r.commits[k]

\* The events of the batch handed over so far, and all of those before it.
Publishing ==
    LET i == batch.append_intent_id
    IN  /\ reply.status = "ok" /\ reply.receipt = receipt
        /\ receipt.fact_ids \in Seq(Range(receipt.fact_ids))
        /\ at \in 1 .. Len(receipt.fact_ids) + 1
        /\ \A k \in DOMAIN receipt.fact_ids : receipt.commits[k] \in Nat /\ RetainedAs(db, k)
        /\ CommitsRise(receipt)
        /\ Cardinality(EventsOf(i)) = at - 1
        /\ \A j \in DOMAIN published : published[j].append_intent_id # i =>
             \A k \in DOMAIN receipt.fact_ids : EventCommit(j) < receipt.commits[k]

EventsInv ==
    /\ published \in Seq(Range(published))
    /\ EventsFollowCommits
    /\ pc = "publish" => Publishing
    /\ AckedIsPublished

\* Counting up to an event.
LEMMA EventCounts ==
    ASSUME published \in Seq(Range(published))
    PROVE  /\ DOMAIN published = 1 .. Len(published) /\ Len(published) \in Nat
           /\ \A i : IsFiniteSet(EventsOf(i)) /\ Cardinality(EventsOf(i)) \in Nat
           /\ \A j \in DOMAIN published :
                /\ EventIndex(j) \in Nat
                /\ EventIndex(j) <= Cardinality(EventsOf(published[j].append_intent_id))
<1>1. DOMAIN published = 1 .. Len(published) /\ Len(published) \in Nat
  BY AppendOverRange
<1>2. IsFiniteSet(1 .. Len(published))
  BY <1>1, FS_Interval
<1>3. ASSUME NEW i PROVE IsFiniteSet(EventsOf(i)) /\ Cardinality(EventsOf(i)) \in Nat
  <2>1. EventsOf(i) \subseteq 1 .. Len(published)
    BY <1>1 DEF EventsOf
  <2> QED
    BY <1>2, <2>1, FS_Subset, FS_CardinalityType
<1>4. ASSUME NEW j \in DOMAIN published
      PROVE  /\ EventIndex(j) \in Nat
             /\ EventIndex(j) <= Cardinality(EventsOf(published[j].append_intent_id))
  <2> DEFINE S == {i \in 1 .. j : published[i].append_intent_id = published[j].append_intent_id}
  <2>1. S \subseteq EventsOf(published[j].append_intent_id)
    BY <1>1 DEF EventsOf
  <2>2. EventIndex(j) = Cardinality(S)
    BY DEF EventIndex
  <2> HIDE DEF S
  <2> QED
    BY <1>3, <2>1, <2>2, FS_Subset, FS_CardinalityType
<1> QED
  BY <1>1, <1>3, <1>4

\* While the tables grow, what was told stays told.
LEMMA EventsStayTold ==
    ASSUME EventsFollowCommits, published \in Seq(Range(published)), published' = published,
           Extends(db.intents, db'.intents), FactEntries(db) \subseteq FactEntries(db')
    PROVE  /\ EventsFollowCommits'
           /\ \A j \in DOMAIN published : EventCommit(j)' = EventCommit(j)
           /\ \A i : EventsOf(i)' = EventsOf(i)
<1>1. \A j : EventIndex(j)' = EventIndex(j)
  BY DEF EventIndex
<1>2. \A j \in DOMAIN published : EventReceipt(j)' = EventReceipt(j)
  BY DEF EventsFollowCommits, EventReceipt, Extends
<1>3. \A j \in DOMAIN published : EventCommit(j)' = EventCommit(j)
  BY <1>1, <1>2 DEF EventCommit
<1>4. \A i : EventsOf(i)' = EventsOf(i)
  BY DEF EventsOf
<1>5. ASSUME NEW j \in DOMAIN published
      PROVE  /\ published[j].append_intent_id \in DOMAIN db'.intents
             /\ EventIndex(j)' \in DOMAIN EventReceipt(j)'.fact_ids
             /\ \E e \in FactEntries(db') :
                  /\ Commit(e) = EventCommit(j)'
                  /\ e.record_id = published[j].record_id
                  /\ e.path_ref = published[j].trace_owner_id
                  /\ e.kind_label = published[j].kind_label
             /\ \A i \in 1 .. j - 1 : EventCommit(i)' < EventCommit(j)'
  <2>1. \A i \in 1 .. j - 1 : i \in DOMAIN published
    BY AppendOverRange
  <2> QED
    BY <1>1, <1>2, <1>3, <2>1 DEF EventsFollowCommits, Extends
<1>6. EventsFollowCommits'
  BY <1>5 DEF EventsFollowCommits
<1> QED
  BY <1>3, <1>4, <1>6

\* COMMIT of a new append: none of its events is out, and all earlier ones are of
\* smaller numbers.
LEMMA CommitTxEvents ==
    ASSUME TypeOK, PathInv, GrowthInv, AgreeInv, EventsInv, CommitTx
    PROVE  EventsInv'
<1>0. PICK i : i = batch.append_intent_id
  OBVIOUS
<1>1. /\ pc = "commit" /\ ~ctxDone /\ db' = work /\ at' = 1 /\ published' = published
      /\ reply' = [status |-> "ok", receipt |-> receipt]
      /\ pc' = IF call.op = "append" /\ isNew THEN "publish" ELSE "reply"
      /\ batch' = batch /\ receipt' = receipt /\ isNew' = isNew /\ call' = call
  BY DEF CommitTx
<1>2. Extends(db.intents, db'.intents) /\ FactEntries(db) \subseteq FactEntries(db')
  BY <1>1 DEF GrowthInv, Grown, FactEntries
<1>3. /\ EventsFollowCommits'
      /\ \A j \in DOMAIN published : EventCommit(j)' = EventCommit(j)
      /\ \A k : EventsOf(k)' = EventsOf(k)
  BY <1>1, <1>2, EventsStayTold DEF EventsInv
<1>4. ASSUME isNew PROVE Publishing'
  <2>1. /\ i \notin DOMAIN db.intents
        /\ receipt.fact_ids \in Seq(Range(receipt.fact_ids))
        /\ \A k \in DOMAIN receipt.fact_ids :
              receipt.commits[k] = db.commitSeq + k - 1 /\ RetainedAs(work, k)
    BY <1>0, <1>1, <1>4 DEF AgreeInv
  <2>2. /\ Len(receipt.fact_ids) \in Nat /\ DOMAIN receipt.fact_ids = 1 .. Len(receipt.fact_ids)
        /\ db.commitSeq \in Nat
    BY <2>1, AppendOverRange DEF TypeOK, TablesTypeOK
  <2>3. at' \in 1 .. Len(receipt.fact_ids) + 1 /\ at' - 1 = 0
    BY <1>1, <2>2
  <2>4. \A k \in DOMAIN receipt.fact_ids : receipt.commits[k] \in Nat
    BY <2>1, <2>2
  <2>5. CommitsRise(receipt)
    BY <2>1, <2>2 DEF CommitsRise
  <2>6. EventsOf(i) = {}
    BY <2>1 DEF EventsInv, EventsFollowCommits, EventsOf
  <2>7. Cardinality(EventsOf(i)) = 0
    BY <2>6, FS_EmptySet
  <2>8. ASSUME NEW j \in DOMAIN published, NEW k \in DOMAIN receipt.fact_ids
        PROVE  EventCommit(j) < receipt.commits[k]
    <3>1. PICK e \in FactEntries(db) : Commit(e) = EventCommit(j)
      BY DEF EventsInv, EventsFollowCommits
    <3>2. Commit(e) \in 0 .. db.commitSeq - 1
      BY DEF PathInv, TablesInv, GapFree, CommitsOf
    <3>3. receipt.commits[k] >= db.commitSeq
      BY <2>1, <2>2
    <3> QED
      BY <2>2, <2>4, <3>1, <3>2, <3>3
  <2>9. \A k \in DOMAIN receipt.fact_ids : RetainedAs(db, k)'
    BY <1>1, <2>1 DEF RetainedAs, Draft
  <2>10. \A j \in DOMAIN published : \A k \in DOMAIN receipt.fact_ids :
            EventCommit(j)' < receipt.commits[k]
    BY <1>3, <2>8
  <2>11. Cardinality(EventsOf(i)') = at' - 1
    BY <1>3, <2>3, <2>7
  <2>12. CommitsRise(receipt)'
    BY <1>1, <2>5 DEF CommitsRise
  <2>13. Cardinality(EventsOf(batch.append_intent_id))' = at' - 1
    BY <1>0, <1>1, <2>11 DEF EventsOf
  <2> QED
    BY <1>0, <1>1, <2>1, <2>3, <2>4, <2>9, <2>10, <2>12, <2>13 DEF Publishing
<1>5. pc' = "publish" => Publishing'
  BY <1>1, <1>4
<1>6. AckedIsPublished'
  BY <1>1 DEF AckedIsPublished
<1> QED
  BY <1>1, <1>3, <1>5, <1>6 DEF EventsInv

\* One more event: the next of its batch, behind all others.
LEMMA PublishEventEvents ==
    ASSUME TypeOK, DurableInv, EventsInv, PublishEvent
    PROVE  EventsInv'
<1>0. PICK i, n, new : i = batch.append_intent_id /\ n = Len(published) /\ new = Event(at)
  OBVIOUS
<1>1. /\ pc = "publish" /\ pc' = pc /\ at \in DOMAIN receipt.fact_ids /\ at' = at + 1
      /\ published' = Append(published, new)
      /\ db' = db /\ batch' = batch /\ receipt' = receipt /\ reply' = reply
  BY <1>0 DEF PublishEvent
<1>2. Publishing
  BY <1>1 DEF EventsInv
<1>3. /\ new.append_intent_id = i /\ new.record_id = receipt.fact_ids[at]
      /\ new.trace_owner_id = GroupOf(batch, at).trace_owner_id
      /\ new.kind_label = KindLabel(Draft(at))
  BY <1>0 DEF Event
<1>4. /\ n \in Nat /\ DOMAIN published = 1 .. n /\ DOMAIN published' = 1 .. n + 1
      /\ \A j \in 1 .. n : published'[j] = published[j]
      /\ published'[n + 1] = new
      /\ published' \in Seq(Range(published'))
  BY <1>0, <1>1, AppendOverRange DEF EventsInv
<1>5. /\ at \in Nat /\ at \in 1 .. Len(receipt.fact_ids) /\ Len(receipt.fact_ids) \in Nat
      /\ DOMAIN receipt.fact_ids = 1 .. Len(receipt.fact_ids)
  BY <1>1, <1>2, AppendOverRange DEF Publishing
<1>6. i \in DOMAIN db.intents /\ db.intents[i].receipt = receipt
  BY <1>0, <1>2 DEF Publishing, DurableInv, Keeps
<1>7. \A j \in 1 .. n : EventIndex(j)' = EventIndex(j)
  <2> SUFFICES ASSUME NEW j \in 1 .. n PROVE EventIndex(j)' = EventIndex(j)
    OBVIOUS
  <2>1. {k \in 1 .. j : published'[k].append_intent_id = published'[j].append_intent_id}
          = {k \in 1 .. j : published[k].append_intent_id = published[j].append_intent_id}
    BY <1>4
  <2> QED
    BY <2>1 DEF EventIndex
<1>8. \A j \in 1 .. n : EventReceipt(j)' = EventReceipt(j) /\ EventCommit(j)' = EventCommit(j)
  BY <1>1, <1>4, <1>7 DEF EventReceipt, EventCommit
<1>9. EventsOf(i)' = EventsOf(i) \cup {n + 1}
  <2>1. EventsOf(i)' = {j \in 1 .. n + 1 : published'[j].append_intent_id = i}
    BY <1>1, <1>4 DEF EventsOf
  <2>2. EventsOf(i) = {j \in 1 .. n : published[j].append_intent_id = i}
    BY <1>4 DEF EventsOf
  <2>3. 1 .. n + 1 = (1 .. n) \cup {n + 1}
    BY <1>4
  <2> QED
    BY <1>3, <1>4, <2>1, <2>2, <2>3
<1>10. Cardinality(EventsOf(i)') = at
  <2>1. n + 1 \notin EventsOf(i)
    BY <1>4 DEF EventsOf
  <2>2. IsFiniteSet(EventsOf(i)) /\ Cardinality(EventsOf(i)) = at - 1
    BY <1>0, <1>2, EventCounts DEF EventsInv, Publishing
  <2>3. Cardinality(EventsOf(i) \cup {n + 1}) = Cardinality(EventsOf(i)) + 1
    BY <2>1, <2>2, FS_AddElement
  <2> QED
    BY <1>5, <1>9, <2>2, <2>3
<1>11. EventIndex(n + 1)' = at
  <2>1. EventsOf(i)' = {j \in 1 .. n + 1 : published'[j].append_intent_id = i}
    BY <1>1, <1>4 DEF EventsOf
  <2>2. EventsOf(i)' = {j \in 1 .. n + 1 : published'[j].append_intent_id = published'[n + 1].append_intent_id}
    BY <1>3, <1>4, <2>1
  <2>3. \A m : EventIndex(m)' = Cardinality({j \in 1 .. m : published'[j].append_intent_id = published'[m].append_intent_id})
    BY DEF EventIndex
  <2> QED
    BY <1>10, <2>2, <2>3
<1>12. EventReceipt(n + 1)' = receipt
  <2>1. \A m : EventReceipt(m)' = db.intents[published'[m].append_intent_id].receipt
    BY <1>1 DEF EventReceipt
  <2> QED
    BY <1>3, <1>4, <1>6, <2>1
<1>13. EventCommit(n + 1)' = receipt.commits[at]
  <2>1. \A m : EventCommit(m)' = EventReceipt(m)'.commits[EventIndex(m)']
    BY DEF EventCommit
  <2> QED
    BY <1>11, <1>12, <2>1
<1>14. ASSUME NEW j \in 1 .. n PROVE EventCommit(j) < receipt.commits[at]
  <2>1. CASE published[j].append_intent_id # i
    BY <1>0, <1>1, <1>2, <1>4, <2>1 DEF Publishing
  <2>2. CASE published[j].append_intent_id = i
    <3>1. EventReceipt(j) = receipt
      BY <1>6, <2>2 DEF EventReceipt
    <3>2. EventIndex(j) \in DOMAIN receipt.fact_ids
      BY <1>4, <3>1 DEF EventsInv, EventsFollowCommits
    <3>3. EventIndex(j) \in Nat /\ EventIndex(j) <= at - 1
      BY <1>0, <1>2, <1>4, <2>2, EventCounts DEF EventsInv, Publishing
    <3>4. receipt.commits[EventIndex(j)] < receipt.commits[at]
      BY <1>1, <1>2, <1>5, <3>2, <3>3 DEF Publishing, CommitsRise
    <3> QED
      BY <3>1, <3>4 DEF EventCommit
  <2> QED
    BY <2>1, <2>2
<1>15. RetainedAs(db, at)
  BY <1>1, <1>2 DEF Publishing
<1>16. ASSUME NEW j \in DOMAIN published'
       PROVE  /\ published'[j].append_intent_id \in DOMAIN db.intents
              /\ EventIndex(j)' \in DOMAIN EventReceipt(j)'.fact_ids
              /\ \E e \in FactEntries(db) :
                  /\ Commit(e) = EventCommit(j)'
                  /\ e.record_id = published'[j].record_id
                  /\ e.path_ref = published'[j].trace_owner_id
                  /\ e.kind_label = published'[j].kind_label
              /\ \A k \in 1 .. j - 1 : EventCommit(k)' < EventCommit(j)'
  <2>1. CASE j \in 1 .. n
    <3>1. \A k \in 1 .. j - 1 : k \in 1 .. n
      BY <1>4, <2>1
    <3>2. published'[j] = published[j] /\ j \in DOMAIN published
      BY <1>4, <2>1
    <3>3. /\ published[j].append_intent_id \in DOMAIN db.intents
          /\ EventIndex(j) \in DOMAIN EventReceipt(j).fact_ids
          /\ \E e \in FactEntries(db) :
                  /\ Commit(e) = EventCommit(j)
                  /\ e.record_id = published[j].record_id
                  /\ e.path_ref = published[j].trace_owner_id
                  /\ e.kind_label = published[j].kind_label
          /\ \A k \in 1 .. j - 1 : EventCommit(k) < EventCommit(j)
      BY <3>2 DEF EventsInv, EventsFollowCommits
    <3> QED
      BY <1>7, <1>8, <2>1, <3>1, <3>2, <3>3
  <2>2. CASE j = n + 1
    <3>1. \A k \in 1 .. j - 1 : EventCommit(k)' < receipt.commits[at]
      BY <1>4, <1>8, <1>14, <2>2
    <3>2. published'[j] = new /\ EventCommit(j)' = receipt.commits[at] /\ EventIndex(j)' = at
          /\ EventReceipt(j)' = receipt
      BY <1>4, <1>11, <1>12, <1>13, <2>2
    <3>3. \E e \in FactEntries(db) :
                  /\ Commit(e) = receipt.commits[at]
                  /\ e.record_id = new.record_id
                  /\ e.path_ref = new.trace_owner_id
                  /\ e.kind_label = new.kind_label
      BY <1>3, <1>15 DEF RetainedAs
    <3> QED
      BY <1>1, <1>3, <1>6, <3>1, <3>2, <3>3
  <2> QED
    BY <1>4, <2>1, <2>2
<1>17. EventsFollowCommits'
  BY <1>1, <1>16 DEF EventsFollowCommits
<1>18. Publishing'
  <2>1. at' \in 1 .. Len(receipt.fact_ids) + 1 /\ at' - 1 = at
    BY <1>1, <1>5
  <2>2. \A k \in DOMAIN receipt.fact_ids : receipt.commits[k] \in Nat /\ RetainedAs(db, k)'
    BY <1>1, <1>2 DEF Publishing, RetainedAs, Draft
  <2>3. CommitsRise(receipt)'
    BY <1>1, <1>2 DEF Publishing, CommitsRise
  <2>4. Cardinality(EventsOf(batch.append_intent_id))' = at' - 1
    BY <1>0, <1>1, <1>10, <2>1 DEF EventsOf
  <2>5. ASSUME NEW j \in DOMAIN published', published'[j].append_intent_id # i
        PROVE  \A k \in DOMAIN receipt.fact_ids : EventCommit(j)' < receipt.commits[k]
    <3>1. j \in 1 .. n
      BY <1>3, <1>4, <2>5
    <3>2. j \in DOMAIN published /\ published[j].append_intent_id # i
      BY <1>4, <2>5, <3>1
    <3> QED
      BY <1>0, <1>2, <1>8, <3>1, <3>2 DEF Publishing
  <2> QED
    BY <1>0, <1>1, <1>2, <2>1, <2>2, <2>3, <2>4, <2>5 DEF Publishing
<1>19. AckedIsPublished'
  BY <1>1 DEF AckedIsPublished
<1> QED
  BY <1>1, <1>4, <1>17, <1>18, <1>19 DEF EventsInv

\* The acknowledgement comes when the last event is out.
LEMMA EndPublishEvents ==
    ASSUME EventsInv, EndPublish
    PROVE  EventsInv'
<1>1. /\ pc = "publish" /\ pc' = "reply" /\ at \notin DOMAIN receipt.fact_ids /\ published' = published
      /\ db' = db /\ batch' = batch /\ reply' = reply
  BY DEF EndPublish, scratch
<1>2. Publishing
  BY <1>1 DEF EventsInv
<1>3. /\ DOMAIN receipt.fact_ids = 1 .. Len(receipt.fact_ids) /\ Len(receipt.fact_ids) \in Nat
  BY <1>2, AppendOverRange DEF Publishing
<1>4. at - 1 = Len(reply.receipt.fact_ids)
  BY <1>1, <1>2, <1>3 DEF Publishing
<1>5. Cardinality(EventsOf(batch.append_intent_id)) = Len(reply.receipt.fact_ids)
  BY <1>2, <1>4 DEF Publishing
<1>6. Cardinality(EventsOf(batch.append_intent_id))' = Len(reply.receipt.fact_ids)'
  BY <1>1, <1>5 DEF EventsOf
<1>7. EventsFollowCommits'
  BY <1>1, EventsStayTold DEF EventsInv, Extends
<1> QED
  BY <1>1, <1>6, <1>7 DEF EventsInv, AckedIsPublished

\* The others publish nothing, or the process dies and its bus with it.
LEMMA OthersEvents ==
    ASSUME EventsInv, DurableInv, [Next]_vars, ~CommitTx, ~PublishEvent, ~EndPublish
    PROVE  EventsInv'
<1>1. CASE Crash
  <2>1. pc' = "idle" /\ published' = << >>
    BY <1>1 DEF Crash, Forget
  <2> QED
    BY <2>1 DEF EventsInv, EventsFollowCommits, AckedIsPublished
<1>2. CASE UNCHANGED vars
  <2>1. EventsFollowCommits'
    BY <1>2, EventsStayTold DEF EventsInv, Extends, vars
  <2>2. /\ db' = db /\ pc' = pc /\ call' = call /\ batch' = batch /\ at' = at /\ receipt' = receipt
        /\ isNew' = isNew /\ reply' = reply /\ published' = published
    BY <1>2 DEF vars, scratch
  <2>3. AckedIsPublished'
    BY <2>2 DEF EventsInv, AckedIsPublished, EventsOf
  <2>4. Publishing => Publishing'
    BY <2>2 DEF Publishing, CommitsRise, RetainedAs, Draft, EventsOf, EventCommit, EventReceipt, EventIndex
  <2> QED
    BY <2>1, <2>2, <2>3, <2>4 DEF EventsInv
<1>3. CASE /\ db' = db /\ published' = published /\ pc' # "publish"
           /\ pc' # "reply" \/ reply'.status # "ok"
  <2>1. EventsFollowCommits'
    BY <1>3, EventsStayTold DEF EventsInv, Extends
  <2> QED
    BY <1>3, <2>1 DEF EventsInv, AckedIsPublished
<1>4. CASE Errors \/ \E c \in AppendCalls \cup PublishCalls : RefuseCaller(c)
  <2>1. pc' = "reply" /\ reply'.status # "ok"
    BY <1>4, RefusalsAreNotOk
  <2>2. db' = db /\ published' = published
    BY <1>4, ErrorsFail DEF Fail, RefuseCaller
  <2> QED
    BY <1>3, <2>1, <2>2
<1>5. CASE Begin /\ ~\E c \in AppendCalls \cup PublishCalls : RefuseCaller(c)
  BY <1>3, <1>5 DEF Begin, BeginAppend, BeginPublish
<1>6. CASE Cancel
  BY <1>3, <1>6 DEF Cancel, InTransaction
<1>7. CASE Step /\ ~Errors
  BY <1>3, <1>7 DEF Step, Errors, ResolveThrough, AnswerRetry, StartStaging, StageDraft, RetainIntent,
       KeepWitness, InsertWitness, EndWitnesses, InsertFact, AdvanceCounters, IndexFrontier,
       KeepFrontier, Return, Forget
<1> QED
  BY <1>1, <1>2, <1>4, <1>5, <1>6, <1>7 DEF Next

\* From staging to publication drafts, receipt and entries agree, and events follow.
THEOREM EventsInvHolds == Spec => [](AgreeInv /\ EventsInv)
<1>1. Init => AgreeInv /\ EventsInv /\ DurableInv
  <2> SUFFICES ASSUME Init PROVE AgreeInv /\ EventsInv /\ DurableInv
    OBVIOUS
  <2>1. NoReply.status # "ok"
    BY DEF NoReply
  <2>2. AgreeInv /\ DurableInv
    BY <2>1 DEF Init, AgreeInv, DurableInv
  <2>3. published = << >> /\ pc = "idle"
    BY DEF Init
  <2> QED
    BY <2>2, <2>3 DEF EventsInv, EventsFollowCommits, AckedIsPublished
<1>2. TypeOK /\ PathInv /\ ReceiptsInv /\ DurableInv /\ [Next]_vars => DurableInv'
  BY NextDurable DEF PathInv
<1>3. TypeOK /\ PathInv /\ GraphInv /\ ReceiptsInv /\ AgreeInv /\ [Next]_vars => AgreeInv'
  BY StageDraftAgree, InsertFactAgree, AdvanceCountersAgree, IndexAgree, OthersAgree DEF GraphInv
<1>4. TypeOK /\ PathInv /\ GrowthInv /\ AgreeInv /\ DurableInv /\ EventsInv /\ [Next]_vars => EventsInv'
  BY CommitTxEvents, PublishEventEvents, EndPublishEvents, OthersEvents
<1> QED
  BY <1>1, <1>2, <1>3, <1>4, TypeCorrect, PathInvHolds, ViewHoldsCommitted, GraphInvHolds,
     ReceiptsInvHolds, PTL DEF Spec

\* store_append.go:49: for any batches, retries, cancellations and crashes, every event tells
\* of a committed fact with the owner and the label the store retained, the events come once
\* and in commit order, and a new append is acknowledged when all of its events are out.
THEOREM SubscribersAreTold == Spec => []EventsTellCommits
<1>1. EventsInv => EventsTellCommits
  BY DEF EventsInv, EventsTellCommits
<1> QED
  BY <1>1, EventsInvHolds, PTL

-----------------------------------------------------------------------------
(***************************************************************************)
(* What a frontier says.  Its row is written from the batch, whether the   *)
(* fact that the row names was retained by this call, by an earlier one or *)
(* by an append of the same content; so the row and the retained fact      *)
(* agree because the fingerprint kept for an intent, the ids in its        *)
(* receipt and the bodies of the records tell one content.  That the place *)
(* is the last one needs that a frontier's fact is never its own through   *)
(* fact, for which the soundness of the causal graph stands in.            *)
(***************************************************************************)
\* A body is the canonical content of the id, or another rendering a batch gave it.
Rendered(schema, canon, body) ==
    \/ body = canon
    \/ \E c \in AppendCalls : \E k \in DOMAIN c.batch.drafts :
         /\ c.batch.drafts[k].schema_ref = schema
         /\ c.batch.drafts[k].payload.canon = canon
         /\ c.batch.drafts[k].payload.json = body

Spells(row, id) ==
    /\ row.schema_ref = id[1]
    /\ row.caused_by = id[4]
    /\ Rendered(id[1], id[3], row.body)

Spelled(t) == \A id \in DOMAIN t.records : Spells(t.records[id], id)

WitnessesCiteNothing(t) == \A e \in t.paths \ FactEntries(t) : e.record_id[4] = << >>

\* The fingerprint and the receipt of an intent are of one batch.
IdTells(id, draft, canon, parents) ==
    id[1] = draft.schema_ref /\ id[3] = canon /\ Range(parents) \subseteq Range(id[4])

DigestsTell(t) ==
    \A i \in DOMAIN t.intents :
      LET d   == t.intents[i].batch_digest
          ids == t.intents[i].receipt.fact_ids
      IN  /\ DOMAIN ids = DOMAIN d.drafts
          /\ \A k \in DOMAIN ids :
               IdTells(ids[k], d.drafts[k], d.drafts[k].payload,
                       d.groups[d.drafts[k].group].causal_parents)

SoundBatch(b) ==
    /\ b.drafts \in Seq(Range(b.drafts))
    /\ \A k \in DOMAIN b.drafts :
         /\ {"group", "schema_ref", "payload"} \subseteq DOMAIN b.drafts[k]
         /\ b.drafts[k].group \in DOMAIN b.groups
         /\ {"trace_owner_id", "causal_parents"} \subseteq DOMAIN GroupOf(b, k)
         /\ \A s \in {GroupOf(b, k).causal_parents, b.drafts[k].caused_by_fact_ids,
                      b.drafts[k].caused_by_local_refs} : s \in Seq(Range(s))
         /\ Rendered(b.drafts[k].schema_ref, b.drafts[k].payload.canon, b.drafts[k].payload.json)

PreparedSpelled(k) ==
    /\ Spells(facts[k], facts[k].record_id)
    /\ IdTells(facts[k].record_id, Draft(k), Draft(k).payload.canon, GroupOf(batch, k).causal_parents)

ContentInv ==
    /\ Spelled(db) /\ WitnessesCiteNothing(db) /\ DigestsTell(db)
    /\ Spelled(work) /\ WitnessesCiteNothing(work) /\ DigestsTell(work)
    /\ pc \in {"lookup", "stage", "witness", "fact"} => SoundBatch(batch)
    /\ pc \in {"stage", "witness", "fact"} =>
         DOMAIN facts \subseteq DOMAIN batch.drafts /\ \A k \in DOMAIN facts : PreparedSpelled(k)

\* The fields of an id.
LEMMA DigestFields ==
    ASSUME NEW schema, NEW mode, NEW canon, NEW causes, NEW witness
    PROVE  LET id == RecordDigest(schema, mode, canon, causes, witness)
           IN  id[1] = schema /\ id[3] = canon /\ id[4] = causes /\ id[5] = witness
  BY DEF RecordDigest

\* What a fingerprint keeps of a draft.
LEMMA FingerprintFields ==
    ASSUME NEW b, SoundBatch(b), NEW auth
    PROVE  LET d == batchDigest(b, auth)
           IN  /\ DOMAIN d.drafts = DOMAIN b.drafts
               /\ \A k \in DOMAIN b.drafts :
                    /\ d.drafts[k].schema_ref = b.drafts[k].schema_ref
                    /\ d.drafts[k].payload = b.drafts[k].payload.canon
                    /\ d.groups[d.drafts[k].group].causal_parents = GroupOf(b, k).causal_parents
                    /\ d.groups[d.drafts[k].group].trace_owner_id = GroupOf(b, k).trace_owner_id
<1> DEFINE d == batchDigest(b, auth)
           gs == [g \in DOMAIN b.groups |->
                   [b.groups[g] EXCEPT !.retained_context =
                      IF @.form = "reuse" THEN @
                      ELSE [form |-> "draft", content |-> DraftContent(@)]]]
           ds == [k \in DOMAIN b.drafts |-> [b.drafts[k] EXCEPT !.payload = @.canon]]
<1>1. d.groups = gs /\ d.drafts = ds
  BY DEF batchDigest
<1>2. ASSUME NEW k \in DOMAIN b.drafts
      PROVE  /\ ds[k].schema_ref = b.drafts[k].schema_ref
             /\ ds[k].payload = b.drafts[k].payload.canon
             /\ ds[k].group = b.drafts[k].group
             /\ gs[b.drafts[k].group].causal_parents = GroupOf(b, k).causal_parents
             /\ gs[b.drafts[k].group].trace_owner_id = GroupOf(b, k).trace_owner_id
  <2>1. /\ {"group", "schema_ref", "payload"} \subseteq DOMAIN b.drafts[k]
        /\ b.drafts[k].group \in DOMAIN b.groups
        /\ {"trace_owner_id", "causal_parents"} \subseteq DOMAIN GroupOf(b, k)
    BY DEF SoundBatch
  <2>2. ds[k] = [b.drafts[k] EXCEPT !.payload = b.drafts[k].payload.canon]
    OBVIOUS
  <2>3. PICK c : gs[b.drafts[k].group] = [b.groups[b.drafts[k].group] EXCEPT !.retained_context = c]
    BY <2>1
  <2>4. gs[b.drafts[k].group] = [GroupOf(b, k) EXCEPT !.retained_context = c]
    BY <2>3 DEF GroupOf
  <2> HIDE DEF gs, ds
  <2> QED
    BY <2>1, <2>2, <2>4
<1> HIDE DEF gs
<1> QED
  BY <1>1, <1>2

\* The batches of calls are sound.
LEMMA CallBatchesSound ==
    /\ \A c \in AppendCalls : SoundBatch(c.batch)
    /\ \A c \in PublishCalls : \A n : SoundBatch(FrontierBatch(c.spec, c.auth, n))
<1>1. ASSUME NEW c \in AppendCalls PROVE SoundBatch(c.batch)
  BY AppendCallsAssumption, BatchShapesAssumption DEF SoundBatch, Rendered
<1>2. ASSUME NEW c \in PublishCalls, NEW n PROVE SoundBatch(FrontierBatch(c.spec, c.auth, n))
  <2> DEFINE spec == c.spec
             auth == c.auth
             b == FrontierBatch(spec, auth, n)
             d == FrontierDraft(spec, n)
             g == FrontierGroup(spec, auth)
  <2>1. b.drafts = <<d>> /\ b.groups = <<g>>
    BY DEF FrontierBatch
  <2>2. {"group", "schema_ref", "payload"} \subseteq DOMAIN d /\ d.group = 1
    BY DEF FrontierDraft
  <2>3. d.payload.json = d.payload.canon
    BY DEF FrontierDraft, Plain
  <2>4. {"trace_owner_id", "causal_parents"} \subseteq DOMAIN g
    BY DEF FrontierGroup
  <2>8. d.caused_by_fact_ids = << >> /\ d.caused_by_local_refs = << >>
    BY DEF FrontierDraft
  <2>9. g.causal_parents = <<spec.through_fact_id>> \o spec.caused_by
    BY DEF FrontierGroup
  <2>10. g.causal_parents \in Seq(Range(g.causal_parents))
    <3>1. spec.caused_by \in Seq(Range(spec.caused_by))
      BY BatchShapesAssumption
    <3> DEFINE S == Range(spec.caused_by) \cup {spec.through_fact_id}
    <3>2. spec.caused_by \in Seq(S) /\ <<spec.through_fact_id>> \in Seq(S)
      BY <3>1 DEF Range
    <3> HIDE DEF S, g, spec
    <3>3. g.causal_parents \in Seq(S)
      BY <2>9, <3>2
    <3> QED
      BY <3>3, OverOwnRange
  <2>11. << >> \in Seq(Range(<< >>))
    OBVIOUS
  <2> HIDE DEF d, g, b, spec, auth
  <2>5. DOMAIN b.drafts = {1} /\ b.drafts[1] = d /\ DOMAIN b.groups = {1} /\ b.groups[1] = g
    BY <2>1
  <2>6. b.drafts \in Seq(Range(b.drafts))
    BY <2>1, <2>5 DEF Range
  <2>7. SoundBatch(b)
    BY <2>2, <2>3, <2>4, <2>5, <2>6, <2>8, <2>10, <2>11 DEF SoundBatch, GroupOf, Rendered
  <2> QED
    BY <2>7 DEF b, spec, auth
<1> QED
  BY <1>1, <1>2

\* No record cites itself: of its entries one comes first.
LEMMA NoSelfCause ==
    ASSUME NEW t, GraphOK(t), Spelled(t), WitnessesCiteNothing(t), CommitsOf(t) \subseteq Nat,
           NEW id \in DOMAIN t.records
    PROVE  id \notin Range(id[4])
<1> SUFFICES ASSUME id \in Range(id[4]) PROVE FALSE
  OBVIOUS
<1> DEFINE numbers == {Commit(e) : e \in {f \in FactEntries(t) : f.record_id = id}}
<1>1. t.records[id].caused_by = id[4]
  BY DEF Spelled, Spells
<1>2. \A e \in t.paths : e.record_id = id => e \in FactEntries(t)
  <2> SUFFICES ASSUME NEW e \in t.paths, e.record_id = id, e \notin FactEntries(t) PROVE FALSE
    OBVIOUS
  <2>1. id[4] = << >>
    BY DEF WitnessesCiteNothing
  <2>2. Range(<< >>) = {}
    BY DEF Range
  <2> QED
    BY <2>1, <2>2
<1>3. numbers # {} /\ numbers \subseteq Nat
  <2>1. PICK e \in t.paths : e.record_id = id
    BY DEF GraphOK, Filed
  <2>2. Commit(e) \in numbers
    BY <1>2, <2>1
  <2>3. numbers \subseteq CommitsOf(t)
    BY DEF CommitsOf
  <2> QED
    BY <2>2, <2>3
<1> HIDE DEF numbers
<1>4. PICK d \in numbers : \A e \in numbers : ~(<<e, d>> \in OpToRel(<, Nat))
  BY <1>3, NatLessThanWellFounded, WFMin, Zenon
<1>5. \A e \in numbers : ~(e < d)
  <2>1. \A a, b \in Nat : a < b => <<a, b>> \in OpToRel(<, Nat)
    BY DEF OpToRel
  <2> QED
    BY <1>3, <1>4, <2>1, Zenon
<1>6. PICK e \in FactEntries(t) : e.record_id = id /\ Commit(e) = d
  BY <1>4 DEF numbers
<1>7. PICK p \in t.paths : p.record_id = id /\ (p \in FactEntries(t) => Commit(p) < Commit(e))
  BY <1>1, <1>6 DEF GraphOK, CausesFirst
<1>8. Commit(p) \in numbers /\ Commit(p) < d
  BY <1>2, <1>6, <1>7 DEF numbers
<1> QED
  BY <1>5, <1>8

\* Only records, paths and intents matter.
LEMMA SameContent ==
    ASSUME NEW t, NEW u, u.records = t.records, u.paths = t.paths, u.intents = t.intents,
           Spelled(t), WitnessesCiteNothing(t), DigestsTell(t)
    PROVE  Spelled(u) /\ WitnessesCiteNothing(u) /\ DigestsTell(u)
  BY DEF Spelled, WitnessesCiteNothing, DigestsTell, FactEntries

\* A row that spells its id is inserted beside those that do.
LEMMA InsertSpelled ==
    ASSUME NEW t, DOMAIN t = TableNames, Spelled(t), NEW fact, NEW r, Spells(fact, fact.record_id)
    PROVE  Spelled(insertFactRow(t, fact, r))
<1> DEFINE u == insertFactRow(t, fact, r)
           x == fact.record_id
<1>0. /\ u.paths = t.paths \cup {Entry(fact, r)}
      /\ x \in DOMAIN t.records => u.records = t.records /\ u.edges = t.edges
      /\ x \notin DOMAIN t.records =>
           /\ u.records = [id \in DOMAIN t.records \cup {x} |->
                             IF id = x THEN Row(fact) ELSE t.records[id]]
           /\ u.edges = t.edges \cup Edges(fact)
  BY InsertFactRowGraph
<1>1. CASE x \in DOMAIN t.records
  <2>1. u.records = t.records
    BY <1>0, <1>1
  <2> QED
    BY <2>1 DEF Spelled
<1>2. CASE x \notin DOMAIN t.records
  <2>1. u.records = [id \in DOMAIN t.records \cup {x} |-> IF id = x THEN Row(fact) ELSE t.records[id]]
    BY <1>0, <1>2
  <2>2. /\ Row(fact).schema_ref = fact.schema_ref /\ Row(fact).caused_by = fact.caused_by
        /\ Row(fact).body = fact.body
    BY DEF Row
  <2>3. Spells(Row(fact), x)
    BY <2>2 DEF Spells
  <2> HIDE DEF u, x
  <2>4. \A id \in DOMAIN u.records : Spells(u.records[id], id)
    BY <2>1, <2>3 DEF Spelled
  <2> QED
    BY <2>4 DEF Spelled, u
<1> QED
  BY <1>1, <1>2

\* A draft is prepared as its id spells it.
LEMMA StageDraftContent ==
    ASSUME TypeOK, PreparedWitnessed, ContentInv, StageDraft
    PROVE  ContentInv'
<1> DEFINE f == PreparedFact(at)
           g == GroupOf(batch, at)
           cs == resolvedCauses(at)
<1>1. /\ pc = "stage" /\ pc' = pc /\ db' = db /\ work' = work /\ facts' = Append(facts, f)
      /\ batch' = batch /\ at \in DOMAIN batch.drafts
  BY DEF StageDraft
<1>2. SoundBatch(batch)
  BY <1>1 DEF ContentInv
<1>3. /\ f.record_id[1] = Draft(at).schema_ref /\ f.record_id[3] = Draft(at).payload.canon
      /\ f.record_id[4] = cs
      /\ f.schema_ref = Draft(at).schema_ref /\ f.caused_by = cs /\ f.body = Draft(at).payload.json
  BY DigestFields DEF PreparedFact
<1>4. Range(g.causal_parents) \subseteq Range(cs)
  <2> DEFINE local == [i \in DOMAIN Draft(at).caused_by_local_refs |->
                         facts[Max(LocalDrafts(Draft(at).caused_by_local_refs[i]))].record_id]
             ps == g.causal_parents
             qs == Draft(at).caused_by_fact_ids
             refs == Draft(at).caused_by_local_refs
  <2>1. cs = (ps \o qs) \o local
    BY DEF resolvedCauses
  <2>2. ps \in Seq(Range(ps)) /\ qs \in Seq(Range(qs)) /\ refs \in Seq(Range(refs))
    BY <1>1, <1>2 DEF SoundBatch, Draft
  <2>3. DOMAIN local = DOMAIN refs
    OBVIOUS
  <2>4. DOMAIN local = 1 .. Len(refs) /\ Len(refs) \in Nat
    BY <2>2, <2>3
  <2>5. local \in Seq(Range(local))
    <3>1. \A k \in 1 .. Len(refs) : local[k] \in Range(local)
      BY <2>4 DEF Range
    <3>2. local = [k \in 1 .. Len(refs) |-> local[k]]
      BY <2>2
    <3> HIDE DEF local
    <3> QED
      BY <2>4, <3>1, <3>2
  <2> HIDE DEF local, ps, qs, refs, cs
  <2> DEFINE S == Range(ps) \cup Range(qs) \cup Range(local)
  <2>6. ps \in Seq(S) /\ qs \in Seq(S) /\ local \in Seq(S)
    BY <2>2, <2>5 DEF Range
  <2> HIDE DEF S
  <2>7. /\ DOMAIN ps = 1 .. Len(ps) /\ Len(ps) \in Nat /\ DOMAIN cs = 1 .. Len(cs)
        /\ Len(cs) = Len(ps) + Len(qs) + Len(local) /\ Len(qs) \in Nat /\ Len(local) \in Nat
        /\ \A k \in 1 .. Len(ps) : cs[k] = ps[k]
    BY <2>1, <2>6
  <2>8. \A k \in DOMAIN ps : k \in DOMAIN cs /\ cs[k] = ps[k]
    BY <2>7
  <2>9. Range(ps) \subseteq Range(cs)
    BY <2>8 DEF Range
  <2> QED
    BY <2>9 DEF ps
<1>5. Rendered(Draft(at).schema_ref, Draft(at).payload.canon, Draft(at).payload.json)
  BY <1>1, <1>2 DEF SoundBatch, Draft
<1>6. /\ Spells(f, f.record_id)
      /\ IdTells(f.record_id, Draft(at), Draft(at).payload.canon, GroupOf(batch, at).causal_parents)
  BY <1>3, <1>4, <1>5 DEF Spells, IdTells
<1> HIDE DEF f
<1>7. /\ Len(facts) \in Nat /\ DOMAIN facts = 1 .. Len(facts) /\ at = Len(facts) + 1
      /\ DOMAIN facts' = 1 .. Len(facts) + 1
      /\ \A k \in 1 .. Len(facts) : facts'[k] = facts[k]
      /\ facts'[Len(facts) + 1] = f
  BY <1>1, AppendOverRange DEF TypeOK, PreparedWitnessed
<1>8. ASSUME NEW k \in DOMAIN facts' PROVE PreparedSpelled(k)'
  <2>1. CASE k = at
    BY <1>1, <1>6, <1>7, <2>1 DEF PreparedSpelled, Draft
  <2>2. CASE k \in DOMAIN facts
    <3>1. PreparedSpelled(k) /\ facts'[k] = facts[k]
      BY <1>1, <1>7, <2>2 DEF ContentInv
    <3> QED
      BY <1>1, <3>1 DEF PreparedSpelled, Draft
  <2> QED
    BY <1>7, <2>1, <2>2
<1>9. DOMAIN facts' \subseteq DOMAIN batch.drafts
  BY <1>1, <1>7 DEF ContentInv
<1> QED
  BY <1>1, <1>2, <1>8, <1>9 DEF ContentInv

\* An intent is retained with the fingerprint of its batch.
LEMMA RetainIntentContent ==
    ASSUME TypeOK, PreparedWitnessed, ContentInv, RetainIntent
    PROVE  ContentInv'
<1> DEFINE i == batch.append_intent_id
<1>1. /\ pc = "stage" /\ pc' = "witness" /\ db' = db /\ facts' = facts /\ batch' = batch
      /\ at \notin DOMAIN batch.drafts
  BY DEF RetainIntent
<1>2. work'.paths = work.paths /\ work'.intents = WithIntent(work)
  BY WritesTables
<1>3. work'.records = work.records
  <2>1. DOMAIN work = TableNames
    BY EmptyTablesFields DEF TypeOK, TablesTypeOK
  <2> QED
    BY <2>1 DEF RetainIntent, TableNames
<1>4. SoundBatch(batch) /\ DOMAIN facts \subseteq DOMAIN batch.drafts
      /\ \A k \in DOMAIN facts : PreparedSpelled(k)
  BY <1>1 DEF ContentInv
<1>5. DOMAIN facts = DOMAIN batch.drafts
  <2>1. DOMAIN batch.drafts = 1 .. Len(batch.drafts) /\ Len(batch.drafts) \in Nat
    BY <1>4, AppendOverRange DEF SoundBatch
  <2>2. DOMAIN facts = 1 .. Len(facts) /\ Len(facts) \in Nat /\ at = Len(facts) + 1
    BY <1>1, DraftsFromOne DEF PreparedWitnessed
  <2> DEFINE n == Len(batch.drafts)
             m == Len(facts)
  <2>3. n \in Nat /\ m \in Nat /\ 1 .. m \subseteq 1 .. n /\ m + 1 \notin 1 .. n
    BY <1>1, <1>4, <2>1, <2>2
  <2> HIDE DEF n, m
  <2>4. m = n
    BY <2>3
  <2> QED
    BY <2>1, <2>2, <2>4 DEF n, m
<1>6. /\ DOMAIN work'.intents = DOMAIN work.intents \cup {i}
      /\ work'.intents[i] = [batch_digest |-> batchDigest(batch, call.auth), receipt |-> PreparedReceipt]
      /\ \A j \in DOMAIN work.intents : j # i => work'.intents[j] = work.intents[j]
  BY <1>2 DEF WithIntent
<1>7. PreparedReceipt.fact_ids = [k \in DOMAIN facts |-> facts[k].record_id]
  BY DEF PreparedReceipt
<1> DEFINE d == batchDigest(batch, call.auth)
           ids == [k \in DOMAIN facts |-> facts[k].record_id]
<1>8. work'.intents[i].batch_digest = d /\ work'.intents[i].receipt.fact_ids = ids
  BY <1>6, <1>7
<1>9. DOMAIN ids = DOMAIN d.drafts
  BY <1>4, <1>5, FingerprintFields
<1>10. ASSUME NEW k \in DOMAIN facts
       PROVE  IdTells(ids[k], d.drafts[k], d.drafts[k].payload, d.groups[d.drafts[k].group].causal_parents)
  <2>1. IdTells(ids[k], Draft(k), Draft(k).payload.canon, GroupOf(batch, k).causal_parents)
    BY <1>4 DEF PreparedSpelled
  <2>2. /\ d.drafts[k].schema_ref = Draft(k).schema_ref
        /\ d.drafts[k].payload = Draft(k).payload.canon
        /\ d.groups[d.drafts[k].group].causal_parents = GroupOf(batch, k).causal_parents
    BY <1>4, <1>5, FingerprintFields DEF Draft
  <2> HIDE DEF d, ids
  <2> QED
    BY <2>1, <2>2 DEF IdTells
<1> HIDE DEF d, i
<1>11. DigestsTell(work')
  <2> SUFFICES ASSUME NEW j \in DOMAIN work'.intents
               PROVE  LET e == work'.intents[j].batch_digest
                          rs == work'.intents[j].receipt.fact_ids
                      IN  /\ DOMAIN rs = DOMAIN e.drafts
                          /\ \A k \in DOMAIN rs :
                               IdTells(rs[k], e.drafts[k], e.drafts[k].payload,
                                       e.groups[e.drafts[k].group].causal_parents)
    BY DEF DigestsTell
  <2>1. CASE j = i
    BY <1>8, <1>9, <1>10, <2>1
  <2>2. CASE j # i
    <3>1. j \in DOMAIN work.intents /\ work'.intents[j] = work.intents[j]
      BY <1>6, <2>2
    <3> QED
      BY <3>1 DEF ContentInv, DigestsTell
  <2> QED
    BY <2>1, <2>2
<1>12. Spelled(work') /\ WitnessesCiteNothing(work')
  BY <1>2, <1>3 DEF ContentInv, Spelled, WitnessesCiteNothing, FactEntries
<1>13. \A k \in DOMAIN facts : PreparedSpelled(k)'
  BY <1>1, <1>4 DEF PreparedSpelled, Draft
<1> QED
  BY <1>1, <1>4, <1>11, <1>12, <1>13 DEF ContentInv

\* A witness spells its id, and cites nothing.
LEMMA InsertWitnessContent ==
    ASSUME TypeOK, ContentInv, InsertWitness
    PROVE  ContentInv'
<1> DEFINE plan == Plan(at)
           f == WitnessFact(plan)
           r == <<"witness", plan.record_id>>
           t == insertFactRow(work, f, r)
           n == [t.next EXCEPT ![witnessTraceOwnerID] = @ + 1]
<1>1. /\ pc = "witness" /\ pc' = pc /\ db' = db /\ facts' = facts /\ batch' = batch
  BY DEF InsertWitness
<1>2. /\ plan.record_id[1] = plan.schema_ref /\ plan.record_id[3] = plan.body
      /\ plan.record_id[4] = << >>
  <2>1. \A content, auth : LET q == ordinaryWitnessPlan(content, auth)
                          IN  /\ q.record_id[1] = q.schema_ref /\ q.record_id[3] = q.body
                              /\ q.record_id[4] = << >>
    BY DigestFields DEF ordinaryWitnessPlan
  <2>2. /\ rootWitnessPlan.record_id[1] = rootWitnessPlan.schema_ref
        /\ rootWitnessPlan.record_id[3] = rootWitnessPlan.body
        /\ rootWitnessPlan.record_id[4] = << >>
    BY DigestFields DEF rootWitnessPlan, RootWitnessRecordID
  <2> QED
    BY <2>1, <2>2 DEF Plan, WitnessOf
<1>3. /\ f.record_id = plan.record_id /\ f.schema_ref = plan.schema_ref /\ f.caused_by = << >>
      /\ f.body = plan.body
  BY DEF WitnessFact
<1>4. Spells(f, f.record_id)
  BY <1>2, <1>3 DEF Spells, Rendered
<1>5. DOMAIN work = TableNames
  BY EmptyTablesFields DEF TypeOK, TablesTypeOK
<1>6. work' = [t EXCEPT !.next = n]
  BY DEF InsertWitness
<1>7. work'.paths = work.paths \cup {WitnessEntry(plan)} /\ work'.intents = work.intents
  BY WritesTables
<1>8. WitnessEntry(plan).record_id = plan.record_id /\ WitnessEntry(plan).commit_receipt[1] = "witness"
  BY <1>3 DEF WitnessEntry, Entry
<1> HIDE DEF plan, f, r, n
<1>9. Spelled(t) /\ DOMAIN t = TableNames
  BY <1>4, <1>5, InsertSpelled, InsertFactRowFields DEF ContentInv
<1> HIDE DEF t
<1>10. work'.records = t.records
  BY <1>6, <1>9 DEF TableNames
<1>11. Spelled(work')
  BY <1>9, <1>10 DEF Spelled
<1> DEFINE e == WitnessEntry(plan)
<1>12. /\ work'.paths = work.paths \cup {e} /\ e.record_id[4] = << >>
       /\ FactEntries(work) \subseteq FactEntries(work')
  BY <1>2, <1>7, <1>8 DEF FactEntries
<1> HIDE DEF e
<1>13. WitnessesCiteNothing(work')
  BY <1>12 DEF ContentInv, WitnessesCiteNothing
<1>14. DigestsTell(work')
  BY <1>7 DEF ContentInv, DigestsTell
<1>15. \A k \in DOMAIN facts : PreparedSpelled(k)' <=> PreparedSpelled(k)
  BY <1>1 DEF PreparedSpelled, Draft
<1> QED
  BY <1>1, <1>11, <1>13, <1>14, <1>15 DEF ContentInv

\* A fact is inserted as it was prepared.
LEMMA InsertFactContent ==
    ASSUME TypeOK, ContentInv, InsertFact
    PROVE  ContentInv'
<1> DEFINE f == facts[at]
           r == <<"commit", f.commit>>
           e == Entry(f, r)
<1>1. /\ pc = "fact" /\ pc' = pc /\ db' = db /\ facts' = facts /\ batch' = batch
      /\ at \in DOMAIN facts /\ work' = insertFactRow(work, f, r)
  BY DEF InsertFact
<1>2. Spells(f, f.record_id)
  BY <1>1 DEF ContentInv, PreparedSpelled
<1>3. DOMAIN work = TableNames
  BY EmptyTablesFields DEF TypeOK, TablesTypeOK
<1>4. work'.paths = work.paths \cup {e} /\ work'.intents = work.intents
  BY WritesTables
<1>5. e.commit_receipt[1] = "commit"
  BY EntryFields
<1> HIDE DEF f, r, e
<1>6. Spelled(work')
  BY <1>1, <1>2, <1>3, InsertSpelled DEF ContentInv
<1>7. WitnessesCiteNothing(work')
  BY <1>4, <1>5 DEF ContentInv, WitnessesCiteNothing, FactEntries
<1>8. DigestsTell(work')
  BY <1>4 DEF ContentInv, DigestsTell
<1>9. \A k \in DOMAIN facts : PreparedSpelled(k)' <=> PreparedSpelled(k)
  BY <1>1 DEF PreparedSpelled, Draft
<1> QED
  BY <1>1, <1>6, <1>7, <1>8, <1>9 DEF ContentInv

\* The others write neither records nor intents, or drop or commit what is written.
LEMMA OthersContent ==
    ASSUME TypeOK, PathInv, MarksInv, ContentInv, [Next]_vars,
           ~StageDraft, ~RetainIntent, ~InsertWitness, ~InsertFact
    PROVE  ContentInv'
<1>1. /\ Spelled(db') /\ WitnessesCiteNothing(db') /\ DigestsTell(db')
      /\ Spelled(work') /\ WitnessesCiteNothing(work') /\ DigestsTell(work')
  <2>1. CASE AdvanceCounters \/ IndexFrontier
    <3>1. db' = db /\ work'.paths = work.paths /\ work'.intents = work.intents
      BY <2>1, WritesTables DEF AdvanceCounters, IndexFrontier
    <3>2. work'.records = work.records
      <4>1. DOMAIN work = TableNames
        BY EmptyTablesFields DEF TypeOK, TablesTypeOK
      <4> QED
        BY <2>1, <4>1 DEF AdvanceCounters, IndexFrontier, TableNames
    <3> QED
      BY <3>1, <3>2, SameContent DEF ContentInv
  <2>2. CASE ~AdvanceCounters /\ ~IndexFrontier
    <3>1. (db' = db \/ db' = work) /\ (work' = work \/ work' = db)
      BY <2>2, OthersKeepTables DEF Writes
    <3> QED
      BY <3>1 DEF ContentInv
  <2> QED
    BY <2>1, <2>2
<1>2. CASE pc' \notin {"lookup", "stage", "witness", "fact"}
  BY <1>1, <1>2 DEF ContentInv
<1>3. CASE pc' = "lookup" /\ SoundBatch(batch')
  BY <1>1, <1>3 DEF ContentInv
<1>4. CASE /\ facts' = facts /\ batch' = batch /\ pc \in {"stage", "witness", "fact"}
  <2>1. \A k \in DOMAIN facts : PreparedSpelled(k)' <=> PreparedSpelled(k)
    BY <1>4 DEF PreparedSpelled, Draft
  <2> QED
    BY <1>1, <1>4, <2>1 DEF ContentInv
<1>5. CASE /\ facts' = facts /\ batch' = batch /\ pc = "lookup" /\ pc' \in {"lookup", "stage"}
  <2>1. facts' = << >>
    BY <1>5 DEF PathInv, PreparedInv
  <2>2. DOMAIN facts' = {}
    BY <2>1
  <2> QED
    BY <1>1, <1>5, <2>2 DEF ContentInv
<1>6. CASE \/ \E c \in AppendCalls : BeginAppend(c)
           \/ \E c \in PublishCalls : BeginPublish(c)
           \/ \E c \in AppendCalls \cup PublishCalls : RefuseCaller(c)
           \/ ResolveThrough
  <2>1. CASE \E c \in AppendCalls : BeginAppend(c)
    BY <1>3, <2>1, CallBatchesSound DEF BeginAppend
  <2>2. CASE ResolveThrough
    <3>1. call \in PublishCalls
      BY <2>2 DEF ResolveThrough, MarksInv
    <3> QED
      BY <1>3, <2>2, <3>1, CallBatchesSound DEF ResolveThrough
  <2>3. CASE \/ \E c \in PublishCalls : BeginPublish(c)
             \/ \E c \in AppendCalls \cup PublishCalls : RefuseCaller(c)
    BY <1>2, <2>3 DEF BeginPublish, RefuseCaller
  <2> QED
    BY <1>6, <2>1, <2>2, <2>3
<1>7. CASE Errors \/ Crash \/ Return \/ AnswerRetry \/ AdvanceCounters \/ IndexFrontier \/ KeepFrontier
           \/ CommitTx \/ PublishEvent \/ EndPublish
  BY <1>2, <1>7, ErrorsFail DEF Fail, Crash, Return, Forget, AnswerRetry, AdvanceCounters, IndexFrontier,
     KeepFrontier, CommitTx, PublishEvent, EndPublish
<1>8. CASE StartStaging \/ KeepWitness \/ EndWitnesses
  BY <1>4, <1>5, <1>8 DEF StartStaging, KeepWitness, EndWitnesses
<1>9. CASE Cancel \/ UNCHANGED vars
  <2>1. facts' = facts /\ batch' = batch /\ pc' = pc
    BY <1>9 DEF Cancel, vars, scratch
  <2> QED
    BY <1>2, <1>4, <1>5, <2>1
<1> QED
  BY <1>6, <1>7, <1>8, <1>9 DEF Next, Begin, Step, Errors

\* At every statement ids, rows, fingerprints and receipts tell one content.
THEOREM ContentInvHolds == Spec => []ContentInv
<1>1. Init => ContentInv
  <2> SUFFICES ASSUME Init PROVE ContentInv
    OBVIOUS
  <2>1. EmptyTables.intents = << >> /\ EmptyTables.paths = {} /\ EmptyTables.records = << >>
    BY DEF EmptyTables
  <2>2. Spelled(EmptyTables) /\ WitnessesCiteNothing(EmptyTables) /\ DigestsTell(EmptyTables)
    BY <2>1 DEF Spelled, WitnessesCiteNothing, DigestsTell
  <2> QED
    BY <2>2 DEF Init, ContentInv
<1>2. TypeOK /\ PathInv /\ WitnessInv /\ MarksInv /\ ContentInv /\ [Next]_vars => ContentInv'
  BY StageDraftContent, RetainIntentContent, InsertWitnessContent, InsertFactContent, OthersContent
     DEF WitnessInv
<1>3. Init => MarksInv
  BY DEF Init, MarksInv, NoCall
<1>4. TypeOK /\ PathInv /\ GrowthInv /\ MarksInv /\ [Next]_vars => MarksInv'
  BY WritesMarks, OthersMarks DEF PathInv
<1> QED
  BY <1>1, <1>2, <1>3, <1>4, TypeCorrect, PathInvHolds, ViewHoldsCommitted, WitnessInvHolds, PTL DEF Spec

-----------------------------------------------------------------------------
\* What FrontiersHold says of one frontier of a table.
PublishedAt(t, row) ==
    {Commit(e) : e \in {g \in FactEntries(t) : g.record_id = row.created_by_fact_id
                                              /\ g.append_intent_id = row.append_intent_id}}

RowTold(t, row, f) ==
    LET body == t.records[row.created_by_fact_id].body
    IN  /\ body.frontier_id = f
        /\ body.target_trace_owner_id = row.target_trace_owner_id
        /\ body.through_fact_id = row.through_fact_id
        /\ body.through_owner_ordinal = row.through_owner_ordinal

LastWhenPublished(t, row) ==
    /\ row.through_owner_ordinal \in Places(t, row.through_fact_id, row.target_trace_owner_id)
    /\ PublishedAt(t, row) # {}
    /\ \A e \in FactEntries(t) \cap Entries(t, row.target_trace_owner_id) :
         (e.record_id = row.through_fact_id /\ e.path_ordinal > row.through_owner_ordinal)
           => \A n \in PublishedAt(t, row) : Commit(e) > n

Right(t, row, f) == RowTold(t, row, f) /\ LastWhenPublished(t, row)

\* The batch names the last place that is committed.
PreparedLast ==
    \E n : /\ batch = FrontierBatch(call.spec, call.auth, n)
           /\ \A e \in db.paths :
                (e.path_ref = call.spec.target_trace_owner_id /\ e.record_id = call.spec.through_fact_id)
                  => e.path_ordinal <= n

Fingerprinted ==
    /\ batch.append_intent_id \in DOMAIN work.intents
    /\ work.intents[batch.append_intent_id].batch_digest = batchDigest(batch, call.auth)

\* The facts that are not committed yet are the batch's.
NewAreMine ==
    \A e \in FactEntries(work) \ db.paths :
      e.append_intent_id = batch.append_intent_id /\ batch.append_intent_id \notin DOMAIN db.intents

FrontInv ==
    /\ \A f \in DOMAIN db.frontiers : Right(db, db.frontiers[f], f)
    /\ (pc = "commit" /\ ~ctxDone) =>
         \A f \in DOMAIN work.frontiers \ DOMAIN db.frontiers : Right(work, work.frontiers[f], f)
    /\ (call.op = "publish" /\ pc \in {"lookup", "stage", "witness", "fact", "index"}) => PreparedLast
    /\ (pc \in {"witness", "fact", "index"} /\ ~ctxDone) => Fingerprinted
    /\ (pc \in {"witness", "fact", "index", "commit"} /\ ~ctxDone) => NewAreMine

\* A fact that is not committed has a greater number than those that are.
LEMMA NewAreLater ==
    ASSUME TypeOK, PathInv, GrowthInv, NEW e \in FactEntries(work) \ db.paths,
           NEW d \in FactEntries(db), CommitsOf(work) \subseteq Nat
    PROVE  Commit(d) < Commit(e)
<1>1. Commit(e) \in Nat /\ db.commitSeq \in Nat
  BY DEF CommitsOf, TypeOK, TablesTypeOK
<1>2. Commit(d) \in 0 .. db.commitSeq - 1
  BY DEF PathInv, TablesInv, GapFree, CommitsOf
<1>3. SUFFICES ASSUME Commit(e) \in 0 .. db.commitSeq - 1 PROVE FALSE
  BY <1>1, <1>2
<1>4. PICK c \in FactEntries(db) : Commit(c) = Commit(e)
  BY <1>3 DEF PathInv, TablesInv, GapFree, CommitsOf
<1>5. c \in work.paths /\ e \in work.paths /\ c \in db.paths
  BY DEF FactEntries, GrowthInv, Grown
<1>6. c.commit_receipt = e.commit_receipt
  <2>1. EntryTypeOK(c) /\ EntryTypeOK(e)
    BY <1>5 DEF TypeOK, TablesTypeOK
  <2>2. c.commit_receipt[1] = "commit" /\ e.commit_receipt[1] = "commit"
        /\ c.commit_receipt[2] = e.commit_receipt[2]
    BY <1>4 DEF FactEntries, Commit
  <2>3. c.commit_receipt = <<c.commit_receipt[1], c.commit_receipt[2]>>
        /\ e.commit_receipt = <<e.commit_receipt[1], e.commit_receipt[2]>>
    BY <2>1 DEF EntryTypeOK
  <2> QED
    BY <2>2, <2>3, Zenon
<1> QED
  BY <1>5, <1>6 DEF PathInv, TablesInv, KeysUnique

\* What a committed frontier says stays right when the batch is committed.
LEMMA KeptRight ==
    ASSUME TypeOK, PathInv, GrowthInv, GraphInv, ReceiptsInv, NewAreMine, CommitsOf(work) \subseteq Nat,
           NEW row, NEW f, Right(db, row, f)
    PROVE  Right(work, row, f)
<1> DEFINE r == row.created_by_fact_id
<1>1. PICK g \in FactEntries(db) : g.record_id = r /\ g.append_intent_id = row.append_intent_id
  BY DEF Right, LastWhenPublished, PublishedAt
<1>2. r \in DOMAIN db.records /\ row.append_intent_id \in DOMAIN db.intents
  <2>1. g \in db.paths
    BY DEF FactEntries
  <2> QED
    BY <1>1, <2>1 DEF GraphInv, GraphOK, Filed, ReceiptsInv, IntentsKnown
<1>3. work.records[r] = db.records[r]
  BY <1>2 DEF GrowthInv, Grown, Extends
<1>4. RowTold(work, row, f)
  BY <1>3 DEF Right, RowTold
<1>5. db.paths \subseteq work.paths /\ FactEntries(db) \subseteq FactEntries(work)
      /\ \A e \in FactEntries(work) : e \in db.paths => e \in FactEntries(db)
  BY DEF GrowthInv, Grown, FactEntries
<1>6. PublishedAt(work, row) = PublishedAt(db, row)
  <2>1. \A e \in FactEntries(work) : e.append_intent_id = row.append_intent_id => e \in FactEntries(db)
    BY <1>2, <1>5 DEF NewAreMine
  <2>2. {e \in FactEntries(work) : e.record_id = row.created_by_fact_id
                                   /\ e.append_intent_id = row.append_intent_id}
          = {e \in FactEntries(db) : e.record_id = row.created_by_fact_id
                                   /\ e.append_intent_id = row.append_intent_id}
    BY <1>5, <2>1
  <2> QED
    BY <2>2 DEF PublishedAt
<1>7. row.through_owner_ordinal \in Places(work, row.through_fact_id, row.target_trace_owner_id)
  BY <1>5 DEF Right, LastWhenPublished, Places
<1>8. ASSUME NEW e \in FactEntries(work) \cap Entries(work, row.target_trace_owner_id),
             e.record_id = row.through_fact_id, e.path_ordinal > row.through_owner_ordinal,
             NEW n \in PublishedAt(work, row)
      PROVE  Commit(e) > n
  <2>1. CASE e \in db.paths
    <3>1. e \in FactEntries(db) \cap Entries(db, row.target_trace_owner_id)
      BY <1>5, <2>1 DEF Entries
    <3> QED
      BY <1>6, <1>8, <3>1 DEF Right, LastWhenPublished
  <2>2. CASE e \notin db.paths
    <3>1. PICK d \in FactEntries(db) : n = Commit(d)
      BY <1>6 DEF PublishedAt
    <3>2. Commit(d) < Commit(e)
      BY <2>2, NewAreLater
    <3>3. Commit(d) \in Nat /\ Commit(e) \in Nat
      BY <1>5 DEF CommitsOf
    <3> QED
      BY <3>1, <3>2, <3>3
  <2> QED
    BY <2>1, <2>2
<1>9. PublishedAt(work, row) # {}
  BY <1>6 DEF Right, LastWhenPublished
<1>10. LastWhenPublished(work, row)
  BY <1>7, <1>8, <1>9 DEF LastWhenPublished
<1> QED
  BY <1>4, <1>10 DEF Right

\* What the batch of a frontier and its fingerprint are made of.
LEMMA FrontierContent ==
    ASSUME NEW c \in PublishCalls, NEW n
    PROVE  LET b == FrontierBatch(c.spec, c.auth, n)
               d == batchDigest(b, c.auth)
               body == FrontierDraft(c.spec, n).payload.canon
           IN  /\ DOMAIN d.drafts = {1}
               /\ d.drafts[1].schema_ref = FrontierSchemaRef
               /\ d.drafts[1].payload = body
               /\ c.spec.through_fact_id \in Range(d.groups[d.drafts[1].group].causal_parents)
               /\ b.drafts[1].payload.json = body
               /\ body.frontier_id = c.spec.frontier_id
               /\ body.target_trace_owner_id = c.spec.target_trace_owner_id
               /\ body.through_fact_id = c.spec.through_fact_id
               /\ body.through_owner_ordinal = n
<1> DEFINE b == FrontierBatch(c.spec, c.auth, n)
           d == FrontierDraft(c.spec, n)
           g == FrontierGroup(c.spec, c.auth)
           body == d.payload.canon
<1>1. b.drafts = <<d>> /\ b.groups = <<g>>
  BY DEF FrontierBatch
<1>2. d.schema_ref = FrontierSchemaRef /\ d.group = 1
  BY DEF FrontierDraft
<1>3. d.payload.json = d.payload.canon
  BY DEF FrontierDraft, Plain
<1>4. /\ body.frontier_id = c.spec.frontier_id
      /\ body.target_trace_owner_id = c.spec.target_trace_owner_id
      /\ body.through_fact_id = c.spec.through_fact_id
      /\ body.through_owner_ordinal = n
  BY DEF FrontierDraft, Plain
<1>5. c.spec.through_fact_id \in Range(g.causal_parents)
  <2> DEFINE x == c.spec.through_fact_id
             s == c.spec.caused_by
             S == Range(s) \cup {x}
  <2>1. s \in Seq(Range(s))
    BY BatchShapesAssumption
  <2>2. s \in Seq(S) /\ <<x>> \in Seq(S)
    BY <2>1 DEF Range
  <2>3. g.causal_parents = <<x>> \o s
    BY DEF FrontierGroup
  <2> HIDE DEF x, s, S, g
  <2>4. 1 \in DOMAIN g.causal_parents /\ g.causal_parents[1] = x
    BY <2>2, <2>3
  <2> QED
    BY <2>4 DEF Range, x
<1>6. SoundBatch(b)
  BY CallBatchesSound
<1> HIDE DEF d, g, b
<1>7. DOMAIN b.drafts = {1} /\ b.drafts[1] = d /\ GroupOf(b, 1) = g
  BY <1>1, <1>2 DEF GroupOf
<1> DEFINE e == batchDigest(b, c.auth)
<1>8. /\ DOMAIN e.drafts = {1} /\ e.drafts[1].schema_ref = d.schema_ref /\ e.drafts[1].payload = d.payload.canon
      /\ e.groups[e.drafts[1].group].causal_parents = g.causal_parents
  BY <1>6, <1>7, FingerprintFields
<1> HIDE DEF e
<1> QED
  BY <1>2, <1>3, <1>4, <1>5, <1>7, <1>8 DEF b, d, e

\* Only records and paths matter to a frontier.
LEMMA SameRight ==
    ASSUME NEW t, NEW u, u.records = t.records, u.paths = t.paths, NEW row, NEW f, Right(t, row, f)
    PROVE  Right(u, row, f)
<1>1. /\ FactEntries(u) = FactEntries(t)
      /\ \A p : Entries(u, p) = Entries(t, p)
      /\ \A id, p : Places(u, id, p) = Places(t, id, p)
  BY DEF FactEntries, Entries, Places
<1>2. PublishedAt(u, row) = PublishedAt(t, row)
  BY <1>1 DEF PublishedAt
<1> QED
  BY <1>1, <1>2 DEF Right, RowTold, LastWhenPublished

\* The row that is indexed tells what its retained fact does, which was last.
LEMMA IndexRight ==
    ASSUME TypeOK, PathInv, GrowthInv, GraphInv, ReceiptsInv, DurableInv, MarksInv, ContentInv, FrontInv,
           pc = "index", ~ctxDone
    PROVE  Right(work, FrontierRow, call.spec.frontier_id)
<1> DEFINE i == batch.append_intent_id
           spec == call.spec
           created == receipt.fact_ids[1]
           d == work.intents[i].batch_digest
           row == FrontierRow
<1>1. call \in PublishCalls /\ call.op = "publish"
  BY DEF MarksInv
<1>2. PICK n : /\ batch = FrontierBatch(call.spec, call.auth, n)
               /\ \A e \in db.paths :
                    (e.path_ref = call.spec.target_trace_owner_id /\ e.record_id = call.spec.through_fact_id)
                      => e.path_ordinal <= n
  BY <1>1 DEF FrontInv, PreparedLast
<1> DEFINE body == FrontierDraft(spec, n).payload.canon
<1>3. /\ row.target_trace_owner_id = spec.target_trace_owner_id
      /\ row.through_fact_id = spec.through_fact_id
      /\ row.through_owner_ordinal = n
      /\ row.created_by_fact_id = created
      /\ row.append_intent_id = i
  BY <1>2, PreparedRow DEF FrontierRow
<1>4. i \in DOMAIN work.intents /\ work.intents[i].receipt = receipt /\ d = batchDigest(batch, call.auth)
  BY DEF DurableInv, Keeps, FrontInv, Fingerprinted
<1>5. /\ DOMAIN d.drafts = {1}
      /\ d.drafts[1].schema_ref = FrontierSchemaRef
      /\ d.drafts[1].payload = body
      /\ spec.through_fact_id \in Range(d.groups[d.drafts[1].group].causal_parents)
      /\ body.frontier_id = spec.frontier_id
      /\ body.target_trace_owner_id = spec.target_trace_owner_id
      /\ body.through_fact_id = spec.through_fact_id
      /\ body.through_owner_ordinal = n
  <2>1. d = batchDigest(FrontierBatch(call.spec, call.auth, n), call.auth)
    BY <1>2, <1>4
  <2> HIDE DEF d
  <2> QED
    BY <1>1, <2>1, FrontierContent
<1>6. /\ DOMAIN receipt.fact_ids = DOMAIN d.drafts
      /\ \A k \in DOMAIN receipt.fact_ids :
           IdTells(receipt.fact_ids[k], d.drafts[k], d.drafts[k].payload,
                   d.groups[d.drafts[k].group].causal_parents)
  BY <1>4 DEF ContentInv, DigestsTell
<1> HIDE DEF d, i, body, row
<1>7. /\ DOMAIN receipt.fact_ids = {1} /\ created[1] = FrontierSchemaRef /\ created[3] = body
      /\ spec.through_fact_id \in Range(created[4])
  BY <1>5, <1>6 DEF IdTells
<1>8. Accounts(work, i)
  BY <1>4 DEF ReceiptsInv, AllAccounted
<1>9. {<<Commit(e), e.record_id>> : e \in Mine(work, i)} = {<<receipt.commits[1], created>>}
  <2>1. {<<Commit(e), e.record_id>> : e \in Mine(work, i)}
          = {<<receipt.commits[k], receipt.fact_ids[k]>> : k \in DOMAIN receipt.fact_ids}
    BY <1>4, <1>8 DEF Accounts
  <2> QED
    BY <1>7, <2>1
<1>10. \A e \in Mine(work, i) : e.record_id = created
  <2> TAKE e \in Mine(work, i)
  <2>1. <<Commit(e), e.record_id>> = <<receipt.commits[1], created>>
    BY <1>9
  <2> QED
    BY <2>1
<1>11. PICK g \in Mine(work, i) : g.record_id = created
  BY <1>9, <1>10
<1>12. created \in DOMAIN work.records
  BY <1>11 DEF Mine, FactEntries, GraphInv, GraphOK, Filed
<1>13. CommitsOf(work) \subseteq Nat
  BY DEF PathInv, TablesInv, GapFree, TypeOK, TablesTypeOK
<1>14. created # spec.through_fact_id
  <2>1. created \notin Range(created[4])
    BY <1>12, <1>13, NoSelfCause DEF ContentInv, GraphInv
  <2> QED
    BY <1>7, <2>1
<1>15. work.records[created].body = body
  <2>1. Rendered(FrontierSchemaRef, body, work.records[created].body)
    BY <1>7, <1>12 DEF ContentInv, Spelled, Spells
  <2>2. ASSUME NEW c \in AppendCalls, NEW k \in DOMAIN c.batch.drafts,
               c.batch.drafts[k].schema_ref = FrontierSchemaRef, c.batch.drafts[k].payload.canon = body
        PROVE  c.batch.drafts[k].payload.json = body
    <3>1. c.batch.drafts[k].payload.canon.through_owner_ordinal = n
      BY <1>5, <2>2
    <3>2. FrontierDraft(call.spec, n).payload.canon = body
      BY DEF body
    <3> QED
      BY <1>1, <2>2, <3>1, <3>2, FrontierPayloadsAssumption
  <2> QED
    BY <2>1, <2>2 DEF Rendered
<1>16. RowTold(work, row, spec.frontier_id)
  BY <1>3, <1>5, <1>15 DEF RowTold
<1>17. n \in Places(work, spec.through_fact_id, spec.target_trace_owner_id) /\ n \in Nat
  <2>1. PICK m : /\ batch = FrontierBatch(call.spec, call.auth, m)
                 /\ Holds(db, call.spec.target_trace_owner_id, m, call.spec.through_fact_id)
    BY <1>1 DEF MarksInv, Prepared
  <2>2. m = n
    <3>1. FrontierRow.through_owner_ordinal = m
      BY <2>1, PreparedRow
    <3> QED
      BY <1>3, <3>1 DEF row
  <2>3. PICK e \in db.paths : /\ e.path_ref = spec.target_trace_owner_id /\ e.path_ordinal = n
                              /\ e.record_id = spec.through_fact_id
    BY <2>1, <2>2 DEF Holds
  <2>4. e \in work.paths /\ e.path_ordinal \in Nat
    BY DEF GrowthInv, Grown, TypeOK, TablesTypeOK, EntryTypeOK
  <2> QED
    BY <2>3, <2>4 DEF Places
<1>18. PublishedAt(work, row) # {}
  BY <1>3, <1>11 DEF PublishedAt, Mine
<1>19. ASSUME NEW e \in FactEntries(work) \cap Entries(work, spec.target_trace_owner_id),
              e.record_id = spec.through_fact_id, e.path_ordinal > n
       PROVE  FALSE
  <2>0. e \in work.paths /\ e.path_ref = spec.target_trace_owner_id
    BY DEF Entries
  <2>1. CASE e \in db.paths
    <3>1. e.path_ordinal <= n
      BY <1>2, <1>19, <2>0, <2>1
    <3>2. e.path_ordinal \in Nat
      BY <2>0 DEF TypeOK, TablesTypeOK, EntryTypeOK
    <3> QED
      BY <1>17, <1>19, <3>1, <3>2
  <2>2. CASE e \notin db.paths
    <3>1. e \in Mine(work, i)
      BY <2>2 DEF FrontInv, NewAreMine, Mine, i
    <3> QED
      BY <1>10, <1>14, <1>19, <3>1
  <2> QED
    BY <2>1, <2>2
<1>20. LastWhenPublished(work, row)
  BY <1>3, <1>17, <1>18, <1>19 DEF LastWhenPublished
<1>21. Right(work, row, spec.frontier_id)
  BY <1>16, <1>20 DEF Right
<1> QED
  BY <1>21 DEF row

\* A batch is retained with its fingerprint, and only its facts are added.
LEMMA WritesFront ==
    ASSUME TypeOK, PathInv, GrowthInv, GraphInv, ReceiptsInv, DurableInv, MarksInv, ContentInv, FrontInv,
           Writes
    PROVE  FrontInv'
<1>1. /\ db' = db /\ call' = call /\ batch' = batch /\ ~ctxDone /\ ctxDone' = ctxDone
      /\ pc \in {"stage", "witness", "fact", "index"} /\ pc' \in {"witness", "fact", "index", "commit"}
  BY DEF Writes, RetainIntent, InsertWitness, InsertFact, AdvanceCounters, IndexFrontier, scratch, FrontInv
<1>2. \A f \in DOMAIN db'.frontiers : Right(db', db'.frontiers[f], f)
  BY <1>1 DEF FrontInv
<1>3. (call'.op = "publish" /\ pc' \in {"lookup", "stage", "witness", "fact", "index"}) => PreparedLast'
  BY <1>1 DEF FrontInv, PreparedLast
<1>4. ASSUME pc' \in {"witness", "fact", "index"}
      PROVE  Fingerprinted'
  <2>1. CASE RetainIntent
    <3>1. work'.intents = WithIntent(work)
      BY <2>1, WritesTables
    <3> DEFINE i == batch.append_intent_id
    <3>2. i \in DOMAIN work'.intents /\ work'.intents[i].batch_digest = batchDigest(batch, call.auth)
      BY <3>1 DEF WithIntent
    <3> QED
      BY <1>1, <3>2 DEF Fingerprinted
  <2>2. CASE InsertWitness \/ InsertFact \/ AdvanceCounters
    <3>1. work'.intents = work.intents
      BY <2>2, WritesTables
    <3>2. Fingerprinted
      BY <1>1, <2>2 DEF InsertWitness, InsertFact, AdvanceCounters, FrontInv
    <3> QED
      BY <1>1, <3>1, <3>2 DEF Fingerprinted
  <2> QED
    BY <1>4, <2>1, <2>2 DEF Writes, IndexFrontier
<1>5. NewAreMine'
  <2>1. CASE RetainIntent
    <3>1. work'.paths = work.paths /\ work = db
      BY <2>1, WritesTables DEF RetainIntent, PathInv, ViewInv
    <3> QED
      BY <1>1, <3>1 DEF NewAreMine, FactEntries
  <2>2. CASE ~RetainIntent
    <3>0. NewAreMine
      BY <1>1, <2>2 DEF Writes, InsertWitness, InsertFact, AdvanceCounters, IndexFrontier, FrontInv
    <3>1. CASE AdvanceCounters \/ IndexFrontier
      <4>1. work'.paths = work.paths
        BY <3>1, WritesTables
      <4> QED
        BY <1>1, <3>0, <4>1 DEF NewAreMine, FactEntries
    <3>2. CASE InsertWitness
      <4> DEFINE e == WitnessEntry(Plan(at))
      <4>1. work'.paths = work.paths \cup {e}
        BY <3>2, WritesTables
      <4>2. e.commit_receipt[1] = "witness"
        BY EntryFields DEF WitnessEntry
      <4> HIDE DEF e
      <4>3. FactEntries(work') = FactEntries(work)
        BY <4>1, <4>2 DEF FactEntries
      <4> QED
        BY <1>1, <3>0, <4>3 DEF NewAreMine
    <3>3. CASE InsertFact
      <4> DEFINE e == Entry(facts[at], <<"commit", facts[at].commit>>)
      <4>1. work'.paths = work.paths \cup {e}
        BY <3>3, WritesTables
      <4>2. e.append_intent_id = batch.append_intent_id
        BY DEF Entry
      <4> HIDE DEF e
      <4>3. FactEntries(work') \subseteq FactEntries(work) \cup {e}
        BY <4>1 DEF FactEntries
      <4>4. batch.append_intent_id \notin DOMAIN db.intents
        BY <1>1, <3>3 DEF InsertFact, ReceiptsInv, Inserting
      <4> QED
        BY <1>1, <3>0, <4>2, <4>3, <4>4 DEF NewAreMine
    <3> QED
      BY <2>2, <3>1, <3>2, <3>3 DEF Writes
  <2> QED
    BY <2>1, <2>2
<1>6. ASSUME pc' = "commit", NEW f \in DOMAIN work'.frontiers \ DOMAIN db'.frontiers
      PROVE  Right(work', work'.frontiers[f], f)
  <2>1. CASE AdvanceCounters
    <3>1. work'.frontiers = work.frontiers /\ pc = "fact"
      BY <2>1, InsertsKeepFrontiers DEF AdvanceCounters
    <3>2. work'.frontiers = db'.frontiers
      BY <1>1, <3>1 DEF MarksInv
    <3> QED
      BY <1>6, <3>2
  <2>2. CASE IndexFrontier
    <3> DEFINE g == call.spec.frontier_id
               rows == [h \in DOMAIN work.frontiers \cup {g} |->
                          IF h = g THEN FrontierRow ELSE work.frontiers[h]]
    <3>1. work' = [work EXCEPT !.frontiers = rows] /\ pc = "index"
      BY <2>2 DEF IndexFrontier
    <3>2. DOMAIN rows = DOMAIN work.frontiers \cup {g} /\ rows[g] = FrontierRow
      OBVIOUS
    <3> HIDE DEF rows
    <3>3. work'.paths = work.paths /\ work'.frontiers = rows /\ work'.records = work.records
      <4>1. DOMAIN work = TableNames
        BY EmptyTablesFields DEF TypeOK, TablesTypeOK
      <4> QED
        BY <3>1, <4>1 DEF TableNames
    <3>4. work.frontiers = db.frontiers
      BY <1>1, <3>1 DEF MarksInv
    <3>5. f = g /\ work'.frontiers[f] = FrontierRow
      BY <1>1, <1>6, <3>2, <3>3, <3>4
    <3>6. Right(work, FrontierRow, g)
      BY <1>1, <3>1, IndexRight
    <3>7. Right(work', FrontierRow, g)
      BY <3>3, <3>6, SameRight
    <3> QED
      BY <3>5, <3>7
  <2> QED
    BY <1>6, <2>1, <2>2 DEF Writes, RetainIntent, InsertWitness, InsertFact
<1> QED
  BY <1>1, <1>2, <1>3, <1>4, <1>5, <1>6 DEF FrontInv

\* COMMIT keeps what was right, and adds what is.
LEMMA CommitTxFront ==
    ASSUME TypeOK, PathInv, GrowthInv, GraphInv, ReceiptsInv, FrontInv, CommitTx
    PROVE  FrontInv'
<1>1. /\ pc = "commit" /\ ~ctxDone /\ db' = work /\ pc' \in {"publish", "reply"}
  BY DEF CommitTx
<1>2. NewAreMine
  BY <1>1 DEF FrontInv
<1>3. CommitsOf(work) \subseteq Nat
  BY <1>1 DEF PathInv, TablesInv, GapFree, TypeOK, TablesTypeOK
<1>4. ASSUME NEW f \in DOMAIN work.frontiers
      PROVE  Right(work, work.frontiers[f], f)
  <2>1. CASE f \in DOMAIN db.frontiers
    <3>1. work.frontiers[f] = db.frontiers[f]
      BY <2>1 DEF GrowthInv, Grown, Extends
    <3>2. Right(db, db.frontiers[f], f)
      BY <2>1 DEF FrontInv
    <3>3. Right(work, db.frontiers[f], f)
      BY <1>2, <1>3, <3>2, KeptRight
    <3> QED
      BY <3>1, <3>3
  <2>2. CASE f \notin DOMAIN db.frontiers
    BY <1>1, <2>2 DEF FrontInv
  <2> QED
    BY <2>1, <2>2
<1> QED
  BY <1>1, <1>4 DEF FrontInv

\* All others keep the view or drop it.
LEMMA OthersFront ==
    ASSUME TypeOK, PathInv, MarksInv, FrontInv, [Next]_vars, ~Writes, ~CommitTx
    PROVE  FrontInv'
<1>0. db' = db /\ \A f \in DOMAIN db'.frontiers : Right(db', db'.frontiers[f], f)
  BY OnlyCommitChanges DEF FrontInv
<1>1. CASE pc' \notin {"lookup", "stage", "witness", "fact", "index", "commit"}
  BY <1>0, <1>1 DEF FrontInv
<1>2. CASE Errors \/ Crash \/ PublishEvent \/ EndPublish \/ Return
           \/ (\E c \in AppendCalls \cup PublishCalls : RefuseCaller(c))
           \/ (\E c \in PublishCalls : BeginPublish(c))
  BY <1>1, <1>2, ErrorsFail DEF Fail, Crash, Forget, PublishEvent, EndPublish, Return,
                                RefuseCaller, BeginPublish
<1>3. CASE \E c \in AppendCalls : BeginAppend(c)
  <2>1. pc' = "lookup" /\ call'.op = "append"
    BY <1>3, AppendCallsAssumption DEF BeginAppend
  <2> QED
    BY <1>0, <2>1 DEF FrontInv
<1>4. CASE ResolveThrough
  <2> DEFINE n == LatestPlace(work, call.spec.through_fact_id, call.spec.target_trace_owner_id)
  <2>1. /\ pc = "through" /\ pc' = "lookup" /\ call' = call /\ work = db
        /\ batch' = FrontierBatch(call.spec, call.auth, n) /\ ThroughPlaces # {}
    BY <1>4 DEF ResolveThrough, PathInv, ViewInv
  <2>2. call \in PublishCalls /\ call.spec.target_trace_owner_id \in Paths
    BY <2>1, PublishCallsAssumption DEF MarksInv
  <2>3. TablesTypeOK(db) /\ Contiguous(db)
    BY DEF TypeOK, PathInv, TablesInv
  <2>4. \A k \in Places(db, call.spec.through_fact_id, call.spec.target_trace_owner_id) : k <= n
    BY <2>1, <2>2, <2>3, LatestPlaceHolds DEF ThroughPlaces
  <2> HIDE DEF n
  <2>5. \A e \in db.paths :
          (e.path_ref = call.spec.target_trace_owner_id /\ e.record_id = call.spec.through_fact_id)
            => e.path_ordinal <= n
    BY <2>4 DEF Places
  <2>6. PreparedLast'
    BY <1>0, <2>1, <2>5 DEF PreparedLast
  <2> QED
    BY <1>0, <2>1, <2>6 DEF FrontInv
<1>5. CASE AnswerRetry
  <2>1. /\ pc = "lookup" /\ work' = work /\ call' = call /\ batch' = batch /\ work = db
        /\ IntentKnown /\ SameBatch /\ pc' = IF call.op = "publish" THEN "index" ELSE "commit"
    BY <1>5 DEF AnswerRetry, PathInv, ViewInv
  <2>2. PreparedLast => PreparedLast'
    BY <1>0, <2>1 DEF PreparedLast
  <2>3. Fingerprinted'
    BY <2>1 DEF Fingerprinted, IntentKnown, SameBatch
  <2>4. NewAreMine'
    BY <1>0, <2>1 DEF NewAreMine, FactEntries
  <2>5. DOMAIN work'.frontiers \ DOMAIN db'.frontiers = {}
    BY <1>0, <2>1
  <2> QED
    BY <1>0, <2>1, <2>2, <2>3, <2>4, <2>5 DEF FrontInv
<1>6. CASE StartStaging \/ StageDraft \/ KeepWitness \/ EndWitnesses
  <2>1. /\ work' = work /\ call' = call /\ batch' = batch /\ ctxDone' = ctxDone
        /\ \/ pc = "lookup" /\ pc' = "stage"
           \/ pc = "stage" /\ pc' = "stage"
           \/ pc = "witness" /\ pc' \in {"witness", "fact"}
    BY <1>6 DEF StartStaging, StageDraft, KeepWitness, EndWitnesses
  <2>2. PreparedLast => PreparedLast'
    BY <1>0, <2>1 DEF PreparedLast
  <2>3. (Fingerprinted => Fingerprinted') /\ (NewAreMine => NewAreMine')
    BY <1>0, <2>1 DEF Fingerprinted, NewAreMine
  <2> QED
    BY <1>0, <2>1, <2>2, <2>3 DEF FrontInv
<1>7. CASE KeepFrontier
  <2>1. /\ work' = work /\ batch' = batch /\ pc = "index" /\ pc' = "commit" /\ ~ctxDone
    BY <1>7 DEF KeepFrontier, scratch
  <2>2. NewAreMine /\ NewAreMine'
    BY <1>0, <2>1 DEF FrontInv, NewAreMine
  <2>3. work.frontiers = db.frontiers
    BY <2>1 DEF MarksInv
  <2>4. DOMAIN work'.frontiers \ DOMAIN db'.frontiers = {}
    BY <1>0, <2>1, <2>3
  <2> QED
    BY <1>0, <2>1, <2>2, <2>4 DEF FrontInv
<1>8. CASE Cancel
  <2>1. call' = call /\ batch' = batch /\ ctxDone' /\ pc' = pc
    BY <1>8 DEF Cancel
  <2>2. PreparedLast => PreparedLast'
    BY <1>0, <2>1 DEF PreparedLast
  <2> QED
    BY <1>0, <2>1, <2>2 DEF FrontInv
<1>9. CASE UNCHANGED vars
  <2>1. /\ work' = work /\ call' = call /\ batch' = batch /\ ctxDone' = ctxDone /\ pc' = pc
    BY <1>9 DEF vars, scratch
  <2>2. (PreparedLast => PreparedLast') /\ (Fingerprinted => Fingerprinted') /\ (NewAreMine => NewAreMine')
    BY <1>0, <2>1 DEF PreparedLast, Fingerprinted, NewAreMine
  <2> QED
    BY <1>0, <2>1, <2>2 DEF FrontInv
<1> QED
  BY <1>2, <1>3, <1>4, <1>5, <1>6, <1>7, <1>8, <1>9 DEF Next, Begin, Step, Errors, Writes

\* At every statement the committed and the view's frontiers are right.
THEOREM FrontInvHolds == Spec => [](MarksInv /\ DurableInv /\ FrontInv)
<1>1. Init => MarksInv /\ DurableInv /\ FrontInv
  <2> SUFFICES ASSUME Init PROVE MarksInv /\ DurableInv /\ FrontInv
    OBVIOUS
  <2>1. EmptyTables.frontiers = << >> /\ NoReply.status # "ok"
    BY DEF EmptyTables, NoReply
  <2>2. db.frontiers = << >> /\ work.frontiers = << >> /\ DOMAIN << >> = {}
    BY <2>1 DEF Init
  <2> QED
    BY <2>1, <2>2 DEF Init, MarksInv, DurableInv, FrontInv, NoCall
<1>2. TypeOK /\ PathInv /\ GrowthInv /\ MarksInv /\ [Next]_vars => MarksInv'
  BY WritesMarks, OthersMarks DEF PathInv
<1>3. TypeOK /\ PathInv /\ ReceiptsInv /\ DurableInv /\ [Next]_vars => DurableInv'
  BY NextDurable DEF PathInv
<1>4. TypeOK /\ PathInv /\ GrowthInv /\ GraphInv /\ ReceiptsInv /\ DurableInv /\ MarksInv /\ ContentInv
      /\ FrontInv /\ [Next]_vars => FrontInv'
  BY WritesFront, CommitTxFront, OthersFront
<1> QED
  BY <1>1, <1>2, <1>3, <1>4, TypeCorrect, PathInvHolds, ViewHoldsCommitted, GraphInvHolds,
     ReceiptsInvHolds, ContentInvHolds, PTL DEF Spec

\* store_frontier.go:19: for any calls and retries, an indexed frontier is for
\* ever the one its retained fact describes, and its place was the through fact's last when
\* that fact was appended: whatever is appended there later has a greater commit number.
THEOREM FrontiersStayRight == Spec => []FrontiersHold
<1>1. FrontInv => FrontiersHold
  BY DEF FrontInv, Right, RowTold, LastWhenPublished, PublishedAt, FrontiersHold
<1> QED
  BY <1>1, FrontInvHolds, PTL

-----------------------------------------------------------------------------
(***************************************************************************)
(* The store as a log.  A batch is fingerprinted, prepared, numbered and   *)
(* inserted apart; the invariant carries, up to COMMIT, that the entry a   *)
(* receipt leads to for a draft lies on the path of the draft's group, in  *)
(* the order of the drafts, and that the witnesses beside it are records   *)
(* retained for the first time.                                            *)
(***************************************************************************)
\* On a path, a later prepared fact has a greater ordinal.
OrdinalsRise ==
    \A j, k \in DOMAIN facts :
      (j < k /\ facts[j].trace_owner_id = facts[k].trace_owner_id)
        => facts[j].owner_ordinal < facts[k].owner_ordinal

\* The path a fingerprint gives a draft, and the place its receipt leads to.
DuePath(t, i, k) ==
    t.intents[i].batch_digest.groups[t.intents[i].batch_digest.drafts[k].group].trace_owner_id

IsFactOf(t, i, k, e) ==
    /\ e \in Mine(t, i)
    /\ Commit(e) = t.intents[i].receipt.commits[k]
    /\ e.record_id = t.intents[i].receipt.fact_ids[k]
    /\ e.path_ref = DuePath(t, i, k)

Placed(t, i) ==
    LET drafts == DOMAIN t.intents[i].batch_digest.drafts
    IN  /\ \A k \in drafts : \E e : IsFactOf(t, i, k, e)
        /\ \A j, k \in drafts : \A e, f :
             (j < k /\ IsFactOf(t, i, j, e) /\ IsFactOf(t, i, k, f) /\ e.path_ref = f.path_ref)
               => e.path_ordinal < f.path_ordinal

NewPlaced == \A i \in DOMAIN work.intents \ DOMAIN db.intents : Placed(work, i)

\* A new witness is the only entry of its record beside the facts of the batch.
FirstRetained ==
    \A e \in (work.paths \ db.paths) \ FactEntries(work) :
      \A f \in db.paths \cup (work.paths \ FactEntries(work)) : f.record_id = e.record_id => f = e

PlacedInv ==
    /\ pc \in {"stage", "witness", "fact"} => OrdinalsRise
    /\ pc \in {"index", "commit"} => NewPlaced
    /\ FirstRetained

\* A prepared fact takes the ordinal behind those of its path.
LEMMA StageDraftPlaced ==
    ASSUME TypeOK, TypeOK', PathInv, PlacedInv, StageDraft
    PROVE  PlacedInv'
<1> DEFINE f == PreparedFact(at)
           p == GroupOf(batch, at).trace_owner_id
           n == Len(facts)
<1>1. /\ pc = "stage" /\ pc' = pc /\ facts' = Append(facts, f) /\ db' = db /\ work' = work
  BY DEF StageDraft
<1>2. f.trace_owner_id = p /\ f.owner_ordinal = staged[p]
  BY DEF PreparedFact
<1>3. /\ n \in Nat /\ DOMAIN facts = 1 .. n /\ DOMAIN facts' = 1 .. n + 1
      /\ \A i \in 1 .. n : facts'[i] = facts[i]
      /\ facts'[n + 1] = f
  BY <1>1, AppendOverRange DEF TypeOK
<1>4. p \in Paths
  BY DEF TypeOK, BatchTypeOK, StageDraft
<1>5. staged[p] \in Nat /\ PreparedOrdinals(facts, n, p) = db.next[p] .. staged[p] - 1
  BY <1>1, <1>4 DEF PathInv, PreparedInv, TypeOK
<1>6. ASSUME NEW j \in 1 .. n, facts[j].trace_owner_id = p
      PROVE  facts[j].owner_ordinal < staged[p]
  <2>1. facts[j].owner_ordinal \in PreparedOrdinals(facts, n, p)
    BY <1>6 DEF PreparedOrdinals
  <2> QED
    BY <1>4, <1>5, <2>1 DEF TypeOK, TablesTypeOK
<1>7. \A j, k \in 1 .. n : (j < k /\ facts[j].trace_owner_id = facts[k].trace_owner_id)
                             => facts[j].owner_ordinal < facts[k].owner_ordinal
  BY <1>1, <1>3 DEF PlacedInv, OrdinalsRise
<1> HIDE DEF f, p, n
<1>8. OrdinalsRise'
  <2> SUFFICES ASSUME NEW j \in 1 .. n + 1, NEW k \in 1 .. n + 1, j < k,
                      facts'[j].trace_owner_id = facts'[k].trace_owner_id
               PROVE  facts'[j].owner_ordinal < facts'[k].owner_ordinal
    BY <1>3 DEF OrdinalsRise
  <2>1. j \in 1 .. n /\ facts'[j] = facts[j]
    BY <1>3
  <2>2. CASE k \in 1 .. n
    BY <1>3, <1>7, <2>1, <2>2
  <2>3. CASE k = n + 1
    BY <1>2, <1>3, <1>6, <2>1, <2>3
  <2> QED
    BY <1>3, <2>2, <2>3
<1>9. FirstRetained'
  BY <1>1 DEF PlacedInv, FirstRetained, FactEntries
<1> QED
  BY <1>1, <1>8, <1>9 DEF PlacedInv

\* A witness is inserted if its record is not retained.
LEMMA InsertWitnessPlaced ==
    ASSUME TypeOK, GrowthInv, GraphInv, PlacedInv, InsertWitness
    PROVE  PlacedInv'
<1> DEFINE e == WitnessEntry(Plan(at))
<1>1. /\ pc = "witness" /\ pc' = pc /\ db' = db /\ facts' = facts
      /\ Plan(at).record_id \notin DOMAIN work.records
  BY DEF InsertWitness
<1>2. work'.paths = work.paths \cup {e}
  BY WritesTables
<1>3. e.commit_receipt[1] = "witness" /\ e.record_id = Plan(at).record_id
  <2>1. e.commit_receipt[1] = "witness"
    BY EntryFields DEF WitnessEntry
  <2>2. e.record_id = WitnessFact(Plan(at)).record_id
    BY LabelFields DEF WitnessEntry
  <2>3. WitnessFact(Plan(at)).record_id = Plan(at).record_id
    BY DEF WitnessFact
  <2> QED
    BY <2>1, <2>2, <2>3
<1>10. e.record_id \notin DOMAIN work.records
  BY <1>1, <1>3
<1> HIDE DEF e
<1>4. \A f \in work.paths : f.record_id # e.record_id
  BY <1>10 DEF GraphInv, GraphOK, Filed
<1>5. FactEntries(work') = FactEntries(work)
  BY <1>2, <1>3 DEF FactEntries
<1>6. db.paths \subseteq work.paths
  BY DEF GrowthInv, Grown
<1>7. ASSUME NEW x \in (work'.paths \ db.paths) \ FactEntries(work'),
             NEW f \in db.paths \cup (work'.paths \ FactEntries(work')),
             f.record_id = x.record_id
      PROVE  f = x
  <2>0. x \in work.paths \cup {e} /\ f \in work.paths \cup {e}
    BY <1>2, <1>6
  <2>1. CASE x \in work.paths /\ f \in db.paths \cup work.paths
    BY <1>5, <1>7, <2>1 DEF PlacedInv, FirstRetained
  <2>2. CASE x = e
    BY <1>4, <1>7, <2>0, <2>2
  <2>3. CASE f = e /\ x \in work.paths
    BY <1>4, <1>7, <2>3
  <2> QED
    BY <2>0, <2>1, <2>2, <2>3
<1>8. FirstRetained'
  BY <1>1, <1>7 DEF FirstRetained
<1> QED
  BY <1>1, <1>8 DEF PlacedInv, OrdinalsRise

\* A fact is no witness.
LEMMA InsertFactPlaced ==
    ASSUME TypeOK, PlacedInv, InsertFact
    PROVE  PlacedInv'
<1> DEFINE e == Entry(facts[at], <<"commit", facts[at].commit>>)
<1>1. pc = "fact" /\ pc' = pc /\ db' = db /\ facts' = facts
  BY DEF InsertFact
<1>2. work'.paths = work.paths \cup {e}
  BY WritesTables
<1>3. e.commit_receipt[1] = "commit"
  BY EntryFields
<1> HIDE DEF e
<1>4. FactEntries(work') = FactEntries(work) \cup {e}
  BY <1>2, <1>3 DEF FactEntries
<1>5. work'.paths \ FactEntries(work') \subseteq work.paths \ FactEntries(work)
  BY <1>2, <1>4
<1>6. FirstRetained'
  BY <1>1, <1>5 DEF PlacedInv, FirstRetained
<1> QED
  BY <1>1, <1>6 DEF PlacedInv, OrdinalsRise

\* Only paths matter to the witnesses, and intents and paths to the places.
LEMMA SamePlaced ==
    ASSUME db' = db, work'.paths = work.paths
    PROVE  /\ FirstRetained => FirstRetained'
           /\ work'.intents = work.intents /\ NewPlaced => NewPlaced'
<1>1. FactEntries(work') = FactEntries(work)
  BY DEF FactEntries
<1>2. FirstRetained => FirstRetained'
  BY <1>1 DEF FirstRetained
<1>3. ASSUME work'.intents = work.intents, NewPlaced
      PROVE  NewPlaced'
  <2>1. \A i, k, e : IsFactOf(work', i, k, e) <=> IsFactOf(work, i, k, e)
    BY <1>1, <1>3 DEF IsFactOf, DuePath, Mine
  <2>2. \A i : Placed(work, i) => Placed(work', i)
    BY <1>3, <2>1 DEF Placed
  <2> QED
    BY <1>3, <2>2 DEF NewPlaced
<1> QED
  BY <1>2, <1>3

\* What an entry of the inserted intent says is what the prepared fact of its number says.
LEMMA EntryAsPrepared ==
    ASSUME NumberedInv, Inserting, pc = "fact", db.commitSeq \in Nat, at \in Nat,
           DOMAIN facts = 1 .. at - 1, NEW k \in DOMAIN facts
    PROVE  LET S == Mine(work, batch.append_intent_id)
           IN  /\ \A e \in S : Commit(e) = facts[k].commit =>
                     /\ e.record_id = facts[k].record_id
                     /\ e.path_ref = facts[k].trace_owner_id
                     /\ e.path_ordinal = facts[k].owner_ordinal
               /\ \E e \in S : /\ Commit(e) = facts[k].commit
                                /\ e.record_id = facts[k].record_id
                                /\ e.path_ref = facts[k].trace_owner_id
<1> DEFINE S == Mine(work, batch.append_intent_id)
           n == at - 1
<1>1. EntryPlaces(S) = PreparedPlaces(facts, n)
  BY DEF Inserting
<1>2. DOMAIN facts = 1 .. n /\ n \in Int
  OBVIOUS
<1> HIDE DEF S, n
<1>3. \A j \in 1 .. n : facts[j].commit = facts[k].commit => j = k
  BY <1>2 DEF NumberedInv
<1>4. ASSUME NEW e \in S, Commit(e) = facts[k].commit
      PROVE  /\ e.record_id = facts[k].record_id
             /\ e.path_ref = facts[k].trace_owner_id
             /\ e.path_ordinal = facts[k].owner_ordinal
  <2>1. <<Commit(e), e.record_id, e.path_ref, e.path_ordinal>> \in PreparedPlaces(facts, n)
    BY <1>1 DEF EntryPlaces
  <2>2. PICK j \in 1 .. n : <<Commit(e), e.record_id, e.path_ref, e.path_ordinal>>
                             = <<facts[j].commit, facts[j].record_id, facts[j].trace_owner_id,
                                 facts[j].owner_ordinal>>
    BY <2>1 DEF PreparedPlaces
  <2>3. j = k
    BY <1>3, <1>4, <2>2
  <2> QED
    BY <2>2, <2>3
<1>5. \E e \in S : /\ Commit(e) = facts[k].commit
                   /\ e.record_id = facts[k].record_id
                   /\ e.path_ref = facts[k].trace_owner_id
  <2>1. <<facts[k].commit, facts[k].record_id, facts[k].trace_owner_id, facts[k].owner_ordinal>>
          \in EntryPlaces(S)
    BY <1>1, <1>2 DEF PreparedPlaces
  <2>2. PICK e \in S : <<facts[k].commit, facts[k].record_id, facts[k].trace_owner_id,
                          facts[k].owner_ordinal>>
                       = <<Commit(e), e.record_id, e.path_ref, e.path_ordinal>>
    BY <2>1 DEF EntryPlaces
  <2> QED
    BY <2>2
<1> QED
  BY <1>4, <1>5 DEF S

\* When all facts are in, the entries are where the fingerprint says.
LEMMA AdvanceCountersPlaced ==
    ASSUME TypeOK, PathInv, GraphInv, ReceiptsInv, AgreeInv, ContentInv, FrontInv, PlacedInv,
           AdvanceCounters
    PROVE  PlacedInv'
<1> DEFINE i == batch.append_intent_id
<1>1. /\ db' = db /\ pc = "fact" /\ pc' \in {"index", "commit"} /\ ~ctxDone /\ at \notin DOMAIN facts
  BY DEF AdvanceCounters
<1>2. work'.paths = work.paths /\ work'.intents = work.intents
  BY WritesTables
<1>3. Inserting /\ Fingerprinted /\ SoundBatch(batch) /\ DigestsTell(work) /\ NumberedInv /\ OrdinalsRise
  BY <1>1 DEF ReceiptsInv, FrontInv, ContentInv, GraphInv, PlacedInv
<1>4. DOMAIN facts = 1 .. at - 1 /\ db.commitSeq \in Nat /\ at \in Nat
  BY <1>1, DraftsFromOne DEF PathInv, InsertedInv, TypeOK, TablesTypeOK
<1> DEFINE d == work.intents[i].batch_digest
           r == work.intents[i].receipt
<1>5. /\ DOMAIN work.intents \ DOMAIN db.intents \subseteq {i} /\ i \in DOMAIN work.intents
      /\ r.fact_ids = [k \in DOMAIN facts |-> facts[k].record_id]
      /\ r.commits = [k \in DOMAIN facts |-> facts[k].commit]
  BY <1>3 DEF Inserting
<1>6. DOMAIN r.fact_ids = DOMAIN d.drafts
  BY <1>3, <1>5 DEF DigestsTell
<1>7. d = batchDigest(batch, call.auth)
  BY <1>3 DEF Fingerprinted
<1> HIDE DEF d, r
<1>8. /\ DOMAIN d.drafts = DOMAIN facts /\ DOMAIN d.drafts = DOMAIN batch.drafts
  BY <1>3, <1>5, <1>6, <1>7, FingerprintFields
<1>9. ASSUME NEW k \in DOMAIN facts
      PROVE  /\ DuePath(work, i, k) = facts[k].trace_owner_id
             /\ r.commits[k] = facts[k].commit /\ r.fact_ids[k] = facts[k].record_id
  <2>1. d.groups[d.drafts[k].group].trace_owner_id = GroupOf(batch, k).trace_owner_id
    BY <1>3, <1>7, <1>8, FingerprintFields
  <2>2. facts[k].trace_owner_id = GroupOf(batch, k).trace_owner_id
    BY <1>1 DEF AgreeInv, PreparedAs
  <2>3. DuePath(work, i, k) = d.groups[d.drafts[k].group].trace_owner_id
    BY DEF DuePath, d
  <2> QED
    BY <1>5, <2>1, <2>2, <2>3
<1> HIDE DEF i
<1>10. ASSUME NEW k \in DOMAIN facts
       PROVE  \E e : IsFactOf(work, i, k, e)
  <2>1. PICK e \in Mine(work, i) : /\ Commit(e) = facts[k].commit
                                   /\ e.record_id = facts[k].record_id
                                   /\ e.path_ref = facts[k].trace_owner_id
    BY <1>1, <1>3, <1>4, EntryAsPrepared DEF i
  <2>2. IsFactOf(work, i, k, e)
    BY <1>9, <2>1 DEF IsFactOf, r
  <2> QED
    BY <2>2
<1>11. ASSUME NEW k \in DOMAIN facts, NEW e, IsFactOf(work, i, k, e)
       PROVE  e.path_ref = facts[k].trace_owner_id /\ e.path_ordinal = facts[k].owner_ordinal
  <2>1. e \in Mine(work, i) /\ Commit(e) = facts[k].commit
    BY <1>9, <1>11 DEF IsFactOf, r
  <2> QED
    BY <1>1, <1>3, <1>4, <2>1, EntryAsPrepared DEF i
<1>12. ASSUME NEW j \in DOMAIN facts, NEW k \in DOMAIN facts, NEW e, NEW f,
              j < k, IsFactOf(work, i, j, e), IsFactOf(work, i, k, f), e.path_ref = f.path_ref
       PROVE  e.path_ordinal < f.path_ordinal
  <2>1. e.path_ref = facts[j].trace_owner_id /\ e.path_ordinal = facts[j].owner_ordinal
    BY <1>11, <1>12
  <2>2. f.path_ref = facts[k].trace_owner_id /\ f.path_ordinal = facts[k].owner_ordinal
    BY <1>11, <1>12
  <2> QED
    BY <1>3, <1>12, <2>1, <2>2 DEF OrdinalsRise
<1>13. Placed(work, i)
  BY <1>8, <1>10, <1>12 DEF Placed, d
<1>14. NewPlaced
  BY <1>5, <1>13 DEF NewPlaced
<1> QED
  BY <1>1, <1>2, <1>14, SamePlaced DEF PlacedInv

\* The other steps keep the view, drop it, begin it or commit it.
LEMMA OthersPlaced ==
    ASSUME TypeOK, PathInv, PlacedInv, [Next]_vars,
           ~StageDraft, ~InsertWitness, ~InsertFact, ~AdvanceCounters
    PROVE  PlacedInv'
<1>1. CASE work' = db'
  <2>1. pc' \notin {"stage", "witness", "fact"} \/ OrdinalsRise'
    <3>1. CASE pc' \notin {"stage", "witness", "fact"}
      BY <3>1
    <3>2. CASE pc' \in {"stage", "witness", "fact"} /\ facts' = facts /\ pc \in {"stage", "witness", "fact"}
      BY <3>2 DEF PlacedInv, OrdinalsRise
    <3>3. CASE facts' = << >>
      BY <3>3 DEF OrdinalsRise
    <3>4. CASE RetainIntent \/ KeepWitness \/ EndWitnesses \/ Cancel \/ UNCHANGED vars
      <4>1. facts' = facts /\ (pc' \in {"stage", "witness", "fact"} => pc \in {"stage", "witness", "fact"})
        BY <3>4 DEF RetainIntent, KeepWitness, EndWitnesses, Cancel, vars, scratch
      <4> QED
        BY <3>1, <3>2, <4>1
    <3>5. CASE StartStaging
      <4>1. facts' = << >>
        BY <3>5 DEF StartStaging, PathInv, PreparedInv
      <4> QED
        BY <3>3, <4>1
    <3>6. CASE Errors
      BY <3>1, <3>6, ErrorsFail DEF Fail
    <3>7. CASE Begin \/ ResolveThrough \/ AnswerRetry \/ IndexFrontier \/ KeepFrontier \/ CommitTx
               \/ PublishEvent \/ EndPublish \/ Return \/ Crash
      <4>1. pc' \notin {"stage", "witness", "fact"}
        BY <3>7 DEF Begin, BeginAppend, BeginPublish, RefuseCaller, ResolveThrough, AnswerRetry,
                    IndexFrontier, KeepFrontier, CommitTx, PublishEvent, EndPublish, Return, Crash, Forget
      <4> QED
        BY <3>1, <4>1
    <3> QED
      BY <3>4, <3>5, <3>6, <3>7 DEF Next, Step, Errors
  <2>2. NewPlaced' /\ FirstRetained'
    BY <1>1 DEF NewPlaced, FirstRetained
  <2> QED
    BY <2>1, <2>2 DEF PlacedInv
<1>2. CASE Errors \/ Crash \/ Cancel \/ CommitTx
  <2>1. work' = db'
    BY <1>2, ErrorsFail DEF Fail, Crash, Cancel, CommitTx
  <2> QED
    BY <1>1, <2>1
<1>3. CASE Begin \/ ResolveThrough \/ AnswerRetry \/ StartStaging \/ PublishEvent \/ EndPublish \/ Return
  <2>1. work = db /\ work' = work /\ db' = db
    BY <1>3 DEF Begin, BeginAppend, BeginPublish, RefuseCaller, ResolveThrough, AnswerRetry, StartStaging,
                PublishEvent, EndPublish, Return, PathInv, ViewInv
  <2> QED
    BY <1>1, <2>1
<1>4. CASE RetainIntent
  <2>1. /\ db' = db /\ facts' = facts /\ pc = "stage" /\ pc' = "witness"
    BY <1>4 DEF RetainIntent
  <2>2. work'.paths = work.paths
    BY <1>4, WritesTables
  <2> QED
    BY <2>1, <2>2, SamePlaced DEF PlacedInv, OrdinalsRise
<1>5. CASE KeepWitness \/ EndWitnesses \/ UNCHANGED vars
  <2>1. /\ db' = db /\ work' = work /\ facts' = facts
        /\ pc' = pc \/ (pc = "witness" /\ pc' = "fact")
    BY <1>5 DEF KeepWitness, EndWitnesses, vars, scratch
  <2> QED
    BY <2>1, SamePlaced DEF PlacedInv, OrdinalsRise
<1>6. CASE IndexFrontier \/ KeepFrontier
  <2>1. db' = db /\ pc = "index" /\ pc' = "commit"
    BY <1>6 DEF IndexFrontier, KeepFrontier
  <2>2. work'.paths = work.paths /\ work'.intents = work.intents
    BY <1>6, WritesTables DEF KeepFrontier
  <2> QED
    BY <2>1, <2>2, SamePlaced DEF PlacedInv
<1> QED
  BY <1>2, <1>3, <1>4, <1>5, <1>6 DEF Next, Step, Errors

-----------------------------------------------------------------------------
\* The facts of an intent by any tables.
FactsIn(t, i) ==
    LET digest == t.intents[i].batch_digest
        r      == t.intents[i].receipt
    IN  [k \in DOMAIN digest.drafts |->
           [path  |-> digest.groups[digest.drafts[k].group].trace_owner_id,
            place |-> (CHOOSE e \in FactEntries(t) : Commit(e) = r.commits[k]).path_ordinal + 1,
            id    |-> r.fact_ids[k]]]

\* A number leads to one entry.
LEMMA NumberLeadsToEntry ==
    ASSUME NEW t, TablesTypeOK(t), KeysUnique(t), NEW c, NEW e \in FactEntries(t), Commit(e) = c
    PROVE  (CHOOSE x \in FactEntries(t) : Commit(x) = c) = e
<1> DEFINE x == CHOOSE y \in FactEntries(t) : Commit(y) = c
<1>1. x \in FactEntries(t) /\ Commit(x) = c
  OBVIOUS
<1> HIDE DEF x
<1>2. x \in t.paths /\ e \in t.paths
  BY <1>1 DEF FactEntries
<1>3. x.commit_receipt = e.commit_receipt
  <2>1. EntryTypeOK(x) /\ EntryTypeOK(e)
    BY <1>2 DEF TablesTypeOK
  <2>2. /\ x.commit_receipt[1] = "commit" /\ e.commit_receipt[1] = "commit"
        /\ x.commit_receipt[2] = e.commit_receipt[2]
    BY <1>1 DEF FactEntries, Commit
  <2>3. /\ x.commit_receipt = <<x.commit_receipt[1], x.commit_receipt[2]>>
        /\ e.commit_receipt = <<e.commit_receipt[1], e.commit_receipt[2]>>
    BY <2>1 DEF EntryTypeOK
  <2> QED
    BY <2>2, <2>3, Zenon
<1>4. x = e
  BY <1>2, <1>3 DEF KeysUnique
<1> QED
  BY <1>4 DEF x

\* A draft's fact is what its entry says.
LEMMA FactOfDraft ==
    ASSUME NEW t, TablesTypeOK(t), KeysUnique(t), NEW i,
           NEW k \in DOMAIN t.intents[i].batch_digest.drafts, NEW e, IsFactOf(t, i, k, e)
    PROVE  FactsIn(t, i)[k] = [path |-> e.path_ref, place |-> e.path_ordinal + 1, id |-> e.record_id]
<1> DEFINE c == t.intents[i].receipt.commits[k]
           x == CHOOSE y \in FactEntries(t) : Commit(y) = c
<1>1. e \in FactEntries(t) /\ Commit(e) = c
  BY DEF IsFactOf, Mine
<1>2. x = e
  BY <1>1, NumberLeadsToEntry
<1>3. FactsIn(t, i)[k] = [path |-> DuePath(t, i, k), place |-> x.path_ordinal + 1,
                          id |-> t.intents[i].receipt.fact_ids[k]]
  BY DEF FactsIn, DuePath
<1> HIDE DEF x, c
<1> QED
  BY <1>2, <1>3 DEF IsFactOf

\* Every fact entry of an intent is one of its facts.
LEMMA DraftOfEntry ==
    ASSUME NEW t, TablesTypeOK(t), KeysUnique(t), DigestsTell(t), NEW i \in DOMAIN t.intents,
           Accounts(t, i), Placed(t, i), NEW e \in Mine(t, i)
    PROVE  \E k \in DOMAIN FactsIn(t, i) :
             FactsIn(t, i)[k].path = e.path_ref /\ FactsIn(t, i)[k].place = e.path_ordinal + 1
<1> DEFINE r == t.intents[i].receipt
           drafts == DOMAIN t.intents[i].batch_digest.drafts
<1>1. {<<Commit(f), f.record_id>> : f \in Mine(t, i)}
        = {<<r.commits[k], r.fact_ids[k]>> : k \in DOMAIN r.fact_ids}
  BY DEF Accounts
<1>2. DOMAIN r.fact_ids = drafts /\ DOMAIN FactsIn(t, i) = drafts
  BY DEF DigestsTell, FactsIn
<1> HIDE DEF r, drafts
<1>3. <<Commit(e), e.record_id>> \in {<<r.commits[k], r.fact_ids[k]>> : k \in DOMAIN r.fact_ids}
  BY <1>1
<1>4. PICK k \in drafts : <<Commit(e), e.record_id>> = <<r.commits[k], r.fact_ids[k]>>
  BY <1>2, <1>3
<1>5. PICK f : IsFactOf(t, i, k, f)
  BY <1>4 DEF Placed, drafts
<1>6. f \in FactEntries(t) /\ e \in FactEntries(t) /\ Commit(f) = Commit(e)
  BY <1>4, <1>5 DEF IsFactOf, Mine, r
<1>7. f = e
  BY <1>6, NumberLeadsToEntry
<1>8. FactsIn(t, i)[k] = [path |-> f.path_ref, place |-> f.path_ordinal + 1, id |-> f.record_id]
  BY <1>4, <1>5, FactOfDraft DEF drafts
<1> QED
  BY <1>2, <1>4, <1>7, <1>8

\* The facts of a committed intent stay what they are.
LEMMA FactsStay ==
    ASSUME NEW t, NEW u, TablesTypeOK(t), KeysUnique(t), TablesTypeOK(u), KeysUnique(u),
           t.paths \subseteq u.paths, DigestsTell(t), NEW i \in DOMAIN t.intents, Accounts(t, i),
           u.intents[i] = t.intents[i]
    PROVE  FactsIn(u, i) = FactsIn(t, i)
<1> DEFINE d == t.intents[i].batch_digest
           r == t.intents[i].receipt
<1>1. {<<Commit(f), f.record_id>> : f \in Mine(t, i)}
        = {<<r.commits[k], r.fact_ids[k]>> : k \in DOMAIN r.fact_ids}
  BY DEF Accounts
<1>2. DOMAIN r.fact_ids = DOMAIN d.drafts
  BY DEF DigestsTell
<1>3. ASSUME NEW k \in DOMAIN d.drafts
      PROVE  (CHOOSE e \in FactEntries(u) : Commit(e) = r.commits[k])
               = (CHOOSE e \in FactEntries(t) : Commit(e) = r.commits[k])
  <2> HIDE DEF r, d
  <2>1. <<r.commits[k], r.fact_ids[k]>> \in {<<Commit(f), f.record_id>> : f \in Mine(t, i)}
    BY <1>1, <1>2
  <2>2. PICK f \in Mine(t, i) : <<r.commits[k], r.fact_ids[k]>> = <<Commit(f), f.record_id>>
    BY <2>1
  <2>3. f \in FactEntries(t) /\ f \in FactEntries(u) /\ Commit(f) = r.commits[k]
    BY <2>2 DEF Mine, FactEntries
  <2>4. (CHOOSE e \in FactEntries(u) : Commit(e) = r.commits[k]) = f
    BY <2>3, NumberLeadsToEntry
  <2>5. (CHOOSE e \in FactEntries(t) : Commit(e) = r.commits[k]) = f
    BY <2>3, NumberLeadsToEntry
  <2> QED
    BY <2>4, <2>5
<1> DEFINE due(k) == d.groups[d.drafts[k].group].trace_owner_id
           later(k) == CHOOSE e \in FactEntries(u) : Commit(e) = r.commits[k]
           sooner(k) == CHOOSE e \in FactEntries(t) : Commit(e) = r.commits[k]
<1>4. FactsIn(u, i) = [k \in DOMAIN d.drafts |->
                         [path |-> due(k), place |-> later(k).path_ordinal + 1, id |-> r.fact_ids[k]]]
  BY DEF FactsIn
<1>5. FactsIn(t, i) = [k \in DOMAIN d.drafts |->
                         [path |-> due(k), place |-> sooner(k).path_ordinal + 1, id |-> r.fact_ids[k]]]
  BY DEF FactsIn
<1>6. \A k \in DOMAIN d.drafts : later(k) = sooner(k)
  BY <1>3
<1> HIDE DEF later, sooner, due, d, r
<1> QED
  BY <1>4, <1>5, <1>6

\* An entry that is added stands at a new place, and at every new place one stands.
LEMMA NewPlaceOfEntry ==
    ASSUME NEW t, NEW u, Readable(t), Readable(u), t.paths \subseteq u.paths, NEW p \in Paths,
           NEW e \in Entries(u, p) \ t.paths
    PROVE  e.path_ordinal + 1 \in t.next[p] + 1 .. u.next[p]
<1>1. t.next[p] \in Nat /\ u.next[p] \in Nat
  BY LogLength
<1>2. e.path_ordinal \in Nat /\ e.path_ordinal + 1 \in 1 .. u.next[p]
  BY EntryInLog
<1>3. SUFFICES ASSUME e.path_ordinal + 1 \in 1 .. t.next[p] PROVE FALSE
  BY <1>1, <1>2
<1> DEFINE n == e.path_ordinal + 1
<1>8. n \in 1 .. t.next[p] /\ n - 1 = e.path_ordinal
  BY <1>2, <1>3
<1> HIDE DEF n
<1>4. PICK d \in Entries(t, p) : d.path_ordinal = n - 1
  BY <1>8, PlaceHasEntry
<1>5. d.path_ordinal = e.path_ordinal
  BY <1>8, <1>4
<1>6. d \in t.paths /\ d \in u.paths /\ e \in u.paths /\ d.path_ref = e.path_ref
  BY DEF Entries
<1>7. d = e
  BY <1>5, <1>6 DEF Readable, KeysUnique
<1> QED
  BY <1>6, <1>7

LEMMA EntryOfNewPlace ==
    ASSUME NEW t, NEW u, Readable(t), Readable(u), NEW p \in Paths,
           NEW n \in t.next[p] + 1 .. u.next[p]
    PROVE  \E e \in Entries(u, p) \ t.paths :
             n = e.path_ordinal + 1 /\ LogIn(u, p)[n] = e.record_id
<1>1. t.next[p] \in Nat /\ u.next[p] \in Nat
  BY LogLength
<1>2. n \in 1 .. u.next[p]
  BY <1>1
<1>3. PICK e \in Entries(u, p) : e.path_ordinal = n - 1
  BY <1>2, PlaceHasEntry
<1>4. n = e.path_ordinal + 1
  BY <1>1, <1>3
<1>5. LogIn(u, p)[n] = e.record_id
  BY <1>4, EntryInLog
<1>6. ASSUME e \in t.paths PROVE FALSE
  <2>1. e \in Entries(t, p)
    BY <1>6 DEF Entries
  <2>2. e.path_ordinal + 1 \in 1 .. t.next[p]
    BY <2>1, EntryInLog
  <2> QED
    BY <1>1, <1>4, <2>2
<1> QED
  BY <1>4, <1>5, <1>6

\* The facts of a batch enter the logs in order, and only witnesses stand beside them.
LEMMA BatchEnters ==
    ASSUME Readable(db), Readable(work), db.paths \subseteq work.paths, OneMoreBatch, NewAreMine,
           DigestsTell(work), AllAccounted(work), NewPlaced, FirstRetained, IntentsKnown(db)
    PROVE  LET b == FactsIn(work, batch.append_intent_id)
               New(p) == db.next[p] + 1 .. work.next[p]
               Free(p) == {n \in New(p) : \A k \in DOMAIN b : b[k].path = p => b[k].place # n}
           IN  /\ \A k \in DOMAIN b :
                    /\ b[k].path \in Paths
                    /\ b[k].place \in New(b[k].path)
                    /\ LogIn(work, b[k].path)[b[k].place] = b[k].id
                    /\ \A j \in DOMAIN b : (j < k /\ b[j].path = b[k].path) => b[j].place < b[k].place
               /\ \A p \in Paths \ {W} : Free(p) = {}
               /\ \A n \in Free(W) :
                    /\ \A p \in Paths : \A m \in 1 .. db.next[p] : LogIn(db, p)[m] # LogIn(work, W)[n]
                    /\ \A m \in Free(W) : LogIn(work, W)[m] = LogIn(work, W)[n] => m = n
<1> DEFINE i == batch.append_intent_id
           b == FactsIn(work, i)
           New(p) == db.next[p] + 1 .. work.next[p]
           Free(p) == {n \in New(p) : \A k \in DOMAIN b : b[k].path = p => b[k].place # n}
<1>1. /\ i \notin DOMAIN db.intents /\ i \in DOMAIN work.intents
      /\ \A e \in work.paths \ db.paths : e.path_ref = W \/ e \in Mine(work, i)
  BY DEF OneMoreBatch
<1>2. /\ TablesTypeOK(work) /\ KeysUnique(work) /\ TablesTypeOK(db) /\ KeysUnique(db)
  BY DEF Readable
<1>3. Placed(work, i) /\ Accounts(work, i)
  BY <1>1 DEF NewPlaced, AllAccounted
<1>4. DOMAIN b = DOMAIN work.intents[i].batch_digest.drafts
  BY DEF FactsIn
<1>5. ASSUME NEW e \in Mine(work, i)
      PROVE  /\ e \in work.paths /\ e \notin db.paths /\ e.path_ref \in Paths /\ e.path_ordinal \in Nat
             /\ e \in Entries(work, e.path_ref)
  <2>1. e \in FactEntries(work) /\ e \in work.paths /\ e.append_intent_id = i
    BY DEF Mine, FactEntries
  <2>2. e \notin db.paths
    BY <1>1, <2>1 DEF IntentsKnown, FactEntries
  <2>3. EntryTypeOK(e)
    BY <1>2, <2>1 DEF TablesTypeOK
  <2> QED
    BY <2>1, <2>2, <2>3 DEF EntryTypeOK, Entries
<1> HIDE DEF i, b
<1>6. ASSUME NEW k \in DOMAIN b
      PROVE  \E e \in Mine(work, i) :
               /\ IsFactOf(work, i, k, e)
               /\ b[k].path = e.path_ref /\ b[k].place = e.path_ordinal + 1 /\ b[k].id = e.record_id
  <2>1. PICK e : IsFactOf(work, i, k, e)
    BY <1>3, <1>4 DEF Placed
  <2>2. b[k] = [path |-> e.path_ref, place |-> e.path_ordinal + 1, id |-> e.record_id]
    BY <1>2, <1>4, <2>1, FactOfDraft DEF b
  <2>3. e \in Mine(work, i)
    BY <2>1 DEF IsFactOf
  <2> QED
    BY <2>1, <2>2, <2>3
<1>7. ASSUME NEW k \in DOMAIN b
      PROVE  /\ b[k].path \in Paths
             /\ b[k].place \in New(b[k].path)
             /\ LogIn(work, b[k].path)[b[k].place] = b[k].id
  <2>1. PICK e \in Mine(work, i) :
          b[k].path = e.path_ref /\ b[k].place = e.path_ordinal + 1 /\ b[k].id = e.record_id
    BY <1>6
  <2>2. e.path_ref \in Paths /\ e \in Entries(work, e.path_ref) \ db.paths
    BY <1>5
  <2>3. e.path_ordinal + 1 \in New(e.path_ref)
    BY <2>2, NewPlaceOfEntry
  <2>4. LogIn(work, e.path_ref)[e.path_ordinal + 1] = e.record_id
    BY <2>2, EntryInLog
  <2> QED
    BY <2>1, <2>2, <2>3, <2>4
<1>8. ASSUME NEW j \in DOMAIN b, NEW k \in DOMAIN b, j < k, b[j].path = b[k].path
      PROVE  b[j].place < b[k].place
  <2>1. PICK e \in Mine(work, i) :
          /\ IsFactOf(work, i, j, e)
          /\ b[j].path = e.path_ref /\ b[j].place = e.path_ordinal + 1
    BY <1>6
  <2>2. PICK f \in Mine(work, i) :
          /\ IsFactOf(work, i, k, f)
          /\ b[k].path = f.path_ref /\ b[k].place = f.path_ordinal + 1
    BY <1>6
  <2>3. e.path_ordinal < f.path_ordinal
    BY <1>3, <1>4, <1>8, <2>1, <2>2 DEF Placed
  <2>4. e.path_ordinal \in Nat /\ f.path_ordinal \in Nat
    BY <1>5
  <2> QED
    BY <2>1, <2>2, <2>3, <2>4
<1>9. ASSUME NEW p \in Paths, NEW n \in Free(p)
      PROVE  \E e \in work.paths \ db.paths :
               /\ e.path_ref = p /\ n = e.path_ordinal + 1 /\ LogIn(work, p)[n] = e.record_id
               /\ e \notin Mine(work, i)
  <2>1. PICK e \in Entries(work, p) \ db.paths :
          n = e.path_ordinal + 1 /\ LogIn(work, p)[n] = e.record_id
    BY EntryOfNewPlace
  <2>2. e \in work.paths \ db.paths /\ e.path_ref = p
    BY DEF Entries
  <2>3. ASSUME e \in Mine(work, i) PROVE FALSE
    <3>1. PICK k \in DOMAIN b : b[k].path = e.path_ref /\ b[k].place = e.path_ordinal + 1
      BY <1>1, <1>2, <1>3, <2>3, DraftOfEntry DEF b
    <3> QED
      BY <2>1, <2>2, <3>1
  <2> QED
    BY <2>1, <2>2, <2>3
<1>10. ASSUME NEW p \in Paths \ {W}, NEW n \in Free(p) PROVE FALSE
  <2>1. PICK e \in work.paths \ db.paths : e.path_ref = p /\ e \notin Mine(work, i)
    BY <1>9
  <2> QED
    BY <1>1, <2>1
<1>11. W \in Paths
  BY DEF W, Paths
<1>12. ASSUME NEW e \in work.paths \ db.paths, e \notin Mine(work, i)
       PROVE  e \notin FactEntries(work)
  BY <1>12 DEF NewAreMine, Mine, i
<1>13. ASSUME NEW n \in Free(W), NEW p \in Paths, NEW m \in 1 .. db.next[p]
       PROVE  LogIn(db, p)[m] # LogIn(work, W)[n]
  <2>1. PICK e \in work.paths \ db.paths :
          LogIn(work, W)[n] = e.record_id /\ e \notin Mine(work, i)
    BY <1>9, <1>11
  <2>2. PICK d \in Entries(db, p) : d.path_ordinal = m - 1
    BY PlaceHasEntry
  <2>3. d.path_ordinal + 1 = m
    BY <2>2
  <2>4. LogIn(db, p)[m] = d.record_id /\ d \in db.paths
    BY <2>3, EntryInLog DEF Entries
  <2>5. d.record_id # e.record_id
    BY <1>12, <2>1, <2>4 DEF FirstRetained
  <2> QED
    BY <2>1, <2>4, <2>5
<1>14. ASSUME NEW n \in Free(W), NEW m \in Free(W), LogIn(work, W)[m] = LogIn(work, W)[n]
       PROVE  m = n
  <2>1. PICK e \in work.paths \ db.paths :
          n = e.path_ordinal + 1 /\ LogIn(work, W)[n] = e.record_id /\ e \notin Mine(work, i)
    BY <1>9, <1>11
  <2>2. PICK d \in work.paths \ db.paths :
          m = d.path_ordinal + 1 /\ LogIn(work, W)[m] = d.record_id /\ d \notin Mine(work, i)
    BY <1>9, <1>11
  <2>3. d = e
    BY <1>12, <1>14, <2>1, <2>2 DEF FirstRetained
  <2> QED
    BY <2>1, <2>2, <2>3
<1>15. \A p \in Paths \ {W} : Free(p) = {}
  BY <1>10
<1> HIDE DEF Free, New
<1>16. /\ \A k \in DOMAIN b :
            /\ b[k].path \in Paths
            /\ b[k].place \in New(b[k].path)
            /\ LogIn(work, b[k].path)[b[k].place] = b[k].id
            /\ \A j \in DOMAIN b : (j < k /\ b[j].path = b[k].path) => b[j].place < b[k].place
       /\ \A n \in Free(W) :
            /\ \A p \in Paths : \A m \in 1 .. db.next[p] : LogIn(db, p)[m] # LogIn(work, W)[n]
            /\ \A m \in Free(W) : LogIn(work, W)[m] = LogIn(work, W)[n] => m = n
  BY <1>7, <1>8, <1>13, <1>14
<1> QED
  BY <1>15, <1>16 DEF i, b, New, Free

\* COMMIT adds a batch to the logs, or nothing.
LEMMA CommitLogs ==
    ASSUME TypeOK, TypeOK', PathInv, PathInv', GrowthInv, ReceiptsInv, ContentInv, LogsInv, FrontInv,
           PlacedInv, CommitTx
    PROVE  TraceLog!Commit \/ TraceLog!Keep
<1>1. db' = work /\ pc = "commit" /\ ~ctxDone
  BY DEF CommitTx
<1>2. Readable(db) /\ Readable(work)
  BY <1>1 DEF PathInv, TablesInv, Readable, TypeOK
<1>3. db.paths \subseteq work.paths /\ Extends(db.intents, work.intents)
  BY DEF GrowthInv, Grown
<1>4. \A p \in Paths : db.next[p] <= work.next[p]
  <2>1. Contiguous(db') /\ Contiguous(db)
    BY <1>1 DEF PathInv, TablesInv
  <2> QED
    BY <1>1, <1>2, <1>3, <2>1, CountersNeverGoBack
<1>5. \A p : LogOf(p) = LogIn(db, p) /\ LogOf(p)' = LogIn(work, p)
  BY <1>1 DEF LogOf, FactsOf, LogIn, Entries
<1>6. \A j : FactsOf(j) = FactsIn(db, j) /\ FactsOf(j)' = FactsIn(work, j)
  BY <1>1 DEF FactsOf, FactsIn, FactEntries
<1>7. CASE SameLogs
  <2>1. \A p \in Paths : LogOf(p)' = LogOf(p)
    BY <1>5, <1>7, SameLog DEF SameLogs
  <2>2. db'.intents = db.intents
    BY <1>1, <1>7 DEF SameLogs
  <2>3. \A j : FactsOf(j)' = FactsOf(j)
    BY <1>1, <1>7 DEF SameLogs, FactsOf, FactEntries
  <2>4. [j \in DOMAIN db'.intents |-> FactsOf(j)'] = [j \in DOMAIN db.intents |-> FactsOf(j)]
    BY <2>2, <2>3
  <2>5. [p \in Paths |-> LogOf(p)'] = [p \in Paths |-> LogOf(p)]
    BY <2>1
  <2> QED
    BY <2>4, <2>5 DEF TraceLog!Keep
<1>8. CASE OneMoreBatch
  <2> DEFINE i == batch.append_intent_id
             b == FactsIn(work, i)
             New(p) == db.next[p] + 1 .. work.next[p]
             Free(p) == {n \in New(p) : \A k \in DOMAIN b : b[k].path = p => b[k].place # n}
             c == [j \in DOMAIN db.intents |-> FactsIn(db, j)]
             d == [j \in DOMAIN work.intents |-> FactsIn(work, j)]
             old == [p \in Paths |-> LogOf(p)]
             log == [p \in Paths |-> LogOf(p)']
  <2>1. i \notin DOMAIN db.intents /\ DOMAIN work.intents = DOMAIN db.intents \cup {i}
    BY <1>8 DEF OneMoreBatch
  <2>2. NewAreMine /\ DigestsTell(work) /\ AllAccounted(work) /\ NewPlaced /\ FirstRetained /\ IntentsKnown(db)
    BY <1>1 DEF FrontInv, ContentInv, ReceiptsInv, PlacedInv
  <2>3. ASSUME NEW j \in DOMAIN db.intents
        PROVE  FactsIn(work, j) = FactsIn(db, j)
    <3>1. work.intents[j] = db.intents[j]
      BY <1>3 DEF Extends
    <3>2. DigestsTell(db) /\ Accounts(db, j)
      BY DEF ContentInv, ReceiptsInv, AllAccounted
    <3>3. TablesTypeOK(db) /\ KeysUnique(db) /\ TablesTypeOK(work) /\ KeysUnique(work)
      BY <1>2 DEF Readable
    <3> QED
      BY <1>3, <3>1, <3>2, <3>3, FactsStay
  <2>4. /\ i \in DOMAIN d /\ i \notin DOMAIN c /\ DOMAIN d = DOMAIN c \cup {i} /\ d[i] = b
        /\ \A j \in DOMAIN c : d[j] = c[j]
    BY <2>1, <2>3
  <2>5. ASSUME NEW p \in Paths
        PROVE  /\ TraceLog!IsPrefix(old[p], log[p])
               /\ old[p] = LogIn(db, p) /\ log[p] = LogIn(work, p)
               /\ TraceLog!NewPlaces(p) = New(p) /\ DOMAIN LogIn(db, p) = 1 .. db.next[p]
    <3>1. old[p] = LogIn(db, p) /\ log[p] = LogIn(work, p)
      BY <1>5
    <3>2. TraceLog!IsPrefix(LogIn(db, p), LogIn(work, p))
      BY <1>2, <1>3, <1>4, LogContinues
    <3>3. Len(LogIn(db, p)) = db.next[p] /\ Len(LogIn(work, p)) = work.next[p]
      BY <1>2, LogLength
    <3>4. TraceLog!NewPlaces(p) = Len(old[p]) + 1 .. Len(log[p])
      BY DEF TraceLog!NewPlaces
    <3>5. DOMAIN LogIn(db, p) = 1 .. db.next[p]
      BY DEF LogIn
    <3> QED
      BY <3>1, <3>2, <3>3, <3>4, <3>5
  <2>6. /\ \A k \in DOMAIN b :
             /\ b[k].path \in Paths
             /\ b[k].place \in New(b[k].path)
             /\ LogIn(work, b[k].path)[b[k].place] = b[k].id
             /\ \A j \in DOMAIN b : (j < k /\ b[j].path = b[k].path) => b[j].place < b[k].place
        /\ \A p \in Paths \ {W} : Free(p) = {}
        /\ \A n \in Free(W) :
             /\ \A p \in Paths : \A m \in 1 .. db.next[p] : LogIn(db, p)[m] # LogIn(work, W)[n]
             /\ \A m \in Free(W) : LogIn(work, W)[m] = LogIn(work, W)[n] => m = n
    BY <1>2, <1>3, <1>8, <2>2, BatchEnters
  <2>7. \A p \in Paths : TraceLog!Beside(b, p) = Free(p)
    BY <2>5 DEF TraceLog!Beside
  <2>8. W \in Paths
    BY DEF W, Paths
  <2> HIDE DEF b, New, Free
  <2>9. TraceLog!EntersInOrder(b)
    <3>1. ASSUME NEW k \in DOMAIN b
          PROVE  log[b[k].path][b[k].place] = b[k].id /\ TraceLog!NewPlaces(b[k].path) = New(b[k].path)
      BY <2>5, <2>6
    <3> QED
      BY <2>6, <3>1 DEF TraceLog!EntersInOrder
  <2>10. TraceLog!Witnesses(b)
    <3>1. TraceLog!Beside(b, W) = Free(W) /\ log[W] = LogIn(work, W)
      BY <2>5, <2>7, <2>8
    <3>2. ASSUME NEW n \in Free(W), NEW p \in Paths
          PROVE  log[W][n] \notin TraceLog!Range(old[p])
      <4>1. old[p] = LogIn(db, p) /\ DOMAIN old[p] = 1 .. db.next[p]
        BY <2>5
      <4>2. \A m \in 1 .. db.next[p] : LogIn(db, p)[m] # LogIn(work, W)[n]
        BY <2>6
      <4> QED
        BY <3>1, <4>1, <4>2 DEF TraceLog!Range
    <3>3. \A n \in Free(W) : \A m \in Free(W) : log[W][m] = log[W][n] => m = n
      BY <2>6, <3>1
    <3> QED
      BY <3>1, <3>2, <3>3 DEF TraceLog!Witnesses, W
  <2>11. \A p \in Paths \ {W} : TraceLog!Beside(b, p) = {}
    BY <2>6, <2>7
  <2>12. /\ [j \in DOMAIN db'.intents |-> FactsOf(j)'] = d
         /\ [j \in DOMAIN db.intents |-> FactsOf(j)] = c
    BY <1>1, <1>6
  <2>13. \A p \in Paths : TraceLog!IsPrefix(old[p], log[p])
    BY <2>5
  <2> HIDE DEF i, c, d, old, log
  <2>14. TraceLog!Commit
    BY <2>4, <2>9, <2>10, <2>11, <2>12, <2>13 DEF TraceLog!Commit, old, log, W
  <2> QED
    BY <2>14
<1> QED
  BY <1>1, <1>7, <1>8 DEF LogsInv

\* COMMIT adds a mark of a place that is in the log, or none.
LEMMA CommitMarks ==
    ASSUME TypeOK, TypeOK', PathInv, PathInv', GrowthInv, MarksInv, CommitTx
    PROVE  TraceLog!Mark \/ work.frontiers = db.frontiers
<1>1. db' = work /\ pc = "commit" /\ ~ctxDone
  BY DEF CommitTx
<1>2. Readable(work)
  BY <1>1 DEF PathInv, TablesInv, Readable, TypeOK
<1>3. Extends(db.frontiers, work.frontiers)
  BY DEF GrowthInv, Grown
<1>4. \A p : LogOf(p)' = LogIn(work, p)
  BY <1>1 DEF LogOf, FactsOf, LogIn, Entries
<1>5. CASE OneMoreMark
  <2>1. PICK f \in DOMAIN work.frontiers :
          LET row == work.frontiers[f]
          IN  /\ f \notin DOMAIN db.frontiers
              /\ DOMAIN work.frontiers = DOMAIN db.frontiers \cup {f}
              /\ row.target_trace_owner_id \in Paths
              /\ Holds(work, row.target_trace_owner_id, row.through_owner_ordinal, row.through_fact_id)
    BY <1>5 DEF OneMoreMark
  <2> DEFINE row == work.frontiers[f]
             p == row.target_trace_owner_id
             n == row.through_owner_ordinal
             marks == [g \in DOMAIN db.frontiers |->
                         [path |-> db.frontiers[g].target_trace_owner_id,
                          place |-> db.frontiers[g].through_owner_ordinal + 1,
                          id |-> db.frontiers[g].through_fact_id]]
             more == [g \in DOMAIN work.frontiers |->
                         [path |-> work.frontiers[g].target_trace_owner_id,
                          place |-> work.frontiers[g].through_owner_ordinal + 1,
                          id |-> work.frontiers[g].through_fact_id]]
             log == [q \in Paths |-> LogOf(q)']
  <2>2. p \in Paths /\ n + 1 \in DOMAIN LogIn(work, p) /\ LogIn(work, p)[n + 1] = row.through_fact_id
    <3>1. PICK e \in work.paths : e.path_ref = p /\ e.path_ordinal = n /\ e.record_id = row.through_fact_id
      BY <2>1 DEF Holds
    <3>2. p \in Paths /\ e \in Entries(work, p)
      BY <2>1, <3>1 DEF Entries
    <3>3. n + 1 \in 1 .. work.next[p] /\ LogIn(work, p)[n + 1] = row.through_fact_id
      BY <1>2, <3>1, <3>2, EntryInLog
    <3>4. DOMAIN LogIn(work, p) = 1 .. work.next[p]
      BY DEF LogIn
    <3> QED
      BY <3>2, <3>3, <3>4
  <2>3. log[p] = LogIn(work, p)
    BY <1>4, <2>2
  <2>4. /\ f \in DOMAIN more /\ f \notin DOMAIN marks /\ DOMAIN more = DOMAIN marks \cup {f}
        /\ \A g \in DOMAIN marks : more[g] = marks[g]
        /\ more[f].path = p /\ more[f].place = n + 1 /\ more[f].id = row.through_fact_id
    BY <1>3, <2>1 DEF Extends
  <2>5. /\ [g \in DOMAIN db.frontiers |->
              [path |-> db.frontiers[g].target_trace_owner_id,
               place |-> db.frontiers[g].through_owner_ordinal + 1,
               id |-> db.frontiers[g].through_fact_id]] = marks
        /\ [g \in DOMAIN db'.frontiers |->
              [path |-> db'.frontiers[g].target_trace_owner_id,
               place |-> db'.frontiers[g].through_owner_ordinal + 1,
               id |-> db'.frontiers[g].through_fact_id]] = more
    BY <1>1
  <2> HIDE DEF row, p, n, marks, more, log
  <2>6. /\ more[f].path \in Paths
        /\ more[f].place \in DOMAIN log[more[f].path]
        /\ log[more[f].path][more[f].place] = more[f].id
    BY <2>2, <2>3, <2>4
  <2>7. \E h \in DOMAIN more :
          /\ h \notin DOMAIN marks
          /\ DOMAIN more = DOMAIN marks \cup {h}
          /\ \A g \in DOMAIN marks : more[g] = marks[g]
          /\ more[h].path \in Paths
          /\ more[h].place \in DOMAIN log[more[h].path]
          /\ log[more[h].path][more[h].place] = more[h].id
    BY <2>4, <2>6
  <2> QED
    BY <2>5, <2>7 DEF TraceLog!Mark, log
<1> QED
  BY <1>1, <1>5 DEF MarksInv

\* The same committed tables are the same logs.
LEMMA SameTablesSameLogs ==
    ASSUME db' = db
    PROVE  UNCHANGED TraceLog!vars
<1>1. \A p : LogOf(p)' = LogOf(p)
  BY DEF LogOf, FactsOf, Entries
<1>2. \A i : FactsOf(i)' = FactsOf(i)
  BY DEF FactsOf, FactEntries
<1>3. [i \in DOMAIN db'.intents |-> FactsOf(i)'] = [i \in DOMAIN db.intents |-> FactsOf(i)]
  BY <1>2
<1>4. [p \in Paths |-> LogOf(p)'] = [p \in Paths |-> LogOf(p)]
  BY <1>1
<1> QED
  BY <1>3, <1>4 DEF TraceLog!vars

\* Empty tables are empty logs.
LEMMA EmptyTablesEmptyLogs ==
    Init => TraceLog!Init
<1> SUFFICES ASSUME Init PROVE TraceLog!Init
  OBVIOUS
<1>1. db.next = [p \in Paths |-> 0] /\ db.intents = << >> /\ db.frontiers = << >>
  BY DEF Init, EmptyTables
<1>2. \A p \in Paths : LogOf(p) = << >>
  <2>1. 1 .. 0 = {}
    OBVIOUS
  <2>2. \A p \in Paths : DOMAIN LogOf(p) = {}
    BY <1>1, <2>1 DEF LogOf, FactsOf
  <2> SUFFICES ASSUME NEW p \in Paths PROVE LogOf(p) = << >>
    OBVIOUS
  <2>3. db.next[p] = 0
    BY <1>1
  <2> QED
    BY <2>1, <2>3 DEF LogOf, FactsOf
<1>3. [i \in DOMAIN db.intents |-> FactsOf(i)] = << >>
  BY <1>1
<1> QED
  BY <1>1, <1>2, <1>3 DEF TraceLog!Init

\* store_append.go:41, store_append.go:511: for any calls, and through every cancellation,
\* refusal, retry and crash, the committed tables are append-only logs.  A batch enters them
\* whole and once per intent: each of its facts once, on its group's path, in the order of
\* the drafts, and nothing beside them but witnesses that are retained for the first time.
\* A frontier marks, for ever, a place of a log at which its fact is.
THEOREM StoreIsALog == Spec => ImplementsTraceLog
<1>1. Init => LogsInv /\ PlacedInv
  BY DEF Init, LogsInv, PlacedInv, FirstRetained
<1>2. TypeOK /\ PathInv /\ GrowthInv /\ ReceiptsInv /\ LogsInv /\ [Next]_vars => LogsInv'
  BY WritesLogs, OthersLogs DEF PathInv
<1>3. TypeOK /\ TypeOK' /\ PathInv /\ GrowthInv /\ GraphInv /\ ReceiptsInv /\ AgreeInv /\ ContentInv
      /\ FrontInv /\ PlacedInv /\ [Next]_vars => PlacedInv'
  BY StageDraftPlaced, InsertWitnessPlaced, InsertFactPlaced, AdvanceCountersPlaced, OthersPlaced
<1>4. ASSUME TypeOK, TypeOK', PathInv, PathInv', GrowthInv, ReceiptsInv, ContentInv, LogsInv, MarksInv,
             FrontInv, PlacedInv, [Next]_vars
      PROVE  [TraceLog!Next]_(TraceLog!vars)
  <2>1. CASE CommitTx
    <3>1. TraceLog!Commit \/ TraceLog!Keep
      BY <1>4, <2>1, CommitLogs
    <3>2. TraceLog!Mark \/ work.frontiers = db.frontiers
      BY <1>4, <2>1, CommitMarks
    <3>3. db' = work
      BY <2>1 DEF CommitTx
    <3> QED
      BY <3>1, <3>2, <3>3 DEF TraceLog!Next
  <2>2. CASE ~CommitTx
    BY <1>4, <2>2, OnlyCommitChanges, SameTablesSameLogs
  <2> QED
    BY <2>1, <2>2
<1> QED
  BY <1>1, <1>2, <1>3, <1>4, EmptyTablesEmptyLogs, TypeCorrect, PathInvHolds, ViewHoldsCommitted,
     GraphInvHolds, ReceiptsInvHolds, EventsInvHolds, ContentInvHolds, FrontInvHolds,
     PTL DEF Spec, ImplementsTraceLog, TraceLog!Spec

=============================================================================
