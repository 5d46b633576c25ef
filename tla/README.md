# A TLA+ verification of the trace kernel

The kernel is a Go package (`trace`, the module root) that retains what agents do as
content-addressed records in SQLite, fans the appends out to live subscribers, and folds
the records back into executions and run trees. This directory holds TLA+ models of it,
TLC instances that check them, and TLAPS proofs about them. `PROJECT.json` maps every
definition to the lines it stands for, and lists every run with its properties, every
hazard with the properties that watch it, and every theorem.

    tlc -config TraceStore_laws.cfg MCTraceStore.tla      # one run
    tlapm RunTreeProofs.tla                               # one proof module

## 1. The system

### Components

| Component | Source | State | Operations | Model |
|---|---|---|---|---|
| Append path | `store.go`, `store_append.go`, `store_record.go`, `store_schema.go` | eight SQLite tables (of ten), a mutex, one connection | `Append` (`PreviewRecordIDs` writes nothing) | `TraceStore`, `EventMemory` |
| Record identity, witnesses, contexts | `canonical.go` (identity and validation), `store_witness.go`, `store_context.go`, `types.go` | none: pure functions | digests, witness plans, context ids, batch fingerprint | `RecordModel` |
| Frontiers | `store_frontier.go` | table `frontiers`, one retained fact per frontier | `PublishFrontier`, `ResolveFrontier`, `ReadOwnerCutoff` | `TraceStore` (publish), `SliceReads` (resolve) |
| Reads and slices | `store_read.go`, half of `store_witness.go` | none | fact, prefix, closure, scan; anchors, redaction, witness closure | `SliceReads` |
| Effect bus | `bus.go`, `effect.go` | map of channels, closed flag, RWMutex | `Subscribe`, `Unsubscribe`, `Publish`, `Close` | `EffectBus` |
| Executions, relations, history | `execution.go`, `relations.go`, `history.go` | none: batches in, folds out | canonical batches, `PublishExecutionFrontier`, `Project...`, `...FromStore` | `RunTree` |
| Schema library | `schema_library.go` | none | `EnsureProjectionCompatible` | inside `RunTree` |
| Canonical codec | `canonical.go` (writers) | none | CPython-compatible JSON: values, numbers, strings | `CanonicalWriter`, `CanonicalNumbers`, `CanonicalStrings` |
| Materialization ledger | `materialization_*.go` | one table | read, record, delete | `MaterializationLedger` |
| Checkpoint blobs | `checkpoint_blob.go`, `workspace_state.go` | one table | persist, load, delete | `CheckpointBlobs` |
| Trace UI | `traceui/` | one subscription per stream | list, stream, health | `TraceUI` |
| Command and test kit | `cmd/traceui`, `testkit/` | none | flags and a listener; test vectors | not modelled |

The runtime layer (scopes, settlement, materialization orchestrator, supervisors) lives in
another repository. It appears only as the callers of these operations.

### How they interact

* `Append` and `PublishFrontier` take the store's mutex, run one transaction over the one
  connection, and return. `Append` publishes to the bus **after** COMMIT and **before** it
  releases the mutex, one event per draft, and only if the intent was new.
* `PublishFrontier` calls the same `appendInTx` for the fact that describes the frontier
  and then writes the index row, in the same transaction.
* `Publish` holds the bus's read lock, the other bus operations its write lock; receivers
  hold nothing.
* Reads hold no mutex. A slice is many queries (entries, one record each, contexts,
  witnesses), and appends commit between them.
* A trace UI service subscribes to the bus for each event stream and reads the store for
  each listing; in the viewer's process it reads the file that the writer's process writes.
* The runtime records a materialization in the ledger after the capture append, and hands
  a checkpoint out after its blob is persisted.
* `PublishExecutionFrontier` reads its through fact in a query of its own and then calls
  `PublishFrontier`. `ProjectEffectiveHistoryFromStore` resolves the root's frontier,
  projects the relations, resolves each active child's frontier, and only then folds.

### What is hard here

* *Atomicity and recovery*: a batch is some twenty statements; a check, a cancelled
  context or a crash may stop it at any of them.
* *Idempotency*: an intent is committed at most once; every retry gets the first receipt,
  a different batch under its name is a conflict.
* *Counters read early and used late*: ordinals and commit numbers are handed out while
  facts are prepared, then witnesses advance the counter of their own path, then the facts
  are inserted.
* *Content addressing*: the same content is one record on many paths, under many intents,
  in both of the renderings the code keeps.
* *Lock and channel protocol*: send on a closed channel, a full buffer drained by two
  publishers, a subscriber that never receives while the store's mutex is held.
* *Many-query reads* of something that grows, under a context that may end between two of
  them, and frontiers that must read the same for ever.
* *Shared memory*: the events of one append may share an array with its caller.
* *Streams and backfills*: a viewer subscribes, then lists, and must not fall between.
* *Races outside the store's transaction*: dispatches of one materialization intent.
* *Byte-exact text*: cycles, aliases, number formats and escapes decide every id.

`PROJECT.json` "hazards" lists each with its line and the properties that would catch it.

## 2. The modules

| System | Laws | Instance | Proofs |
|---|---|---|---|
| `RecordModel`, `TraceStore` | `TraceStoreLaws`, with the abstract `TraceLog` | `MCTraceStore` | `TraceStoreProofs` |
| `SliceReads` (extends `TraceStore`), with `Subsequences` | `SliceReadsLaws` | `MCTraceStore` | `SliceReadsProofs` |
| `EffectBus`, `EventMemory` | in the modules | `MCEffectBus` | `EffectBusProofs` |
| `RunTree`, with `Subsequences` | `RunTreeLaws` | `MCRunTree` | `SequenceLemmas`, `RunTreeProofs` |
| `TraceUI` | `TraceUILaws` | `MCTraceUI` | `TraceUIProofs` |
| `MaterializationLedger`, `CheckpointBlobs` | in the modules | `MCSideTables` | `SideTablesProofs` |
| `CanonicalWriter`, `CanonicalNumbers`, `CanonicalStrings` | `CanonicalWriterLaws` and in the modules | `MCCanonical` | `CanonicalProofs` |

**RecordModel** is what the append path computes. A digest is the tuple it is taken over,
so two ids are equal exactly when the canonical inputs are. A payload is a pair, the
canonical rendering (`canon`, which ids are taken over) and the `json.Marshal` rendering
(`json`, which the table stores), because the code keeps the two apart and compares
duplicates by the second.

**TraceStore** is `Append` and `PublishFrontier`, statement by statement:

| pc | code | actions |
|---|---|---|
| `idle` | the mutex is free | `BeginAppend`, `BeginPublish`, `RefuseCaller` |
| `through` | `publishFrontierInTx` resolves its through fact | `ResolveThrough`, `RefuseThrough` |
| `lookup` | shape, fingerprint, the intent's row | `RejectShape`, `AnswerRetry`, `RefuseConflict`, `StartStaging` |
| `stage` | `prepareAppend`, one draft a step | `StageDraft`, `RefuseDraft`, `RetainIntent` |
| `witness` | witness inserts | `KeepWitness`, `InsertWitness`, `EndWitnesses` |
| `fact` | fact inserts, then the counters | `InsertFact`, `RefuseFact`, `AdvanceCounters` |
| `index` | the frontier row | `IndexFrontier`, `KeepFrontier`, `RefuseFrontier` |
| `commit`, `publish`, `reply` | COMMIT, events, unlock | `CommitTx`, `PublishEvent`, `EndPublish`, `Return` |

`db` is what is committed and `work` what the open transaction sees; COMMIT is `db' = work`,
an error is `work' = db`. Which caller gets the mutex next is the choice in `Begin`, so all
orders of any number of concurrent callers are there. `Cancel` may happen before any
statement of a transaction: `database/sql` rolls back behind the call's back, and the call
learns of it from its next statement, except from `factExistsTx` and its like, which swallow
the error. `Crash` may happen anywhere and keeps `db`.

**TraceLog** is what the store is to its users: a log per path, batches that enter the logs
once per intent, frontiers that mark a place for ever. Each fact of a batch takes one new
place, on the path it is due on, behind those that precede it there in the batch; no other
place is taken but by witnesses, on their path, each id once and only if no path had it.
`ImplementsTraceLog` reads the logs off the committed tables. What a batch is due comes from
the fingerprint kept for its intent, which is the batch as the caller gave it: the drafts in
their order and the owner of each one's group. Where each draft came to lie is what its
receipt says, the id and, through the commit number, the path entry. So a receipt in another
order than the drafts, a fact on another group's path, entered twice or out of turn, or a
witness retained again is no step of `TraceLog`.

**SliceReads** is a reader beside those writers. Readers take no mutex and open no
transaction, so every query is a step over what is committed at that moment: the entries,
each entry's record, each parent that was not selected, each context, each link of the
witness chains. `pending` is the queue of the closure's walk; `todo` is what a slice still has
to query, entries first and then lookups, taken in the order of the rows. The reader's context may end between any two; a helper that swallows the
error goes on with nothing, and `gone` says so. `answer` stays when a read has ended, so an
invariant compares it with all that is committed afterwards too.

**EffectBus**: an operation under the write lock is one step that waits until no publisher
is inside `Publish`; `Publish` is a step per `select`, so publishers and receivers
interleave inside its drain-and-resend. **EventMemory** is the memory of what one append
publishes: an event's parents are what Go's `append` returns, which lies in the caller's
array if that has room for the draft's causes or if there are none; the subscriber reads it
later, and once `Append` has returned the caller may append behind its own slice or write
within it meanwhile (`CallerAppends`, again and again). So what the code guarantees, even for
slices without spare capacity, is not that events are never overwritten:
`EventsShareOnlyTheCallersWrites` says that an event of a draft with causes keeps its parents,
and that in the event of a draft without causes the caller's own later writes show, place by
place, and nothing else.

**RunTree** takes the store as `TraceLog` says it is (a batch enters a path in one step, once
per intent; a frontier keeps its place) and models what is built on it: the canonical
batches, the terminal-frontier law as two steps with anything between them, every fold, and
the many-query reader. A fact stands for its id; of a payload only what the folds
distinguish is kept. It allows one `PublishExecutionFrontier` between its read and its
transaction at a time (`cut`), and one reader: readers write nothing.

**TraceUI** composes services, store and bus: a batch is committed, its events are
published one by one, a stream names itself, subscribes, says hello, and relays until it
ends; a listing enumerates the owners and then reads them one at a time. The store is taken
as `TraceLog` says it is and the bus as `EffectBus` says it is. A client opens at most one
stream and asks at most `MaxAsks` times. Quiet entries (witnesses, frontier facts) have no
event, which is what `event_per_record` is about.

**MaterializationLedger**: the three ledger functions by statement (`INSERT OR IGNORE`, the
read back, the delete), used by any number of dispatches in the order in which the runtime
calls them. The dispatch is the environment. A row may be deleted at any time, without the
mutex, also between another dispatch's insert and its re-read; what was acknowledged for the
intent is taken back with its row, so `AckedCompletionsAreRecorded` speaks of what was
acknowledged since. (Only tests call the delete, to stand where a crash would leave the ledger.)

**CheckpointBlobs**: persist, delete and the row-by-row load of recovery, with the sequence
number cast to a signed column and back, the kinds of numbers JSON cannot tell apart, rows
damaged between two runs, and crashes. A checkpoint's content is fixed by its id.

**CanonicalWriter** is `writeCanonicalValue` as a walk over a memory of nodes that may share
and contain each other; the recursion is a stack of frames, and leaving a frame runs the
deferred `leaveContainer`. **CanonicalNumbers** is the hand-written scan of a number token,
byte by byte, and the CPython format of what it accepts; floats are exact decimals of up to
fifteen digits. **CanonicalStrings** is the escaping of a string in its two flavours.

In every module a definition `X_Something` placed before `X` is a faulty variant (a dropped
guard, an off-by-one, a missing rollback). No specification uses it; substituting it for `X`
is how each property was shown to be able to fail. `PROJECT.json` "mutants" pairs them.

An instance module gives its constants as definitions and, where the calls of one instance
would be too many together, a variable that fixes the *scenario* of a behaviour: which calls
it may make. A law is checked in all scenarios of its run.

## 3. What is checked

| Run | What it asks | Properties | Distinct states |
|---|---|---|---|
| `store_laws` | do all tables, receipts, replies, events and answers agree, at every statement; is it all an append-only log | `TypeOK`, `PathsContiguous`, `CommitNumbersGapFree`, `CausalGraphIsSound`, `WitnessedToRoot`, `ReceiptsAreDurable`, `EventsTellCommits`, `FrontiersHold`, `CutsReadTheSame`, `ClosuresAreExact`, `AnswersAreWhole`, `AppendOnly`, `ImplementsTraceLog` | 174 873 |
| `store_progress` | is the mutex always released, does every read end, is a prefix read one moment of its path | `PrefixesAreSnapshots`, `EveryCallEnds` | 12 958 |
| `bus_fanout` | publishers against every bus operation, and the memory of events | `NoSendOnClosedChannel`, `OpenMeansSubscribed`, `PublisherOrder`, `NewestSurvives`, `EventsShareOnlyTheCallersWrites`, `PublishReturns` | 366 449 |
| `tree_histories` | a parent with a failing, retried, adopted and replaced child, and paths that mix executions | `ReaderSeesOneHistory`, `TerminalCutsEnd`, `ChildrenAreActive`, `ExecutionsAreLastWins`, `HistoriesNeverChange` | 320 952 |
| `ui_clients` | streams, listings and appends of several services | `BackfilledClientMissesNothing`, `StreamsKeepTheirChannels`, `ResponsesAreTrue`, `BackfilledClientsCatchUp` | 188 219 |
| `side_tables` | racing dispatches; checkpoints through restarts | `AckedCompletionsAreRecorded`, `ReceiptsNameTheCaptures`, `RecoveredAsPersisted`, `RecoveriesAccountForAll` | 817 232 |
| `canonical_forms` | values, numbers and strings | `SeenAreAncestors`, `WrittenAsTheirText`, `OnlyCyclesAreRefused`, `ScanDecidesTheGrammar`, `CanonicalKeepsTheNumber`, `StringsReadBack` | 340 470 |

Five more runs end in a violation, each of something the repository says of itself:

* `event_per_record`: `PublishFrontier` appends a record and publishes no event, where
  `traceui/doc.go:25` promises one per appended record.
* `unknown_fact`: a cancelled append reports a retained parent as unknown
  (`store_record.go:175`), which `store.go:47` reserves for missing facts.
* `body_digest`: a trusted payload with an integral float64 is stored as `1` and digested as
  `1.0`, so the stored body no longer reproduces its id: the loss `store_json.go:60` tells of
  as fixed for reads. Without a float64 in the batches the property holds.
* `reads_ended`: a closure read whose context ends after its walk returns an empty slice and
  no error, because `canonicalFactOrder` (`store_read.go:422`) returns nil when its query
  fails. With a context that does not end, `AnswersAreWhole` and `ClosuresAreExact` hold.
* `event_memory_grown`: when the parents of a group lie in a slice with spare capacity, the
  events of its drafts share one array and the last overwrites the others
  (`store_append.go:87`), although the caller touches nothing. Without spare capacity no draft
  overwrites another, and that is proved.

Other disagreements, met while modelling and described in the model as the code has them:

* an external anchor of a slice shows its parent's first place in path order, so a later
  append may change what a frontier's anchors show (`store_read.go:373`); `CutsReadTheSame`
  therefore speaks of everything in a slice but the place an anchor shows;
* a record on two paths is listed twice by a scan (`store_read.go:165`), and under each
  owner by the UI, with that owner's ordinal (`traceui/records.go:102`);
* the event of a draft without causes shares the caller's array whatever its capacity
  (`store_append.go:87`), so a caller that writes in its slice after `Append` changes an event
  already published; `EventsShareOnlyTheCallersWrites` says how far that goes;
* an event's parents lack the causes given as local references (`store_append.go:87`),
  although `traceui/doc.go:28` reserves an empty list for roots;
* with two publishers on one bus, the slot one has drained can be taken by the other and the
  *new* event is dropped (`bus.go:97` against `bus.go:13`); a store is one publisher, and for
  one `NewestSurvives`;
* a recovered checkpoint has an integer where the workspace state had a whole float
  (`checkpoint_blob.go:49`); `RecoveredAsPersisted` speaks of all other numbers;
* the canonical writer overflows the stack on a cycle of pointers (`canonical.go:578`),
  refuses a slice inside a slice of the same array as a cycle (`s[1] = s[:1]`: a visit is a
  kind and an address, `canonical.go:253`; `HoldsItsArray` in `CanonicalWriterLaws`), panics on
  a map whose key is a named string type (`canonical.go:639`), and writes DEL differently in
  its two flavours (`canonical.go:235`).

### Bounds

* *Store.* Batches are chosen for what they share rather than for their number: the same
  content on two paths and under two intents; one intent under two fingerprints and under one
  fingerprint spelled in two ways; parents, local references and contexts of another batch;
  two renderings of one id; facts on the witnesses' own path; and one batch for each check
  that fails. Every intent commits at most once, so the state space is finite without a bound
  on calls: retries and conflicts are unlimited. Four paths, up to three drafts and two
  groups per batch: groups that share nothing interact only through the counters and the
  records table, which two groups already exercise. Frontiers: two calls for one id with
  different cutoffs, one cutoff under two intents, a cut of the witness path, and the refused
  ones, beside an append that moves the last place of the through fact.
* *Reader.* One reader: readers write nothing, so two do not interact. A fact and its child
  on two paths, the fact again on a path that sorts first, and a cut that leaves a parent
  outside, with every mode filter and both visibilities. The writer is neither cancelled nor
  killed beside the reader, which would change no committed table.
* *Bus.* Two publishers, two ids, three channels (so an id is re-subscribed beside a third
  subscription), buffers of two: four events into two slots reach every drain. `MaxEvents`
  and the number of channels bound the behaviours and stop the system, so deadlock is not
  checked there, nor for the tree, the UI and the canonical forms, whose behaviours end when
  their intents, batches or characters are used up. The store's and the side tables' do not.
  Memory: one or two groups, two or three drafts, every list of causes of length at most one,
  parents of length at most two; the caller's slices grow by one element and are then written
  in place (`MemoryStep`).
* *Tree.* A parent and a child, because a history is one level deep by construction of the
  code (a child's own relations are not followed). Two relation ids that share a child, six
  batches a scenario, two frontier ids, both outcomes of the child.
* *UI.* Two clients of two services on one bus, owners of which one is another's child and
  one only looks like it, buffers of two and, in one scenario, more events than fit; at most `MaxAsks`
  listings a client.
* *Side tables.* Three dispatches of one intent with two digests. Two checkpoints, sequence
  numbers of three bits on both sides of the largest signed one: the casts depend on the
  width only through that boundary.
* *Canonical forms.* All memories of three nodes in which the root has two items and the
  others one, with cycles of every kind and slices that share an array; `MaxDepth` frames are
  more than those nest, so only untracked cycles reach it. All tokens of up to four characters over the
  grammar's alphabet and up to six over its core, and numbers on both sides of every change
  of format. All strings of up to three code points out of eighteen, one on each side of every
  bound the writers and UTF-16 have.

### Fairness

The store: weak fairness of `Step`, the goroutine that holds the mutex is runnable and its
statements return, with a result or with the context's error; and of `ReadStep`, for the
same reason. Nothing is assumed of callers, of cancellation or of crashes. The bus: weak
fairness of each publisher inside `Publish`, which contains no blocking operation once it has
the read lock; receivers are not fair, which is the point of `PublishReturns`. The UI: weak
fairness of the publishing append, of each stream's goroutine and of each listing under way;
clients need not ask, and a stream may end at any time.

## 4. What is proved

The proofs hold for every value of the constants under the named assumptions only
(`AppendCallsAssumption`, `PublishCallsAssumption`: batches are finite and name known paths;
`BatchShapesAssumption`: drafts name groups of their batch, and the lists of causes are
sequences; `FrontierPayloadsAssumption`: a payload that reads as a frontier's canonically does
so as it is stored, since strings and integers have one rendering each;
`BufferSizeAssumption`, `MaxEventsAssumption`, `ChannelsAssumption`, `BatchesAssumption`,
`NobodyAssumption`, `RangeAssumption`, `HeapAssumption`, `CallsAssumption`, `UIAssumption`;
`StackAssumption`: the goroutine's stack has room for the longest path without a cycle, so
`RefusalsHaveReasons`, which alone needs it, is about values that are small beside Go's limit
of a gigabyte of stack;
`TokensAssumption`, `TextsAssumption`: tokens and texts are sequences, of characters and of the
code points UTF-8 has a form for; `PathOrderAssumption`: the paths are sorted in one order;
`RequestsAssumption`: the roots of a closure are a list), which TLC evaluates in the runs.

**The store** (`TraceStoreProofs`).

* `TypeCorrect`: `Spec => []TypeOK`. One lemma per action that changes a typed variable;
  `ErrorsFail` shows that all the refusals are one case, `Fail`.
* `PathsStayContiguous` and `CommitNumbersStayGapFree`. Neither is inductive: between the
  first insert and the counter update a path has entries its counter does not know, and
  whether the update closes the gap depends on what was prepared many steps earlier.
  `PathInv` says it in five parts: `ViewInv` (outside the inserts the transaction sees exactly
  what is committed, also after a cancellation), `TablesInv` (only during the fact inserts do
  tables and counters disagree), `PreparedInv` (the prepared facts of a path are numbered
  from the committed counter on, without gap), `RangesInv` (the receipt's ranges are those
  numbers, and the only counter that moved is the witnesses' own), `InsertedInv` (after n
  inserts a path holds what its counter knows plus the first n prepared facts, which lie
  beyond the counter). The last is where the hard case sits: a batch that prepares facts for
  `kernel:witness` while its own witnesses are inserted there. The proof shows that the
  table's primary key rejects the first such fact, so the batch fails whole rather than
  leaving a hole.
* `NothingCommittedChanges`: `AppendOnly`. COMMIT replaces the committed tables by the
  transaction's view, so `GrowthInv` says that the view holds every committed row as it is;
  the insert that could overwrite one is the intent's, and `FreshIntent` is what the lookup
  guarantees until then.
* `CausalGraphStaysSound`. `GraphInv` holds of the view and of the committed tables alike: the
  edge table mirrors the records, records are those on the paths, and causes were committed
  first. `NumberedInv`, the prepared facts are numbered in their order, is what gives a cause
  in the same batch the smaller number.
* `AllAreWitnessed`. `WitnessInv` follows the batch: the witness that each prepared fact cites
  is retained already or is one of those still to be inserted, the root's before the others,
  and a reused context's witness was committed with it.
* `ReceiptsStayDurable`. While a batch is inserted its receipt promises entries that are not
  there; `Inserting` says which of them are, so that the account closes exactly when the last
  fact is in. A retry is answered from the kept row.
* `StoreIsALog`: `Spec => ImplementsTraceLog`, the refinement of the abstract log. Every step
  but COMMIT leaves the committed tables and stutters (`OnlyCommitChanges`). What COMMIT adds
  is what the view was ahead by: `LogsInv` says that is nothing after a retry, else witnesses
  and the facts of one intent that was not committed (`CommitLogs`), and `MarksInv` that it is
  at most one frontier, whose place was resolved from the same view and still holds the
  through fact (`CommitMarks`). `PlacedInv` says where: a draft is fingerprinted, prepared,
  numbered and inserted apart, and the invariant carries that the entry its receipt leads to
  lies on its group's path in the drafts' order (`AdvanceCountersPlaced` joins the four), and
  that a witness that is not committed yet is the only entry of its record beside the facts.
  `BatchEnters` reads that off the logs. A log is read off a path by ordinal, so
  `LogContinues`, `NewPlaceOfEntry` and `EntryOfNewPlace` rest on the contiguity and the
  unique keys of `PathInv`: with a gap, or two entries at one ordinal, there would be no log
  to continue.
* `SubscribersAreTold`: `EventsTellCommits`. An event is made from the draft, after COMMIT; the
  fact was made from the same draft, before the inserts. `AgreeInv` carries the agreement of
  draft, prepared fact and path entry to the point where the event is published, and
  `EventsInv` counts: of the batch that is being published as many events are out as the loop
  has passed facts, and all others have smaller commit numbers.
* `FrontiersStayRight`: `FrontiersHold`. The row is written from the batch, but the fact that
  it names may be an earlier call's, or one that a caller appended by hand. `ContentInv` says
  that ids, rows, stored fingerprints and receipts tell one content, so the fingerprint
  comparison of a retry vouches for what the fact says. That the place is the last one needs
  that the batch adds no entry of the through fact itself: its only fact cites the through
  fact, and `NoSelfCause` shows that no record cites itself, because of its first entry a
  cause would be earlier. `FrontInv` then keeps each row right: what is committed later has
  greater numbers (`NewAreLater`).

**Reads** (`SliceReadsProofs`), for any requests beside any writers. `ReadersDoNotWrite`: a
read changes no table, so all that is proved of the store holds between its queries.

* *What a reader counts on* (`Sound`) and no read checks: the causes of a record are a list,
  the contexts that entries name are retained, the root witness alone has its schema and alone
  cites itself, a witness chain leads to it, frontiers lie on paths. `LegibleInv` adds to the
  store's invariants what was not proved there. One of its parts the proof found: no path has
  the empty name. In a request that name stands for all paths, so an owner of that name could
  not be read by itself; `validateBatchShape` refuses it.
* *Writers do not disturb a read*: a record keeps its causes and its edges (`EdgesStay`), an
  ancestor stays one and no record gains any (`AncestorsStay`), and no entry is added within
  what a query has already cut off (`EntriesStay`). The last rests on the contiguity of paths:
  what is appended has a greater ordinal than all there is.
* *The read itself* (`ReaderInv`): `VisitInv`, the facts visited and pending are in every set
  that contains the roots and is closed under parents, and the visited ones are such a set but
  for the pending; with nothing pending they are therefore the ancestors, in any graph and
  without following the walk. `CollectInv`, the entries loaded and to be loaded are those of the
  query, in order, or the context has ended and nothing will be shown. `LookupInv`, every lookup
  done has left its anchor or context, or the context has ended and no witness was read since.
  `ChainInv`, the witnesses read are cited, distinct, and each but the last has its own read.
* *Failures that are swallowed* (`NothingIsMissing`): a parent or a context that cannot be
  read is dropped without an error. A read whose context has ended by then has still its
  witnesses to query, and fails there. Only root witnesses need no query, and they have
  neither causes nor a context to look up.
* `PrefixesStaySnapshots`, `CutsAlwaysReadTheSame`, `ClosuresStayExact` and
  `AnswersStayWhole` are kept as parts of the invariant (`AnswerInv`): they hold when the answer
  is given, and no later commit makes them false. For the cut that is the promise of a frontier.

**The bus** (`EffectBusProofs`). `NoPanic`, `OpenStaysSubscribed`, `BuffersStayBounded`: the
invariant `BusInv` adds to the properties and the types that a publisher outside `Publish` has
nothing left to serve, which is what makes the write lock's wait sufficient.
`OnePublishersEventsInOrder`: a channel's history (what it handed over, then its buffer) has
every publisher's events in the order in which they were published, and holds none that is
ahead of what its publisher has still to serve (`OrderInv`). `NewestEventSurvives`: the newest
event of a lone publisher ends the history of every channel that it has served (`AloneLaw`).
`ClippedEventsShareOnlyTheCallersWrites`: if no group's slice has spare capacity, the event of
a draft with causes keeps its parents whatever the caller writes, and that of a draft without
causes shows the caller's array with the caller's own writes in it (`MemoryInv`: while events
are published every slice fills its array, so causes always take a new one; a slice of the
caller that outgrows its array takes a new one too, and no two of these are the same).

**Run trees** (`RunTreeProofs`).

* `HistoriesStayTheSame`: a frontier that has an effective history keeps it. A history is a
  function of the prefixes of paths that frontiers name, a prefix does not change when its
  path grows, and frontiers are never replaced; `TreeInv` says that every frontier names a
  place of its path.
* `ReadersSeeOneHistory`: the reader resolves the root's frontier, projects its relations, and
  then resolves theirs one by one. `ReaderInv` says that what it has resolved is a beginning
  of what it needs, that each slice still is what resolving would give, and that the rest is
  still to read (`RootRead`, `ChildrenRead`); it survives every step of the writer because the
  store only grows (`ResolvedKept`).
* `ChildrenAreThoseInForce`: every list that the relations pass through holds the facts at
  certain places of the list of all relations, each once (`Lists`, in `SequenceLemmas`). The
  latest facts are at the places that no later fact of the same relation follows
  (`LatestAreLasts`), and the filters keep some of them (`ListsSome`).
* `LastWordsWin` and `TerminalFrontiersEnd`: `Told` is what a fold comes to without folding,
  the last fact of each kind, and `FoldIsTold` shows that nothing else solves the equation the
  fold is defined by. A frontier keeps its through fact at its place (`ThroughAtPlace`), and
  the law publishes only what it has read to be terminal (`CutHasEnded`, `LawfulCutsEnd`),
  though it reads in an earlier transaction and on any path.

What would be an induction over a path is an argument about a least counterexample, or about
the size of a set (`SequenceLemmas`): a loop that keeps some elements of a list is written as
the elements at a set of places (`Subsequences`), whose numbering is a bijection.

**The trace UI** (`TraceUIProofs`). `StreamsStayApart`: ids are drawn from one counter
(`IdsAreFresh`), so no subscription replaces another and what a stream's end removes is its
own (`SubsAreStreams`). `BackfilledClientsAreComplete`: `BackfilledClientMissesNothing` is not
inductive, because a client is backfilled only when its response arrives, and what the response
shows was read long before. `GapInv` follows the request: what the paths held when it came it
has read or will read (`CallsCover`), and until the response what was announced since is in the
channel, on its way there, or lost (`RequestsCloseTheGap`). A response makes up for the drops
that came before its request, because what is dropped is on the paths (`AllIsHeld`), and an open
stream misses no event, because it has its channel on the bus, which is `StreamsStayApart`. `ResponsesStayTrue`: of each owner a listing
has read a beginning of its path, and the edges collected so far are those of the records read
so far, in their order (`ConcatElements` and `OneJoined` of `SequenceLemmas` say what joining
the edges of the records comes to). So an edge is shown exactly when some one path shows both
its ends, and once, whichever of several such paths was read first; an edge between facts that
no single path shows both of is not in the response, although each of them may be.

**The side tables** (`SideTablesProofs`). `CompletionsStayRecorded` and `ReceiptsStayTrue` from
`LedgerInv`, which follows each dispatch from its captures to its acknowledgement, for any
number of dispatches. `RecoveriesAreFaithful` from `RecoveryInv`: for every width the casts to
and from the signed column cancel, and the rows a load has still to scan are rows as they were
persisted or damaged ones. `RecoveriesAreComplete`: `RecoveriesAccountForAll`, an action property
of the step that ends a load. `ScanInv` says what it finds there: the table holds what was
handed out and not restored (`TableHoldsTheHanded`), each of its rows is still ahead or has been
listed once, in one of the two lists (`EachRowOnce`), and what is ahead is not older than what
has been listed (`OldestFirst`).

**The canonical forms** (`CanonicalProofs`).

* `SeenAreTheAncestors`: in every memory, what the cycle check compares with are the containers
  of the open frames, whatever is left by an error or a panic; so sharing is never refused as a
  cycle.
* `ScanIsRight`: `ScanDecidesTheGrammar`, for every token. The grammar splits a token at its
  first exponent letter and first point, the scan takes one character after the other and never
  looks back. `Shape` says in one formula where the parts of a number lie (`GrammarIsOneShape`),
  `ShapeIsSplit` that a token has its shape in one way only, and `ScanInv` what was consumed when
  each part is expected next. The hard half is the answer no: a scan that takes the longest part
  it can must not thereby miss a number (`FractionScanned`, `ExponentDigitsScanned`, `EndScanned`).
* `NumbersAreKept`: `CanonicalKeepsTheNumber`, for every token within the range and precision of
  a float64. Each of the five layouts that are written (zero, with an exponent, below one,
  integral, with the point between the digits) is a sign, digits before a point, digits behind
  it and an exponent (`Spelt`). `SpellingReads` says that such a token is split where it was put
  together, `SpellingDenotes` that its significant digits are those between the zeros and what
  power of ten they begin with, and `ExponentReadsBack` that a padded exponent reads as the
  number it was written for. That the form is its own form follows, as it denotes the same
  float.
* `StringsAreReadBack`: `StringsReadBack`, for every text and both flavours. A parser's reading
  looks back by one unit, to join surrogates, so what a literal says must not depend on what is
  written next: `Says` speaks of every solution of the reading's equation, and `StringInv`
  says that the literal says what was copied. That no character is mistaken for half of a pair
  is `EscapedIs`, by the arithmetic of the two escapes and because UTF-8 has no surrogates.

* `FormsAreTexts`: `WrittenAsTheirText`, for values of any size and shape. The text of a value
  is defined by recursion over a graph that may have cycles, so there is no induction to start
  from: the walk itself is the induction. `Solved` says of the set of values whose writing has
  ended that it contains their items, that none of them contains itself, and that every
  function that spells values by their items agrees on it; a value all of whose items are in
  the set joins it (`OneMoreSolved`). `TextInv` adds that what was written is, frame by frame,
  the opening of the frame's value and the texts of the items that were begun (`Open`, `Rests`,
  `Busy`). That an order of the keys is unique (`OneOrder`) takes the range over a map out of
  what is written.
* `RefusalsHaveReasons`: `OnlyCyclesAreRefused`. `PathInv`: the open frames and the value to be
  written are a path from the root, each an item of the one before. An ancestor with the same
  visit is the value itself, hence a cycle, or another slice of one array. On a path that
  outgrows the stack a pigeonhole argument over the places of untracked values (`LongPath`)
  finds two equal ones with no tracked value between them, and what lies between is the cycle.

### What is only model-checked

* Liveness (`EveryCallEnds`, `PublishReturns`, `BackfilledClientsCatchUp`): fairness and
  ENABLED are outside the prover.

Every invariant that a run checks is also proved. The model leaves out the rounding of a float64
beyond fifteen digits (section 5), so neither the run nor the theorem speaks of it.

The library's induction theorems take an operator that the available provers cannot
instantiate. Where something recursive is proved of above, the induction is one over a set of
numbers that holds the first and with each its successor (`CountingUp` in `SequenceLemmas`), or
an invariant of the steps.

## 5. What is left out, and why

* `PreviewRecordIDs`, the non-transactional twins of the append helpers, `FactCount`,
  `TraceOwners` as an operation of its own and the aliases (`PublishCut`, ...): they change
  nothing or are not called by the write path. `ProjectExecutionFromStore` is one prefix
  read and one fold, which `SliceReads` and `RunTree` have.
* In receipts, causal edges and context ids; in contexts, binding and visibility references,
  which travel with the capability references; the legacy fingerprint, which only old
  databases contain. The decoding of rows.
* Two constraints no batch can violate on this path: the uniqueness of a frontier's creating
  fact, and the key of a witness entry, whose counter is read in the same transaction.
* The store is modelled with a bus attached. What the bus does with an event is `EffectBus`.
* A second writing process on the same file (`store.go:96`), I/O errors of SQLite and a COMMIT
  that fails or finds the file busy. A second *reading* process, the viewer, is the reader of
  `SliceReads`.
* The slice's causal edges are those among its facts. A listing reads one slice per owner
  (`records.go:91`) and joins their edges, so an edge between owners is missing from
  `causal_edges` unless one path shows both its ends; `EdgesAreThoseOfPaths` says exactly that,
  and that `doc.go:20` speaks of "the slice's graph" in the singular is not taken to promise
  more. A client finds such an edge in the `caused_by` of the record. Nor is a listing a
  snapshot across paths, only of each of them.
* The ledger's environment is assumed not to record a clean failure of an intent that another
  dispatch has completed (`materialization_ledger.go:136`).
* The decoder's check for duplicate keys, and floats beyond fifteen digits.
* HTTP (methods, CORS, encodings, health), `cmd/traceui` and `testkit`: I/O around calls that
  are modelled.
* The type invariants of `RunTree`, `EffectBus`, the side tables and the canonical strings are
  definitions of their modules; that of the ledger is proved, and the bus's is part of
  `BusInv`.
