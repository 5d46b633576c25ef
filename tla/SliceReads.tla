----------------------------- MODULE SliceReads -----------------------------
(***************************************************************************)
(* One reader of the trace store, in the process of the writers or in a    *)
(* viewer's: ReadFact, ReadOwnerPrefix, ReadCausalClosure, ResolveFrontier *)
(* and ScanRecordsBySchema.                                                *)
(*                                                                         *)
(* Readers take no mutex and open no transaction.  Every action below is   *)
(* one query over what is committed at that moment, and the writers of     *)
(* TraceStore run between any two of them.  Each operation collects the    *)
(* entries it is about, and all but two of them then build a slice: load   *)
(* the entries, look up the parents that were not selected and the         *)
(* contexts, and walk the witnesses to the root.                           *)
(*                                                                         *)
(* A request is [op, auth, ...] with auth [visibility_profile,             *)
(* presented_authority_refs] and, where the operation has them, fact_id,   *)
(* owner ("" for every path), through, roots, policy, frontier_id,         *)
(* schema_refs and mode_filter.                                            *)
(***************************************************************************)
EXTENDS TraceStore, SequencesExt, Subsequences

CONSTANTS
    Requests,       \* what the reader may ask
    PathOrder       \* the paths in the order SQLite sorts their names

ASSUME PathOrderAssumption ==
    /\ PathOrder \in Seq(Paths)
    /\ IsInjective(PathOrder)
    /\ Range(PathOrder) = Paths

ASSUME RequestsAssumption ==
    \A r \in Requests :
      /\ r.op \in {"fact", "scan", "prefix", "closure", "frontier"}
      /\ r.op = "closure" => r.roots \in Seq(Range(r.roots))

VARIABLES
    rpc,        \* where the read is; "idle" if there is none
    req,        \* the request
    gone,       \* whether the reader's context has ended
    pending,    \* the facts a closure has still to visit, in order
    seen,       \* the facts it has visited
    todo,       \* the entries or lookups of the slice that are still to be queried
    loaded,     \* the entries it has loaded and selected
    built,      \* the anchors, contexts and witnesses looked up so far
    asOf,       \* the paths' lengths when the entries were queried
    answer      \* what the last read returned

readerScratch == <<req, gone, pending, seen, todo, loaded, built, asOf>>
readerVars    == <<rpc, readerScratch, answer>>
allVars       == <<vars, readerVars>>

NoRequest == [op |-> "none"]
NoAnswer  == [status |-> "none"]
Nothing   == [external_anchors |-> << >>, contexts |-> {}, context_anchors |-> << >>,
              witnesses |-> << >>]

ReaderInit ==
    /\ rpc = "idle"
    /\ req = NoRequest
    /\ gone = FALSE
    /\ pending = << >>
    /\ seen = {}
    /\ todo = {}
    /\ loaded = << >>
    /\ built = Nothing
    /\ asOf = db.next
    /\ answer = NoAnswer

-----------------------------------------------------------------------------
(***************************************************************************)
(* The guards of the public methods.                                       *)
(***************************************************************************)
VisibilityProfiles == {"shape_only", "payload", "full_internal"}
ModeFilters        == {"both", "declarations_only", "captures_only"}

ensureReadAuthorized(auth) ==
    /\ auth.visibility_profile \in VisibilityProfiles
    /\ auth.visibility_profile = "full_internal" =>
         "trusted:internal" \in auth.presented_authority_refs

\* The scan by schema is the recovery's own: it takes no read context.
RequestAccepted(r) ==
    /\ r.op # "scan" => ensureReadAuthorized(r.auth)
    /\ r.op \in {"prefix", "closure", "frontier"} => r.mode_filter \in ModeFilters
    /\ r.op = "closure" => r.policy \in {"visible_only", "include_external_anchors"}

modeMatches(row, filter) ==
    CASE filter = "declarations_only" -> row.mode = Declaration
      [] filter = "captures_only"     -> row.mode = Capture
      [] OTHER                        -> TRUE

-----------------------------------------------------------------------------
(***************************************************************************)
(* Queries: ORDER BY path_ref, path_ordinal.                               *)
(***************************************************************************)
PathRank(path) == CHOOSE n \in DOMAIN PathOrder : PathOrder[n] = path

EntryBefore(e, f) ==
    \/ PathRank(e.path_ref) < PathRank(f.path_ref)
    \/ e.path_ref = f.path_ref /\ e.path_ordinal < f.path_ordinal

First(rows) == CHOOSE e \in rows : \A f \in rows : f = e \/ EntryBefore(e, f)

PlacesOf(t, id) == {e \in t.paths : e.record_id = id}

\* readFact and canonicalFactOrder take the first of a record's entries.
FirstEntry(t, id) == First(PlacesOf(t, id))

PrefixRows_Exclusive(t, owner, through) ==
    {e \in t.paths : (owner = "" \/ e.path_ref = owner) /\ e.path_ordinal < through}

PrefixRows(t, owner, through) ==
    {e \in t.paths : (owner = "" \/ e.path_ref = owner) /\ e.path_ordinal <= through}

canonicalFactOrder(t, ids) == {FirstEntry(t, id) : id \in ids}

\* A record without entries is on no path, and the join finds nothing.
FactIsThere(t, id) == id \in DOMAIN t.records /\ PlacesOf(t, id) # {}

-----------------------------------------------------------------------------
(***************************************************************************)
(* Starting and ending a read.                                             *)
(***************************************************************************)
FirstQuery(r) ==
    CASE r.op = "fact"     -> "fact"
      [] r.op = "scan"     -> "scan"
      [] r.op = "prefix"   -> "entries"
      [] r.op = "closure"  -> "visit"
      [] r.op = "frontier" -> "cutoff"

StartRead(r) ==
    /\ rpc = "idle"
    /\ RequestAccepted(r)
    /\ req' = r
    /\ rpc' = FirstQuery(r)
    /\ pending' = IF r.op = "closure" THEN r.roots ELSE << >>
    /\ answer' = NoAnswer
    /\ UNCHANGED <<gone, seen, todo, loaded, built, asOf>>

Answer(a) ==
    /\ answer' = [f \in DOMAIN a \cup {"req"} |-> IF f = "req" THEN req ELSE a[f]]
    /\ rpc' = "idle"
    /\ req' = NoRequest
    /\ gone' = FALSE
    /\ pending' = << >>
    /\ seen' = {}
    /\ todo' = {}
    /\ loaded' = << >>
    /\ built' = Nothing
    /\ asOf' = EmptyTables.next

RefuseRead(r) ==
    /\ rpc = "idle"
    /\ ~RequestAccepted(r)
    /\ answer' = [status |-> "refused", req |-> r]
    /\ UNCHANGED <<rpc, readerScratch>>

\* The reader's context ends; its next query fails.
ReaderGone ==
    /\ rpc # "idle"
    /\ ~gone
    /\ gone' = TRUE
    /\ UNCHANGED <<rpc, req, pending, seen, todo, loaded, built, asOf, answer>>

-----------------------------------------------------------------------------
(***************************************************************************)
(* The two reads of one query.                                             *)
(***************************************************************************)
RetainedFact(e) == [entry |-> e, row |-> db.records[e.record_id]]

ReadOneFact ==
    /\ rpc = "fact"
    /\ \/ gone /\ Answer([status |-> "error"])
       \/ ~gone /\ ~FactIsThere(db, req.fact_id) /\ Answer([status |-> "unknown_fact"])
       \/ /\ ~gone
          /\ FactIsThere(db, req.fact_id)
          /\ Answer([status |-> "ok", fact |-> RetainedFact(FirstEntry(db, req.fact_id))])

ScanSchemas ==
    /\ rpc = "scan"
    /\ \/ gone /\ Answer([status |-> "error"])
       \/ /\ ~gone
          /\ LET rows == SetToSortSeq({e \in db.paths :
                           db.records[e.record_id].schema_ref \in req.schema_refs},
                                    EntryBefore)
             IN  Answer([status |-> "ok",
                         scanned |-> [k \in DOMAIN rows |->
                           [record_id |-> rows[k].record_id, owner_id |-> rows[k].path_ref]]])

-----------------------------------------------------------------------------
(***************************************************************************)
(* Collecting the entries of a slice.                                      *)
(***************************************************************************)
\* The breadth-first walk of a closure, one fact per query.
SkipVisited_NotDropped ==
    /\ rpc = "visit"
    /\ pending # << >>
    /\ Head(pending) \in seen
    /\ UNCHANGED readerVars

SkipVisited ==
    /\ rpc = "visit"
    /\ pending # << >>
    /\ Head(pending) \in seen
    /\ pending' = Tail(pending)
    /\ UNCHANGED <<rpc, req, gone, seen, todo, loaded, built, asOf, answer>>

\* The parents that were not visited yet, in the order the fact names them.
NewParents(id) ==
    LET causes == db.records[id].caused_by
    IN  ElementsAt(causes, {i \in DOMAIN causes : causes[i] \notin seen \cup {id}})

VisitFact ==
    /\ rpc = "visit"
    /\ pending # << >>
    /\ Head(pending) \notin seen
    /\ ~gone
    /\ FactIsThere(db, Head(pending))
    /\ seen' = seen \cup {Head(pending)}
    /\ pending' = Tail(pending) \o NewParents(Head(pending))
    /\ UNCHANGED <<rpc, req, gone, todo, loaded, built, asOf, answer>>

VisitFails ==
    /\ rpc = "visit"
    /\ pending # << >>
    /\ Head(pending) \notin seen
    /\ \/ gone /\ Answer([status |-> "error"])
       \/ ~gone /\ ~FactIsThere(db, Head(pending)) /\ Answer([status |-> "unknown_fact"])

\* A closure whose query fails goes on with no entries.
OrderClosure ==
    /\ rpc = "visit"
    /\ pending = << >>
    /\ todo' = IF gone THEN {} ELSE canonicalFactOrder(db, seen)
    /\ asOf' = db.next
    /\ rpc' = "load"
    /\ UNCHANGED <<req, gone, pending, seen, loaded, built, answer>>

\* Or its context ends while the rows are read: rows.Next stops before some row, and
\* nobody asks rows.Err why.
OrderClosureCut ==
    /\ rpc = "visit"
    /\ pending = << >>
    /\ ~gone
    /\ gone' = TRUE
    /\ \E e \in canonicalFactOrder(db, seen) :
         todo' = {f \in canonicalFactOrder(db, seen) : EntryBefore(f, e)}
    /\ asOf' = db.next
    /\ rpc' = "load"
    /\ UNCHANGED <<req, pending, seen, loaded, built, answer>>

\* A frontier is found by its row, which its retained fact must confirm.
ReadCutoff ==
    /\ rpc = "cutoff"
    /\ \/ gone /\ Answer([status |-> "error"])
       \/ /\ ~gone
          /\ req.frontier_id \notin DOMAIN db.frontiers
          /\ Answer([status |-> "unknown_frontier"])
       \/ /\ ~gone
          /\ req.frontier_id \in DOMAIN db.frontiers
          /\ rpc' = "confirm"
          /\ UNCHANGED <<readerScratch, answer>>

Cutoff == db.frontiers[req.frontier_id]

CutoffConfirmed ==
    /\ FactIsThere(db, Cutoff.created_by_fact_id)
    /\ LET payload == db.records[Cutoff.created_by_fact_id].body
       IN  /\ payload.frontier_id = req.frontier_id
           /\ payload.target_trace_owner_id = Cutoff.target_trace_owner_id
           /\ payload.through_fact_id = Cutoff.through_fact_id
           /\ payload.through_owner_ordinal = Cutoff.through_owner_ordinal

ThroughIsThere ==
    \E e \in PlacesOf(db, Cutoff.through_fact_id) :
      /\ e.path_ref = Cutoff.target_trace_owner_id
      /\ e.path_ordinal = Cutoff.through_owner_ordinal

CheckCutoff ==
    /\ \/ rpc = "confirm" /\ rpc' = "through"
       \/ rpc = "through" /\ rpc' = "entries"
    /\ ~gone
    /\ IF rpc = "confirm" THEN CutoffConfirmed ELSE ThroughIsThere
    /\ UNCHANGED <<readerScratch, answer>>

CheckCutoffFails ==
    /\ rpc \in {"confirm", "through"}
    /\ gone \/ ~(IF rpc = "confirm" THEN CutoffConfirmed ELSE ThroughIsThere)
    /\ Answer([status |-> "error"])

EntryRows_WholePath ==
    IF req.op = "frontier" THEN PrefixRows(db, Cutoff.target_trace_owner_id, Cardinality(db.paths))
    ELSE PrefixRows(db, req.owner, req.through)

EntryRows ==
    IF req.op = "frontier"
    THEN PrefixRows(db, Cutoff.target_trace_owner_id, Cutoff.through_owner_ordinal)
    ELSE PrefixRows(db, req.owner, req.through)

QueryEntries ==
    /\ rpc = "entries"
    /\ ~gone
    /\ todo' = EntryRows
    /\ asOf' = db.next
    /\ rpc' = "load"
    /\ UNCHANGED <<req, gone, pending, seen, loaded, built, answer>>

\* The same omission: a read that is cut short goes on with the rows it has.
QueryEntriesCut ==
    /\ rpc = "entries"
    /\ ~gone
    /\ gone' = TRUE
    /\ \E e \in EntryRows : todo' = {f \in EntryRows : EntryBefore(f, e)}
    /\ asOf' = db.next
    /\ rpc' = "load"
    /\ UNCHANGED <<req, pending, seen, loaded, built, answer>>

QueryEntriesFails ==
    /\ rpc = "entries"
    /\ gone
    /\ Answer([status |-> "error"])

-----------------------------------------------------------------------------
(***************************************************************************)
(* buildSlice.  First the entries, one query each.                         *)
(***************************************************************************)
LoadEntry ==
    /\ rpc = "load"
    /\ todo # {}
    /\ ~gone
    /\ loaded' = IF modeMatches(db.records[First(todo).record_id], req.mode_filter)
                 THEN Append(loaded, First(todo)) ELSE loaded
    /\ todo' = todo \ {First(todo)}
    /\ UNCHANGED <<rpc, req, gone, pending, seen, built, asOf, answer>>

LoadEntryFails ==
    /\ rpc = "load"
    /\ todo # {}
    /\ gone
    /\ Answer([status |-> "error"])

Selected == {loaded[k].record_id : k \in DOMAIN loaded}

CausesOf(e) == db.records[e.record_id].caused_by

IncludeAnchors_Always == TRUE
IncludeAnchors == req.op = "closure" => req.policy = "include_external_anchors"

(***************************************************************************)
(* What the loaded entries still need: place <<k, i>> is the i-th parent   *)
(* of entry k, which is not selected, and behind its parents its context.  *)
(***************************************************************************)
LookupsOf(e) ==
    {i \in DOMAIN CausesOf(e) : IncludeAnchors /\ CausesOf(e)[i] \notin Selected}
      \cup (IF e.context_ref = << >> THEN {} ELSE {Len(CausesOf(e)) + 1})

Lookups == UNION {{k} \X LookupsOf(loaded[k]) : k \in DOMAIN loaded}

PlaceBefore(p, q) == p[1] < q[1] \/ (p[1] = q[1] /\ p[2] < q[2])

NextLookup == CHOOSE p \in todo : \A q \in todo : q = p \/ PlaceBefore(p, q)

EndLoad ==
    /\ rpc = "load"
    /\ todo = {}
    /\ todo' = Lookups
    /\ rpc' = "lookup"
    /\ UNCHANGED <<req, gone, pending, seen, loaded, built, asOf, answer>>

\* A parent that cannot be read is shown without a shape.
anchorForFact(id) ==
    IF gone \/ ~FactIsThere(db, id)
    THEN [ref |-> id, hidden_reason |-> "unknown"]
    ELSE LET first == FirstEntry(db, id)
         IN  [ref |-> id, hidden_reason |-> "outside_frontier",
              visible_shape |->
                [kind_label |-> first.kind_label, trace_owner_id |-> first.path_ref,
                 owner_ordinal |-> first.path_ordinal,
                 schema_ref |-> db.records[id].schema_ref,
                 witness_ref |-> db.records[id].witness_ref]]

WithAnchor(id) ==
    IF \E k \in DOMAIN built.external_anchors : built.external_anchors[k].ref = id THEN built
    ELSE [built EXCEPT !.external_anchors = Append(@, anchorForFact(id))]

\* A context is shown by its id alone, or read, or left out if it cannot be read.
WithContext(id) ==
    IF req.auth.visibility_profile = "shape_only"
    THEN [built EXCEPT !.context_anchors = IF id \in Range(@) THEN @ ELSE Append(@, id)]
    ELSE IF gone \/ id \notin DOMAIN db.contexts THEN built
    ELSE [built EXCEPT !.contexts = @ \cup {id}]

LookUp ==
    /\ rpc = "lookup"
    /\ todo # {}
    /\ LET e == loaded[NextLookup[1]]
           i == NextLookup[2]
       IN  built' = IF i \in DOMAIN CausesOf(e) THEN WithAnchor(CausesOf(e)[i])
                    ELSE WithContext(e.context_ref)
    /\ todo' = todo \ {NextLookup}
    /\ UNCHANGED <<rpc, req, gone, pending, seen, loaded, asOf, answer>>

(***************************************************************************)
(* witnessSupportClosure: the chain of every loaded record, each witness   *)
(* read once, in the order they are met.                                   *)
(***************************************************************************)
WitnessOfEntry(e) == db.records[e.record_id].witness_ref

IsWitness(id) ==
    /\ FactIsThere(db, id)
    /\ \/ /\ db.records[id].schema_ref = RootWitnessSchemaRef
          /\ db.records[id].witness_ref = RootWitnessRef
       \/ /\ db.records[id].schema_ref = WitnessSchemaRef
          /\ db.records[id].witness_ref # RootWitnessRef

\* The link that the last witness read asks for, if any.
ChainLinks_NotFollowed == {}
ChainLinks ==
    LET met == Range(built.witnesses)
    IN  IF built.witnesses = << >> THEN {}
        ELSE LET last == Last(built.witnesses)
             IN  IF db.records[last].schema_ref = RootWitnessSchemaRef THEN {}
                 ELSE {db.records[last].witness_ref} \ met

\* The loaded records whose chain has not been started.
Unstarted ==
    {k \in DOMAIN loaded :
       /\ WitnessOfEntry(loaded[k]) # RootWitnessRef
       /\ WitnessOfEntry(loaded[k]) \notin Range(built.witnesses)}

NextWitness ==
    IF ChainLinks # {} THEN CHOOSE id \in ChainLinks : TRUE
    ELSE WitnessOfEntry(loaded[Min(Unstarted)])

AllWitnessed_OrGone == gone \/ (ChainLinks = {} /\ Unstarted = {})
AllWitnessed == ChainLinks = {} /\ Unstarted = {}

ReadWitness ==
    /\ rpc = "lookup"
    /\ todo = {}
    /\ ~AllWitnessed
    /\ ~gone
    /\ IsWitness(NextWitness)
    /\ built' = [built EXCEPT !.witnesses = Append(@, NextWitness)]
    /\ UNCHANGED <<rpc, req, gone, pending, seen, todo, loaded, asOf, answer>>

ReadWitnessFails ==
    /\ rpc = "lookup"
    /\ todo = {}
    /\ ~AllWitnessed
    /\ gone \/ ~IsWitness(NextWitness)
    /\ Answer([status |-> "error"])

-----------------------------------------------------------------------------
(***************************************************************************)
(* The slice that is returned.                                             *)
(***************************************************************************)
visibleFact(e, visibility) ==
    LET row == db.records[e.record_id]
    IN  IF visibility = "shape_only"
        THEN [entry |-> e, schema_ref |-> row.schema_ref, hidden_reason |-> "payload_hidden"]
        ELSE [entry |-> e, schema_ref |-> row.schema_ref, body |-> row.body]

\* FactsByID is keyed by id: the last of a record's loaded entries is the one shown.
LastLoaded(id) == loaded[Max({k \in DOMAIN loaded : loaded[k].record_id = id})]

CausalEdges ==
    {d \in Selected \X Selected : d[1] \in Range(db.records[d[2]].caused_by)}

ReturnSlice ==
    /\ rpc = "lookup"
    /\ todo = {}
    /\ AllWitnessed
    /\ Answer([status |-> "ok",
               as_of |-> asOf,
               path_facts |-> loaded,
               facts_by_id |-> [id \in Selected |->
                 visibleFact(LastLoaded(id), req.auth.visibility_profile)],
               causal_edges |-> CausalEdges,
               looked_up |-> built])

ReadStep ==
    \/ ReadOneFact \/ ScanSchemas
    \/ SkipVisited \/ VisitFact \/ VisitFails \/ OrderClosure \/ OrderClosureCut
    \/ ReadCutoff \/ CheckCutoff \/ CheckCutoffFails
    \/ QueryEntries \/ QueryEntriesCut \/ QueryEntriesFails
    \/ LoadEntry \/ LoadEntryFails \/ EndLoad
    \/ LookUp \/ ReadWitness \/ ReadWitnessFails \/ ReturnSlice

ReaderNext ==
    \/ \E r \in Requests : StartRead(r) \/ RefuseRead(r)
    \/ ReaderGone
    \/ ReadStep

ReadingInit == Init /\ ReaderInit

ReadingNext ==
    \/ Next /\ UNCHANGED readerVars
    \/ ReaderNext /\ UNCHANGED vars

ReadingSpec == ReadingInit /\ [][ReadingNext]_allVars

\* The reader's goroutine keeps running; nothing is asked of the writers.
FairReadingSpec == ReadingSpec /\ WF_allVars(ReadStep /\ UNCHANGED vars)
=============================================================================
