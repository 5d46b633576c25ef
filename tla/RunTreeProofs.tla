--------------------------- MODULE RunTreeProofs ---------------------------
(***************************************************************************)
(* A frontier that has an effective history has the same one for ever, for *)
(* any executions, batches and frontiers.                                  *)
(*                                                                         *)
(* What has to be known of the store is that a frontier's place lies       *)
(* within its target's path: then nothing that is appended later is in the *)
(* prefix a reader resolves, and a history, which is made of the prefixes  *)
(* of the root's frontier and of those its relations name, is made of the  *)
(* same prefixes afterwards.                                               *)
(***************************************************************************)
EXTENDS RunTreeLaws, SequenceLemmas

PathsAreSequences ==
    /\ DOMAIN path = Executions
    /\ \A e \in Executions : IsPath(path[e])

PlacesExist ==
    \A f \in DOMAIN frontiers :
      /\ frontiers[f].target \in Executions
      /\ frontiers[f].place \in DOMAIN path[frontiers[f].target]

CutIsACall == cut \in {NoCut} \cup TerminalCuts

TreeInv == PathsAreSequences /\ PlacesExist /\ CutIsACall

-----------------------------------------------------------------------------
\* The latest place of a fact on a path is a place of the path.
LEMMA LatestPlaceExists ==
    ASSUME NEW c, IsPath(path[c.target]), Places(c.through, c.target) # {}
    PROVE  LatestPlace(c) \in DOMAIN path[c.target]
<1> DEFINE S == Places(c.through, c.target)
           n == Len(path[c.target])
<1>1. n \in Nat /\ DOMAIN path[c.target] = 1 .. n
  BY DEF IsPath
<1>2. S \in SUBSET (1 .. n) /\ S # {}
  BY <1>1 DEF Places
<1> HIDE DEF S, n
<1>3. \E m \in S : \A k \in S : m >= k
  BY <1>1, <1>2, GreatestExists
<1>4. Max(S) \in S
  BY <1>3 DEF Max
<1> QED
  BY <1>1, <1>2, <1>4 DEF LatestPlace, S
-----------------------------------------------------------------------------
\* The paths and the index as they are after a step, from where they were.
StoreGrows ==
    /\ DOMAIN path' = Executions
    /\ \A e \in Executions : Continues(path[e], path'[e])
    /\ \A f \in DOMAIN frontiers : f \in DOMAIN frontiers' /\ frontiers'[f] = frontiers[f]
    /\ \A f \in DOMAIN frontiers' \ DOMAIN frontiers :
         /\ frontiers'[f].target \in Executions
         /\ frontiers'[f].place \in DOMAIN path[frontiers'[f].target]

\* A store that stays as it is grows by nothing.
LEMMA UnchangedStoreGrows ==
    ASSUME TreeInv, path' = path, frontiers' = frontiers
    PROVE  StoreGrows
  BY SameContinues DEF StoreGrows, TreeInv, PathsAreSequences

\* A frontier appends one fact and names a place that is there.
LEMMA PublishGrows ==
    ASSUME TreeInv, NEW c \in Cuts \cup TerminalCuts, Publish(c)
    PROVE  StoreGrows
<1>1. c.target \in Executions /\ c.publisher \in Executions
  BY CallsAssumption
<1>2. CASE c.frontier_id \in DOMAIN frontiers \/ Places(c.through, c.target) = {}
  <2>1. path' = path /\ frontiers' = frontiers
    BY <1>2 DEF Publish
  <2> QED
    BY <2>1, UnchangedStoreGrows
<1>3. CASE ~(c.frontier_id \in DOMAIN frontiers \/ Places(c.through, c.target) = {})
  <2> DEFINE new == [target |-> c.target, through |-> c.through, place |-> LatestPlace(c)]
  <2>1. /\ frontiers' = [f \in DOMAIN frontiers \cup {c.frontier_id} |->
                           IF f = c.frontier_id THEN new ELSE frontiers[f]]
        /\ path' = [path EXCEPT ![c.publisher] = Append(@, FrontierFact(c))]
    BY <1>3 DEF Publish
  <2>2. LatestPlace(c) \in DOMAIN path[c.target]
    BY <1>1, <1>3, LatestPlaceExists DEF TreeInv, PathsAreSequences
  <2>3. new.target \in Executions /\ new.place \in DOMAIN path[new.target]
    BY <1>1, <2>2
  <2> HIDE DEF new
  <2>4. ASSUME NEW e \in Executions PROVE Continues(path[e], path'[e])
    <3>1. IsPath(path[e])
      BY DEF TreeInv, PathsAreSequences
    <3>2. path'[e] = IF e = c.publisher THEN Append(path[e], FrontierFact(c)) ELSE path[e]
      BY <2>1 DEF TreeInv, PathsAreSequences
    <3> QED
      BY <3>1, <3>2, AppendContinues, SameContinues
  <2>5. DOMAIN path' = Executions
    BY <2>1 DEF TreeInv, PathsAreSequences
  <2>6. \A f \in DOMAIN frontiers : f \in DOMAIN frontiers' /\ frontiers'[f] = frontiers[f]
    BY <1>3, <2>1
  <2>7. \A f \in DOMAIN frontiers' \ DOMAIN frontiers : frontiers'[f] = new
    BY <2>1
  <2> QED
    BY <2>3, <2>4, <2>5, <2>6, <2>7 DEF StoreGrows
<1> QED
  BY <1>2, <1>3

\* A batch is appended behind what its owner's path holds.
LEMMA AppendGrows ==
    ASSUME TreeInv, NEW b \in Batches, AppendBatch(b)
    PROVE  StoreGrows
<1>1. b.trace_owner_id \in Executions /\ IsPath(b.drafts)
  BY CallsAssumption DEF IsPath
<1>2. path' = [path EXCEPT ![b.trace_owner_id] = @ \o b.drafts] /\ frontiers' = frontiers
  BY DEF AppendBatch
<1>3. ASSUME NEW e \in Executions PROVE Continues(path[e], path'[e])
  <2>1. IsPath(path[e])
    BY DEF TreeInv, PathsAreSequences
  <2>2. path'[e] = IF e = b.trace_owner_id THEN path[e] \o b.drafts ELSE path[e]
    BY <1>2 DEF TreeInv, PathsAreSequences
  <2> QED
    BY <1>1, <2>1, <2>2, ConcatContinues, SameContinues
<1>4. DOMAIN path' = Executions
  BY <1>2 DEF TreeInv, PathsAreSequences
<1> QED
  BY <1>2, <1>3, <1>4 DEF StoreGrows

\* Every step of the store and of the reader lets the store grow.
LEMMA NextGrows ==
    ASSUME TreeInv, [Next]_vars
    PROVE  StoreGrows /\ CutIsACall'
<1>0. CutIsACall
  BY DEF TreeInv
<1>1. CASE \E b \in Batches : AppendBatch(b)
  BY <1>0, <1>1, AppendGrows DEF AppendBatch, CutIsACall
<1>2. CASE \E c \in Cuts : PublishFrontier(c)
  BY <1>0, <1>2, PublishGrows DEF PublishFrontier, CutIsACall
<1>3. CASE \E c \in TerminalCuts : PublishExecutionFrontier(c)
  BY <1>3, UnchangedStoreGrows DEF PublishExecutionFrontier, CutIsACall, storeVars
<1>4. CASE PublishTerminalFrontier
  <2>1. cut \in TerminalCuts /\ Publish(cut) /\ cut' = NoCut
    BY <1>0, <1>4 DEF PublishTerminalFrontier, CutIsACall
  <2> QED
    BY <2>1, PublishGrows DEF CutIsACall
<1>5. CASE UNCHANGED <<storeVars, cut>>
  BY <1>0, <1>5, UnchangedStoreGrows DEF storeVars, CutIsACall
<1>6. CASE ReaderStep \/ (\E f \in FrontierIds, v \in {"payload", "shape_only"} : StartHistory(f, v))
           \/ UNCHANGED vars
  BY <1>5, <1>6 DEF ReaderStep, StartHistory, ReadCutoff, UnknownFrontier, ReadEntries, RefuseRoot,
                     Project, Return, vars
<1> QED
  BY <1>1, <1>2, <1>3, <1>4, <1>6 DEF Next

\* The invariant is kept: no place is lost.
LEMMA GrowingKeepsTreeInv ==
    ASSUME TreeInv, StoreGrows, CutIsACall'
    PROVE  TreeInv'
<1>1. PathsAreSequences'
  BY DEF StoreGrows, PathsAreSequences, Continues
<1>2. ASSUME NEW e \in Executions, NEW n \in DOMAIN path[e] PROVE n \in DOMAIN path'[e]
  <2>1. IsPath(path[e]) /\ Continues(path[e], path'[e])
    BY DEF StoreGrows, TreeInv, PathsAreSequences
  <2> QED
    BY <2>1, PrefixKept, Zenon
<1>3. ASSUME NEW f \in DOMAIN frontiers'
      PROVE  /\ frontiers'[f].target \in Executions
             /\ frontiers'[f].place \in DOMAIN path[frontiers'[f].target]
  BY DEF StoreGrows, TreeInv, PlacesExist
<1>4. PlacesExist'
  BY <1>2, <1>3 DEF PlacesExist
<1> QED
  BY <1>1, <1>4 DEF TreeInv

\* What a reader resolves for a frontier is the same afterwards.
LEMMA ResolvedKept ==
    ASSUME TreeInv, StoreGrows, NEW f \in DOMAIN frontiers
    PROVE  f \in DOMAIN frontiers' /\ Resolved(path', frontiers', f) = Resolved(path, frontiers, f)
<1> DEFINE r == frontiers[f]
<1>1. r.target \in Executions /\ r.place \in DOMAIN path[r.target]
  BY DEF TreeInv, PlacesExist
<1>2. f \in DOMAIN frontiers' /\ frontiers'[f] = r
  BY DEF StoreGrows
<1>3. IsPath(path[r.target]) /\ Continues(path[r.target], path'[r.target])
  BY <1>1 DEF StoreGrows, TreeInv, PathsAreSequences
<1> HIDE DEF r
<1>4. Prefix(path', r) = Prefix(path, r)
  <2> DEFINE s == path[r.target]
             t == path'[r.target]
             n == r.place
  <2>1. IsPath(s) /\ Continues(s, t) /\ n \in DOMAIN s
    BY <1>1, <1>3
  <2> HIDE DEF s, t, n
  <2>2. SubSeq(t, 1, n) = SubSeq(s, 1, n)
    BY <2>1, PrefixKept
  <2> QED
    BY <2>2 DEF Prefix, s, t, n
<1>5. /\ Resolved(path', frontiers', f) = SliceOf(path', f, r, "payload")
      /\ Resolved(path, frontiers, f) = SliceOf(path, f, r, "payload")
  BY <1>2 DEF Resolved, r
<1>6. SliceOf(path', f, r, "payload") = SliceOf(path, f, r, "payload")
  BY <1>4, Zenon DEF SliceOf
<1> QED
  BY <1>2, <1>5, <1>6

\* A history is a function of the slices it is made of.
LEMMA HistoryKept ==
    ASSUME TreeInv, StoreGrows, NEW f, HistoryOf(f).ok
    PROVE  HistoryIn(path', frontiers', f) = HistoryOf(f)
<1> DEFINE root   == Resolved(path, frontiers, f)
           linked == ChildFrontiers(root)
           before == [k \in DOMAIN linked |-> Resolved(path, frontiers, linked[k])]
           after  == [k \in DOMAIN linked |-> Resolved(path', frontiers', linked[k])]
<1>0. ~NoHistory.ok
  BY DEF NoHistory
<1>1. f \in DOMAIN frontiers
  BY <1>0 DEF HistoryOf, HistoryIn
<1>2. HistoryOf(f) = IF Range(linked) \subseteq DOMAIN frontiers
                     THEN ProjectEffectiveHistory(root, root.target, before) ELSE NoHistory
  BY <1>1 DEF HistoryOf, HistoryIn
<1>3. Range(linked) \subseteq DOMAIN frontiers
  BY <1>0, <1>2
<1>4. HistoryOf(f) = ProjectEffectiveHistory(root, root.target, before)
  BY <1>2, <1>3
<1>5. f \in DOMAIN frontiers' /\ Resolved(path', frontiers', f) = root
  BY <1>1, ResolvedKept
<1>6. ASSUME NEW k \in DOMAIN linked
      PROVE  linked[k] \in DOMAIN frontiers' /\ Resolved(path', frontiers', linked[k]) = Resolved(path, frontiers, linked[k])
  <2>1. linked[k] \in DOMAIN frontiers
    BY <1>3 DEF Range
  <2> QED
    BY <2>1, ResolvedKept
<1>7. Range(linked) \subseteq DOMAIN frontiers'
  BY <1>6 DEF Range
<1>8. HistoryIn(path', frontiers', f) =
        IF Range(linked) \subseteq DOMAIN frontiers'
        THEN ProjectEffectiveHistory(root, root.target, after) ELSE NoHistory
  BY <1>5 DEF HistoryIn
<1>9. after = before
  BY <1>6
<1> HIDE DEF root, linked, before, after
<1> QED
  BY <1>4, <1>7, <1>8, <1>9

\* An empty database has no frontier.
LEMMA InitTreeInv == Init => TreeInv
<1>1. IsPath(<< >>)
  BY DEF IsPath
<1> QED
  BY <1>1 DEF Init, TreeInv, PathsAreSequences, PlacesExist, CutIsACall

\* Law 22 of docs/law-coverage.md for run trees: for any executions, batches and
\* frontiers, and whatever is appended, abandoned or cut later, a frontier that once had
\* an effective history has that history for ever.
THEOREM HistoriesStayTheSame == Spec => HistoriesNeverChange
<1>1. TreeInv /\ [Next]_vars => TreeInv'
  BY NextGrows, GrowingKeepsTreeInv
<1>2. TreeInv /\ [Next]_vars =>
        [UNCHANGED storeVars \/ \A f \in FrontierIds :
           HistoryOf(f).ok => HistoryIn(path', frontiers', f) = HistoryOf(f)]_storeVars
  BY NextGrows, HistoryKept
<1> QED
  BY <1>1, <1>2, InitTreeInv, PTL DEF Spec, HistoriesNeverChange

-----------------------------------------------------------------------------
(***************************************************************************)
(* What the fold of an owner path comes to.  The closed form solves the    *)
(* equation that the fold is defined by, and by induction on the number of *)
(* facts nothing else does.                                                *)
(***************************************************************************)
Life == {"created", "started", "completed", "failed"}

LastIn(facts, n, schemas, owner) ==
    LET own == {k \in 1 .. n : facts[k].schema \in schemas /\ SaysOf(facts[k], owner)}
    IN  IF own = {} THEN NoFact ELSE facts[Max(own)]

Told(facts, n, owner) ==
    [execution_id |-> owner,
     status |-> StatusAfter[LastIn(facts, n, Life, owner).schema],
     created |-> LastIn(facts, n, {"created"}, owner),
     started |-> LastIn(facts, n, {"started"}, owner),
     terminal |-> LastIn(facts, n, {"completed", "failed"}, owner)]

\* One more fact is the last, or none.
LEMMA LastStepwise ==
    ASSUME NEW facts, NEW schemas, NEW owner
    PROVE  /\ LastIn(facts, 0, schemas, owner) = NoFact
           /\ \A n \in Nat : LastIn(facts, n + 1, schemas, owner) =
                IF facts[n + 1].schema \in schemas /\ SaysOf(facts[n + 1], owner)
                THEN facts[n + 1] ELSE LastIn(facts, n, schemas, owner)
<1> DEFINE own(n) == {k \in 1 .. n : facts[k].schema \in schemas /\ SaysOf(facts[k], owner)}
<1>1. \A n : LastIn(facts, n, schemas, owner) = IF own(n) = {} THEN NoFact ELSE facts[Max(own(n))]
  BY DEF LastIn
<1>2. own(0) = {}
  OBVIOUS
<1>3. ASSUME NEW n \in Nat
      PROVE  LastIn(facts, n + 1, schemas, owner) =
                IF facts[n + 1].schema \in schemas /\ SaysOf(facts[n + 1], owner)
                THEN facts[n + 1] ELSE LastIn(facts, n, schemas, owner)
  <2>1. 1 .. n + 1 = (1 .. n) \cup {n + 1}
    OBVIOUS
  <2>2. CASE facts[n + 1].schema \in schemas /\ SaysOf(facts[n + 1], owner)
    <3>1. n + 1 \in own(n + 1) /\ \A k \in own(n + 1) : k \in Nat /\ n + 1 >= k
      BY <2>1, <2>2
    <3> HIDE DEF own
    <3>2. Max(own(n + 1)) = n + 1
      <4> DEFINE m == Max(own(n + 1))
      <4>1. m \in own(n + 1) /\ \A y \in own(n + 1) : m >= y
        BY <3>1 DEF Max
      <4> HIDE DEF m
      <4>2. m \in Nat /\ m >= n + 1 /\ n + 1 >= m
        BY <3>1, <4>1
      <4>3. m = n + 1
        BY <4>2
      <4> QED
        BY <4>3 DEF m
    <3> QED
      BY <1>1, <2>2, <3>1, <3>2
  <2>3. CASE ~(facts[n + 1].schema \in schemas /\ SaysOf(facts[n + 1], owner))
    <3>1. own(n + 1) = own(n)
      BY <2>1, <2>3
    <3> QED
      BY <1>1, <2>3, <3>1
  <2> QED
    BY <2>2, <2>3
<1> HIDE DEF own
<1> QED
  BY <1>1, <1>2, <1>3

\* What a fact does to the projection.
Record(o, st, c, s, t) ==
    [execution_id |-> o, status |-> st, created |-> c, started |-> s, terminal |-> t]

AfterCreated(exec, fact) == [exec EXCEPT !.created = fact, !.status = "pending"]
AfterStarted(exec, fact) == [exec EXCEPT !.started = fact, !.status = "running"]
AfterTerminal(exec, fact, status) == [exec EXCEPT !.terminal = fact, !.status = status]

\* The cases of the fold.
LEMMA FoldCases ==
    ASSUME NEW owner, NEW exec, NEW fact
    PROVE  LET new == FoldFact(owner, exec, fact)
               s   == fact.schema
           IN  /\ Skipped(fact, owner) => new = exec
               /\ ~Skipped(fact, owner) =>
                    /\ s = "created" => new = AfterCreated(exec, fact)
                    /\ s = "started" => new = AfterStarted(exec, fact)
                    /\ s = "completed" => new = AfterTerminal(exec, fact, "succeeded")
                    /\ s = "failed" => new = AfterTerminal(exec, fact, "failed")
                    /\ s \notin Life => new = exec
<1>1. FoldFact(owner, exec, fact) =
        IF Skipped(fact, owner) THEN exec ELSE
        CASE fact.schema = "created"    -> AfterCreated(exec, fact)
          [] fact.schema = "started"    -> AfterStarted(exec, fact)
          [] fact.schema = "completed"  -> AfterTerminal(exec, fact, "succeeded")
          [] fact.schema = "failed"     -> AfterTerminal(exec, fact, "failed")
          [] OTHER                      -> exec
  BY Zenon DEF FoldFact, AfterCreated, AfterStarted, AfterTerminal
<1> DEFINE c == AfterCreated(exec, fact)
           s == AfterStarted(exec, fact)
           v == AfterTerminal(exec, fact, "succeeded")
           x == AfterTerminal(exec, fact, "failed")
<1> HIDE DEF c, s, v, x
<1>2. FoldFact(owner, exec, fact) =
        IF Skipped(fact, owner) THEN exec ELSE
        CASE fact.schema = "created"    -> c
          [] fact.schema = "started"    -> s
          [] fact.schema = "completed"  -> v
          [] fact.schema = "failed"     -> x
          [] OTHER                      -> exec
  BY <1>1, Zenon DEF c, s, v, x
<1>3. LET new == FoldFact(owner, exec, fact)
          sch == fact.schema
      IN  /\ Skipped(fact, owner) => new = exec
          /\ ~Skipped(fact, owner) =>
               /\ sch = "created" => new = c
               /\ sch = "started" => new = s
               /\ sch = "completed" => new = v
               /\ sch = "failed" => new = x
               /\ sch \notin Life => new = exec
  BY <1>2 DEF Life
<1> QED
  BY <1>3, Zenon DEF c, s, v, x

\* What they come to.
WithStatus(exec, v) == [exec EXCEPT !.status = v]

LEMMA RecordUpdates ==
    ASSUME NEW o, NEW st, NEW c, NEW s, NEW t, NEW v, NEW x
    PROVE  /\ AfterCreated(Record(o, st, c, s, t), x) = Record(o, "pending", x, s, t)
           /\ AfterStarted(Record(o, st, c, s, t), x) = Record(o, "running", c, x, t)
           /\ AfterTerminal(Record(o, st, c, s, t), x, v) = Record(o, v, c, s, x)
<1> DEFINE r == Record(o, st, c, s, t)
<1>1. /\ [r EXCEPT !.created = x] = Record(o, st, x, s, t)
      /\ [r EXCEPT !.started = x] = Record(o, st, c, x, t)
      /\ [r EXCEPT !.terminal = x] = Record(o, st, c, s, x)
  BY DEF Record
<1>2. ASSUME NEW c1, NEW s1, NEW t1, NEW v1
      PROVE  WithStatus(Record(o, st, c1, s1, t1), v1) = Record(o, v1, c1, s1, t1)
  BY DEF Record, WithStatus
<1> HIDE DEF r
<1>3. /\ AfterCreated(r, x) = WithStatus([r EXCEPT !.created = x], "pending")
      /\ AfterStarted(r, x) = WithStatus([r EXCEPT !.started = x], "running")
      /\ AfterTerminal(r, x, v) = WithStatus([r EXCEPT !.terminal = x], v)
  BY DEF AfterCreated, AfterStarted, AfterTerminal, WithStatus
<1>4. /\ AfterCreated(r, x) = WithStatus(Record(o, st, x, s, t), "pending")
      /\ AfterStarted(r, x) = WithStatus(Record(o, st, c, x, t), "running")
      /\ AfterTerminal(r, x, v) = WithStatus(Record(o, st, c, s, x), v)
  BY <1>1, <1>3, Zenon
<1>5. /\ AfterCreated(r, x) = Record(o, "pending", x, s, t)
      /\ AfterStarted(r, x) = Record(o, "running", c, x, t)
      /\ AfterTerminal(r, x, v) = Record(o, v, c, s, x)
  BY <1>2, <1>4
<1> QED
  BY <1>5, Zenon DEF r

\* The closed form solves the equation of the fold.
LEMMA ToldStepwise ==
    ASSUME NEW facts, NEW owner
    PROVE  /\ Told(facts, 0, owner) = NewExecution(owner)
           /\ \A n \in Nat : Told(facts, n + 1, owner) = FoldFact(owner, Told(facts, n, owner), facts[n + 1])
<1>0. /\ NoFact.schema = ""
      /\ StatusAfter[""] = "pending" /\ StatusAfter["created"] = "pending"
      /\ StatusAfter["started"] = "running" /\ StatusAfter["completed"] = "succeeded"
      /\ StatusAfter["failed"] = "failed"
  BY DEF NoFact, StatusAfter
<1>1. Told(facts, 0, owner) = NewExecution(owner)
  BY <1>0, LastStepwise DEF Told, NewExecution
<1>2. ASSUME NEW n \in Nat
      PROVE  Told(facts, n + 1, owner) = FoldFact(owner, Told(facts, n, owner), facts[n + 1])
  <2> DEFINE fact == facts[n + 1]
             s == fact.schema
             last(schemas) == LastIn(facts, n, schemas, owner)
             next(schemas) == LastIn(facts, n + 1, schemas, owner)
             old == Told(facts, n, owner)
             new == Told(facts, n + 1, owner)
  <2>1. \A schemas : next(schemas) = IF s \in schemas /\ SaysOf(fact, owner) THEN fact ELSE last(schemas)
    BY LastStepwise
  <2>2. old = Record(owner, StatusAfter[last(Life).schema], last({"created"}), last({"started"}),
                    last({"completed", "failed"}))
    BY DEF Told, Record
  <2>3. new = Record(owner, StatusAfter[next(Life).schema], next({"created"}), next({"started"}),
                    next({"completed", "failed"}))
    BY DEF Told, Record
  <2>4. Skipped(fact, owner) <=> ~SaysOf(fact, owner)
    BY DEF Skipped, SaysOf
  <2> HIDE DEF last, next, old, new
  <2>10. /\ AfterCreated(old, fact) = Record(owner, "pending", fact, last({"started"}), last({"completed", "failed"}))
         /\ AfterStarted(old, fact) = Record(owner, "running", last({"created"}), fact, last({"completed", "failed"}))
         /\ \A v : AfterTerminal(old, fact, v) = Record(owner, v, last({"created"}), last({"started"}), fact)
    BY <2>2, RecordUpdates
  <2>5. CASE Skipped(fact, owner)
    <3>1. new = old
      BY <2>1, <2>2, <2>3, <2>4, <2>5
    <3> QED
      BY <2>5, <3>1, FoldCases DEF old, new
  <2>6. CASE ~Skipped(fact, owner) /\ s = "created"
    <3>1. next(Life) = fact /\ next({"created"}) = fact /\ next({"started"}) = last({"started"})
          /\ next({"completed", "failed"}) = last({"completed", "failed"})
      BY <2>1, <2>4, <2>6 DEF Life
    <3>2. new = AfterCreated(old, fact)
      <4>1. StatusAfter[next(Life).schema] = "pending"
        BY <1>0, <2>6, <3>1
      <4> HIDE DEF fact, s
      <4> QED
        BY <2>3, <2>10, <3>1, <4>1, Zenon
    <3> QED
      BY <2>6, <3>2, FoldCases DEF old, new
  <2>7. CASE ~Skipped(fact, owner) /\ s = "started"
    <3>1. next(Life) = fact /\ next({"created"}) = last({"created"}) /\ next({"started"}) = fact
          /\ next({"completed", "failed"}) = last({"completed", "failed"})
      BY <2>1, <2>4, <2>7 DEF Life
    <3>2. new = AfterStarted(old, fact)
      <4>1. StatusAfter[next(Life).schema] = "running"
        BY <1>0, <2>7, <3>1
      <4> HIDE DEF fact, s
      <4> QED
        BY <2>3, <2>10, <3>1, <4>1, Zenon
    <3> QED
      BY <2>7, <3>2, FoldCases DEF old, new
  <2>8. CASE ~Skipped(fact, owner) /\ s \in {"completed", "failed"}
    <3>1. next(Life) = fact /\ next({"created"}) = last({"created"})
          /\ next({"started"}) = last({"started"}) /\ next({"completed", "failed"}) = fact
      BY <2>1, <2>4, <2>8 DEF Life
    <3>2. new = AfterTerminal(old, fact, StatusAfter[s])
      <4>1. StatusAfter[next(Life).schema] = StatusAfter[s]
        BY <3>1
      <4> HIDE DEF fact, s
      <4> QED
        BY <2>3, <2>10, <3>1, <4>1, Zenon
    <3>3. s = "completed" => new = AfterTerminal(old, fact, "succeeded")
      BY <1>0, <3>2
    <3>4. s = "failed" => new = AfterTerminal(old, fact, "failed")
      BY <1>0, <3>2
    <3> QED
      BY <2>8, <3>3, <3>4, FoldCases DEF old, new
  <2>9. CASE ~Skipped(fact, owner) /\ s \notin Life
    <3>1. \A schemas \in {Life, {"created"}, {"started"}, {"completed", "failed"}} :
            next(schemas) = last(schemas)
      BY <2>1, <2>9 DEF Life
    <3>2. new = old
      BY <2>2, <2>3, <3>1
    <3> QED
      BY <2>9, <3>2, FoldCases DEF old, new
  <2> QED
    BY <2>5, <2>6, <2>7, <2>8, <2>9 DEF Life
<1> QED
  BY <1>1, <1>2

\* Of two solutions of one step equation neither differs from the other anywhere first.
LEMMA FoldIsTold ==
    ASSUME NEW facts, NEW N \in Nat, NEW owner, NEW g,
           g = [n \in 0 .. N |-> IF n = 0 THEN NewExecution(owner) ELSE FoldFact(owner, g[n - 1], facts[n])]
    PROVE  \A n \in 0 .. N : g[n] = Told(facts, n, owner)
<1> DEFINE bad == {n \in 0 .. N : g[n] # Told(facts, n, owner)}
<1> SUFFICES ASSUME bad # {} PROVE FALSE
  OBVIOUS
<1>1. bad \subseteq Nat
  OBVIOUS
<1>2. PICK n \in bad : \A m \in bad : ~(<<m, n>> \in OpToRel(<, Nat))
  <2> HIDE DEF bad
  <2> QED
    BY <1>1, NatLessThanWellFounded, WFMin, Zenon
<1>3. \A a, b \in Nat : a < b => <<a, b>> \in OpToRel(<, Nat)
  BY DEF OpToRel
<1>4. \A m \in 0 .. N : m < n => m \notin bad
  <2> SUFFICES ASSUME NEW m \in bad, m < n PROVE FALSE
    OBVIOUS
  <2>1. m \in Nat /\ n \in Nat
    OBVIOUS
  <2> QED
    BY <1>2, <1>3, <2>1
<1>5. n # 0
  <2>1. g[0] = NewExecution(owner)
    <3>1. 0 \in 0 .. N
      OBVIOUS
    <3> QED
      BY <3>1
  <2> QED
    BY <2>1, ToldStepwise
<1>6. n - 1 \in 0 .. N /\ n - 1 < n /\ n - 1 \in Nat /\ (n - 1) + 1 = n /\ n \in 0 .. N
  BY <1>5
<1>7. g[n - 1] = Told(facts, n - 1, owner)
  BY <1>4, <1>6
<1>8. g[n] = FoldFact(owner, g[n - 1], facts[n])
  BY <1>5, <1>6
<1>9. Told(facts, n, owner) = FoldFact(owner, Told(facts, n - 1, owner), facts[n])
  <2> DEFINE m == n - 1
  <2>1. m \in Nat /\ m + 1 = n
    BY <1>6
  <2> HIDE DEF m
  <2>2. Told(facts, m + 1, owner) = FoldFact(owner, Told(facts, m, owner), facts[m + 1])
    BY <2>1, ToldStepwise
  <2> QED
    BY <2>1, <2>2 DEF m
<1>10. g[n] = Told(facts, n, owner)
  BY <1>7, <1>8, <1>9
<1> QED
  BY <1>10

\* A projection of an owner path tells the last words on it.
LEMMA ProjectionTold ==
    ASSUME NEW slice, NEW owner, IsPath(OwnerPath(slice, owner))
    PROVE  LET facts == OwnerPath(slice, owner)
           IN  ProjectExecution(slice, owner) = Told(facts, Len(facts), owner)
<1> DEFINE facts == OwnerPath(slice, owner)
           N == Len(facts)
           Solves(g) == g = [n \in 0 .. N |-> IF n = 0 THEN NewExecution(owner)
                                              ELSE FoldFact(owner, g[n - 1], facts[n])]
<1>1. N \in Nat
  BY DEF IsPath
<1>2. Solves([n \in 0 .. N |-> Told(facts, n, owner)])
  <2> DEFINE g == [n \in 0 .. N |-> Told(facts, n, owner)]
  <2>1. ASSUME NEW n \in 0 .. N
        PROVE  Told(facts, n, owner) = IF n = 0 THEN NewExecution(owner) ELSE FoldFact(owner, g[n - 1], facts[n])
    <3>1. CASE n = 0
      BY <3>1, ToldStepwise
    <3>2. CASE n # 0
      <4> DEFINE m == n - 1
      <4>1. m \in Nat /\ m + 1 = n /\ m \in 0 .. N
        BY <1>1, <3>2
      <4> HIDE DEF m
      <4>2. Told(facts, m + 1, owner) = FoldFact(owner, Told(facts, m, owner), facts[m + 1])
        BY <4>1, ToldStepwise
      <4>3. g[m] = Told(facts, m, owner)
        BY <4>1
      <4> HIDE DEF g
      <4> QED
        BY <3>2, <4>1, <4>2, <4>3 DEF m
    <3> QED
      BY <3>1, <3>2
  <2> QED
    BY <2>1
<1> DEFINE exec == CHOOSE g : Solves(g)
<1>3. Solves(exec)
  <2> HIDE DEF Solves
  <2> QED
    BY <1>2
<1>4. exec[N] = Told(facts, N, owner)
  <2>0. exec = [n \in 0 .. N |-> IF n = 0 THEN NewExecution(owner) ELSE FoldFact(owner, exec[n - 1], facts[n])]
    BY <1>3, Zenon
  <2> HIDE DEF exec, facts, N
  <2>1. \A g : g = [n \in 0 .. N |-> IF n = 0 THEN NewExecution(owner) ELSE FoldFact(owner, g[n - 1], facts[n])]
                => \A n \in 0 .. N : g[n] = Told(facts, n, owner)
    BY <1>1, FoldIsTold
  <2>2. \A n \in 0 .. N : exec[n] = Told(facts, n, owner)
    BY <2>0, <2>1, Zenon
  <2> QED
    BY <1>1, <2>2
<1>5. ProjectExecution(slice, owner) = exec[N]
  BY DEF ProjectExecution
<1> QED
  BY <1>4, <1>5

\* The last word on a whole path.
LEMMA LastInIsLastOf ==
    ASSUME NEW s, IsPath(s), NEW schemas, NEW owner
    PROVE  LastIn(s, Len(s), schemas, owner) = LastOf(s, schemas, owner)
<1>1. DOMAIN s = 1 .. Len(s)
  BY DEF IsPath
<1> QED
  BY <1>1, Zenon DEF LastIn, LastOf

\* What projecting an execution comes to, on any owner path: ProjectExecution in
\* src/execution.go folds the facts one by one, and says in the end the last word of each
\* kind that is not another execution's.
THEOREM LastWordsWin == Spec => []ExecutionsAreLastWins
<1>1. TreeInv /\ [Next]_vars => TreeInv'
  BY NextGrows, GrowingKeepsTreeInv
<1>2. ASSUME TreeInv PROVE ExecutionsAreLastWins
  <2> SUFFICES ASSUME NEW e \in Executions
               PROVE  LET slice == SliceOf(path, "", [target |-> e, place |-> Len(path[e])], "payload")
                          exec  == ProjectExecution(slice, e)
                          last  == LastOf(path[e], {"created", "started", "completed", "failed"}, e)
                      IN  /\ exec.status = StatusAfter[last.schema]
                          /\ exec.created = LastOf(path[e], {"created"}, e)
                          /\ exec.started = LastOf(path[e], {"started"}, e)
                          /\ exec.terminal = LastOf(path[e], {"completed", "failed"}, e)
    BY DEF ExecutionsAreLastWins
  <2> DEFINE slice == SliceOf(path, "", [target |-> e, place |-> Len(path[e])], "payload")
             s == path[e]
  <2>1. IsPath(s)
    BY <1>2 DEF TreeInv, PathsAreSequences
  <2>2. OwnerPath(slice, e) = s
    BY <2>1, WholePath DEF OwnerPath, SliceOf, Prefix
  <2> HIDE DEF slice, s
  <2>3. ProjectExecution(slice, e) = Told(s, Len(s), e)
    BY <2>1, <2>2, ProjectionTold
  <2>4. /\ Told(s, Len(s), e).status = StatusAfter[LastIn(s, Len(s), Life, e).schema]
        /\ Told(s, Len(s), e).created = LastIn(s, Len(s), {"created"}, e)
        /\ Told(s, Len(s), e).started = LastIn(s, Len(s), {"started"}, e)
        /\ Told(s, Len(s), e).terminal = LastIn(s, Len(s), {"completed", "failed"}, e)
    BY DEF Told
  <2>5. \A schemas : LastIn(s, Len(s), schemas, e) = LastOf(s, schemas, e)
    BY <2>1, LastInIsLastOf
  <2> QED
    BY <2>3, <2>4, <2>5 DEF slice, s, Life
<1> QED
  BY <1>1, <1>2, InitTreeInv, PTL DEF Spec

-----------------------------------------------------------------------------
(***************************************************************************)
(* Terminal frontiers.  What a frontier names stays where it is, what the  *)
(* law has read before it publishes is terminal, and so a frontier that    *)
(* only the law publishes names a terminal fact.                           *)
(***************************************************************************)
ThroughAtPlace ==
    \A f \in DOMAIN frontiers :
      path[frontiers[f].target][frontiers[f].place] = frontiers[f].through

CutHasEnded == cut # NoCut => IsTerminal(cut.through)

LawfulCutsEnd ==
    \A c \in UnderTerminalLaw :
      (c.frontier_id \in DOMAIN frontiers /\ frontiers[c.frontier_id].through = c.through)
        => IsTerminal(c.through)

EndInv == TreeInv /\ ThroughAtPlace /\ CutHasEnded /\ LawfulCutsEnd

\* The place of a new frontier holds its through fact.
LEMMA LatestPlaceHolds ==
    ASSUME NEW c, IsPath(path[c.target]), Places(c.through, c.target) # {}
    PROVE  path[c.target][LatestPlace(c)] = c.through
<1> DEFINE S == Places(c.through, c.target)
           n == Len(path[c.target])
<1>1. n \in Nat /\ DOMAIN path[c.target] = 1 .. n
  BY DEF IsPath
<1>2. S \in SUBSET (1 .. n) /\ S # {}
  BY <1>1 DEF Places
<1> HIDE DEF S, n
<1>3. \E m \in S : \A k \in S : m >= k
  BY <1>1, <1>2, GreatestExists
<1>4. Max(S) \in S
  BY <1>3 DEF Max
<1> QED
  BY <1>4 DEF LatestPlace, S, Places

\* Where the frontiers of a step come from: those that are new are of one call.
FrontiersFrom(calls) ==
    \A f \in DOMAIN frontiers' \ DOMAIN frontiers :
      \E c \in calls :
        /\ f = c.frontier_id
        /\ frontiers'[f] = [target |-> c.target, through |-> c.through, place |-> LatestPlace(c)]
        /\ Places(c.through, c.target) # {}

\* Publishing adds at most the frontier it is called for.
LEMMA PublishAddsItsOwn ==
    ASSUME NEW c, Publish(c)
    PROVE  FrontiersFrom({c})
<1>1. CASE c.frontier_id \in DOMAIN frontiers \/ Places(c.through, c.target) = {}
  BY <1>1 DEF Publish, FrontiersFrom
<1>2. CASE ~(c.frontier_id \in DOMAIN frontiers \/ Places(c.through, c.target) = {})
  <2> DEFINE new == [target |-> c.target, through |-> c.through, place |-> LatestPlace(c)]
  <2>1. frontiers' = [f \in DOMAIN frontiers \cup {c.frontier_id} |->
                        IF f = c.frontier_id THEN new ELSE frontiers[f]]
    BY <1>2 DEF Publish
  <2> HIDE DEF new
  <2>2. \A f \in DOMAIN frontiers' \ DOMAIN frontiers : f = c.frontier_id /\ frontiers'[f] = new
    BY <2>1
  <2> QED
    BY <1>2, <2>2 DEF FrontiersFrom, new
<1> QED
  BY <1>1, <1>2

\* What the law has read, and where the new frontiers come from, in every step.
LEMMA NextCuts ==
    ASSUME EndInv, [Next]_vars
    PROVE  /\ CutHasEnded'
           /\ FrontiersFrom(Cuts) \/ FrontiersFrom({c \in TerminalCuts : IsTerminal(c.through)})
<1>0. CutHasEnded /\ CutIsACall
  BY DEF EndInv, TreeInv
<1>1. CASE \E c \in Cuts : PublishFrontier(c)
  <2>1. PICK c \in Cuts : PublishFrontier(c)
    BY <1>1
  <2>2. FrontiersFrom({c}) /\ cut' = cut
    BY <2>1, PublishAddsItsOwn DEF PublishFrontier
  <2> QED
    BY <1>0, <2>2 DEF FrontiersFrom, CutHasEnded
<1>2. CASE PublishTerminalFrontier
  <2>1. cut \in TerminalCuts /\ IsTerminal(cut.through) /\ Publish(cut) /\ cut' = NoCut
    BY <1>0, <1>2 DEF PublishTerminalFrontier, CutIsACall, CutHasEnded
  <2>2. FrontiersFrom({cut})
    BY <2>1, PublishAddsItsOwn
  <2> QED
    BY <2>1, <2>2 DEF FrontiersFrom, CutHasEnded
<1>3. CASE \E c \in TerminalCuts : PublishExecutionFrontier(c)
  BY <1>3 DEF PublishExecutionFrontier, CutHasEnded, storeVars, FrontiersFrom
<1>4. CASE UNCHANGED <<frontiers, cut>>
  BY <1>0, <1>4 DEF CutHasEnded, FrontiersFrom
<1>5. CASE \/ \E b \in Batches : AppendBatch(b)
           \/ ReaderStep
           \/ \E f \in FrontierIds, v \in {"payload", "shape_only"} : StartHistory(f, v)
           \/ UNCHANGED vars
  BY <1>4, <1>5 DEF AppendBatch, ReaderStep, StartHistory, ReadCutoff, UnknownFrontier, ReadEntries,
                     RefuseRoot, Project, Return, storeVars, vars
<1> QED
  BY <1>1, <1>2, <1>3, <1>5 DEF Next

\* A place holds what it held, and a new one its through fact.
LEMMA PlacesHold ==
    ASSUME EndInv, StoreGrows, NEW calls \in SUBSET (Cuts \cup TerminalCuts), FrontiersFrom(calls)
    PROVE  ThroughAtPlace'
<1> SUFFICES ASSUME NEW f \in DOMAIN frontiers'
             PROVE  path'[frontiers'[f].target][frontiers'[f].place] = frontiers'[f].through
  BY DEF ThroughAtPlace
<1>1. PICK r : r = frontiers'[f]
  OBVIOUS
<1>2. r.target \in Executions /\ r.place \in DOMAIN path[r.target] /\ path[r.target][r.place] = r.through
  <2>1. CASE f \in DOMAIN frontiers
    BY <1>1, <2>1 DEF EndInv, TreeInv, PlacesExist, ThroughAtPlace, StoreGrows
  <2>2. CASE f \notin DOMAIN frontiers
    <3>1. PICK c \in calls : /\ r = [target |-> c.target, through |-> c.through, place |-> LatestPlace(c)]
                             /\ Places(c.through, c.target) # {}
      BY <1>1, <2>2 DEF FrontiersFrom
    <3>2. c.target \in Executions
      BY CallsAssumption
    <3>3. IsPath(path[c.target])
      BY <3>2 DEF EndInv, TreeInv, PathsAreSequences
    <3> QED
      BY <3>1, <3>2, <3>3, LatestPlaceExists, LatestPlaceHolds
  <2> QED
    BY <2>1, <2>2
<1>3. IsPath(path[r.target]) /\ Continues(path[r.target], path'[r.target])
  BY <1>2 DEF EndInv, TreeInv, PathsAreSequences, StoreGrows
<1>4. path'[r.target][r.place] = path[r.target][r.place]
  BY <1>2, <1>3 DEF Continues, IsPath
<1> QED
  BY <1>1, <1>2, <1>4

\* The law is about its own frontiers, and those that others publish are not.
LEMMA LawKept ==
    ASSUME EndInv, StoreGrows,
           FrontiersFrom(Cuts) \/ FrontiersFrom({c \in TerminalCuts : IsTerminal(c.through)})
    PROVE  LawfulCutsEnd'
<1> SUFFICES ASSUME NEW c \in UnderTerminalLaw,
                    c.frontier_id \in DOMAIN frontiers', frontiers'[c.frontier_id].through = c.through
             PROVE  IsTerminal(c.through)
  BY DEF LawfulCutsEnd
<1> DEFINE f == c.frontier_id
<1>1. CASE f \in DOMAIN frontiers
  BY <1>1 DEF EndInv, LawfulCutsEnd, StoreGrows
<1>2. CASE f \notin DOMAIN frontiers
  <2>1. CASE FrontiersFrom(Cuts)
    <3>1. PICK d \in Cuts : f = d.frontier_id /\ frontiers'[f].through = d.through
      BY <1>2, <2>1 DEF FrontiersFrom
    <3> QED
      BY <3>1 DEF UnderTerminalLaw
  <2>2. CASE FrontiersFrom({d \in TerminalCuts : IsTerminal(d.through)})
    <3>1. PICK d \in TerminalCuts : IsTerminal(d.through) /\ frontiers'[f].through = d.through
      BY <1>2, <2>2 DEF FrontiersFrom
    <3> QED
      BY <3>1
  <2> QED
    BY <2>1, <2>2
<1> QED
  BY <1>1, <1>2

\* An execution is projected at a terminal fact of its own as ended with that fact.
LEMMA EndsWithIts ==
    ASSUME EndInv, OwnPathsOnly, NEW f \in DOMAIN frontiers, IsTerminal(frontiers[f].through)
    PROVE  LET exec == ProjectExecution(Resolved(path, frontiers, f), frontiers[f].target)
           IN  exec.status \in {"succeeded", "failed"} /\ exec.terminal = frontiers[f].through
<1>1. PICK r : r = frontiers[f]
  OBVIOUS
<1> DEFINE slice == Resolved(path, frontiers, f)
           s == path[r.target]
           facts == SubSeq(s, 1, r.place)
           e == r.target
<1>2. e \in Executions /\ r.place \in DOMAIN s /\ s[r.place] = r.through
  BY <1>1 DEF EndInv, TreeInv, PlacesExist, ThroughAtPlace
<1>3. IsPath(s)
  BY <1>2 DEF EndInv, TreeInv, PathsAreSequences
<1>4. OwnerPath(slice, e) = facts
  BY <1>1 DEF OwnerPath, Resolved, SliceOf, Prefix
<1>5. r.place \in 1 .. Len(s) /\ r.place \in Nat /\ r.place >= 1
  BY <1>2, <1>3 DEF IsPath
<1>6. SaysOf(r.through, e)
  <2>1. r.through \in Range(s)
    BY <1>2 DEF Range
  <2> QED
    BY <1>2, <2>1 DEF OwnPathsOnly, SaysOf
<1>7. r.through.schema \in {"completed", "failed"}
  BY <1>1 DEF IsTerminal
<1> HIDE DEF slice, s, e
<1>8. IsPath(facts) /\ Len(facts) = r.place /\ facts[r.place] = r.through
  <2>1. /\ IsPath(SubSeq(s, 1, r.place)) /\ Len(SubSeq(s, 1, r.place)) = r.place
        /\ \A i \in 1 .. r.place : SubSeq(s, 1, r.place)[i] = s[i]
    BY <1>3, <1>5, PrefixIsPath
  <2> QED
    BY <1>2, <1>5, <2>1
<1> HIDE DEF facts
<1>9. ProjectExecution(slice, e) = Told(facts, r.place, e)
  BY <1>4, <1>8, ProjectionTold
<1>10. \A schemas : r.through.schema \in schemas => LastIn(facts, r.place, schemas, e) = r.through
  <2> DEFINE m == r.place - 1
  <2>1. m \in Nat /\ m + 1 = r.place
    BY <1>5
  <2> HIDE DEF m
  <2>2. \A schemas : LastIn(facts, m + 1, schemas, e) =
          IF facts[m + 1].schema \in schemas /\ SaysOf(facts[m + 1], e)
          THEN facts[m + 1] ELSE LastIn(facts, m, schemas, e)
    BY <2>1, LastStepwise
  <2> QED
    BY <1>6, <1>8, <2>1, <2>2
<1>11. LastIn(facts, r.place, Life, e) = r.through /\ LastIn(facts, r.place, {"completed", "failed"}, e) = r.through
  BY <1>7, <1>10 DEF Life
<1>12. /\ Told(facts, r.place, e).status = StatusAfter[LastIn(facts, r.place, Life, e).schema]
       /\ Told(facts, r.place, e).terminal = LastIn(facts, r.place, {"completed", "failed"}, e)
  BY DEF Told
<1>13. StatusAfter["completed"] = "succeeded" /\ StatusAfter["failed"] = "failed"
  BY DEF StatusAfter
<1>14. StatusAfter[r.through.schema] \in {"succeeded", "failed"}
  BY <1>7, <1>13
<1>15. ProjectExecution(slice, e).status \in {"succeeded", "failed"} /\ ProjectExecution(slice, e).terminal = r.through
  BY <1>9, <1>11, <1>12, <1>14
<1> QED
  BY <1>1, <1>15 DEF slice, e

\* At an empty database no cut has been read.
LEMMA InitEndInv == Init => EndInv
  BY InitTreeInv DEF Init, EndInv, ThroughAtPlace, CutHasEnded, LawfulCutsEnd

\* PublishExecutionFrontier reads the through fact in one transaction and publishes in
\* another, and the fact it reads may lie on any path: for any executions, batches and
\* calls, and whatever is appended in between, a frontier that only it publishes still
\* projects its execution as ended, with that fact, while executions write their own
\* paths only.
THEOREM TerminalFrontiersEnd == Spec => []TerminalCutsEnd
<1>1. EndInv /\ [Next]_vars => EndInv'
  <2> SUFFICES ASSUME EndInv, [Next]_vars PROVE EndInv'
    OBVIOUS
  <2>1. TreeInv' /\ StoreGrows
    BY NextGrows, GrowingKeepsTreeInv DEF EndInv
  <2>2. CutHasEnded' /\ LawfulCutsEnd'
    BY <2>1, NextCuts, LawKept
  <2>3. ThroughAtPlace'
    <3> DEFINE ended == {c \in TerminalCuts : IsTerminal(c.through)}
    <3>1. Cuts \in SUBSET (Cuts \cup TerminalCuts) /\ ended \in SUBSET (Cuts \cup TerminalCuts)
      OBVIOUS
    <3>2. FrontiersFrom(Cuts) \/ FrontiersFrom(ended)
      BY NextCuts
    <3> QED
      BY <2>1, <3>1, <3>2, PlacesHold
  <2> QED
    BY <2>1, <2>2, <2>3 DEF EndInv
<1>2. ASSUME EndInv PROVE TerminalCutsEnd
  <2> SUFFICES ASSUME OwnPathsOnly, NEW c \in UnderTerminalLaw,
                      c.frontier_id \in DOMAIN frontiers, frontiers[c.frontier_id].through = c.through
               PROVE  LET cutoff == frontiers[c.frontier_id]
                          exec   == ProjectExecution(Resolved(path, frontiers, c.frontier_id), cutoff.target)
                      IN  exec.status \in {"succeeded", "failed"} /\ exec.terminal = cutoff.through
    BY DEF TerminalCutsEnd
  <2>1. IsTerminal(frontiers[c.frontier_id].through)
    BY <1>2 DEF EndInv, LawfulCutsEnd
  <2> QED
    BY <1>2, <2>1, EndsWithIts
<1> QED
  BY <1>1, <1>2, InitEndInv, PTL DEF Spec

-----------------------------------------------------------------------------
(***************************************************************************)
(* The reader.  It has resolved the root's frontier and the first of those *)
(* that the root's slice names, and has the others still to resolve; and   *)
(* what it has resolved is still what resolving would give.                *)
(***************************************************************************)
Phases ==
    /\ IsPath(slices) /\ IsPath(todo)
    /\ readPc = "idle" => slices = << >>
    /\ readPc \in {"cutoff", "entries"} => todo # << >>
    /\ readPc = "project" => todo = << >> /\ slices # << >>
    /\ readPc = "entries" => Head(todo) \in DOMAIN frontiers /\ row = frontiers[Head(todo)]

RootRead ==
    slices # << >> =>
      /\ visibility = "payload"
      /\ slices[1].frontier_id \in DOMAIN frontiers
      /\ slices[1] = Resolved(path, frontiers, slices[1].frontier_id)

ChildrenRead ==
    slices # << >> =>
      LET linked == ChildFrontiers(slices[1])
      IN  /\ IsPath(linked)
          /\ (Len(slices) - 1) + Len(todo) = Len(linked)
          /\ \A k \in 1 .. Len(slices) - 1 :
               linked[k] \in DOMAIN frontiers /\ slices[k + 1] = Resolved(path, frontiers, linked[k])
          /\ \A k \in 1 .. Len(todo) : todo[k] = linked[(Len(slices) - 1) + k]

Answered ==
    history # NoHistory =>
      /\ readPc = "done" /\ slices # << >> /\ todo = << >>
      /\ history = ProjectEffectiveHistory(slices[1], slices[1].target, Tail(slices))

ReaderInv == visibility \in {"payload", "shape_only"} /\ Phases /\ RootRead /\ ChildrenRead /\ Answered

\* The relations of an owner path, the active ones and those with a frontier are lists.
LEMMA RelationsArePaths ==
    ASSUME NEW slice, NEW owner, IsPath(slice.facts)
    PROVE  /\ IsPath(OwnerPath(slice, owner))
           /\ IsPath(RelationFacts(slice, owner))
           /\ IsPath(ProjectExecutionRelations(slice, owner))
           /\ IsPath(activeRelations(ProjectExecutionRelations(slice, owner)))
           /\ IsPath(LinkedRelations(slice, owner))
<1>1. IsPath(OwnerPath(slice, owner))
  <2>1. IsPath(<< >>)
    BY DEF IsPath
  <2> QED
    BY <2>1 DEF OwnerPath
<1>2. IsPath(RelationFacts(slice, owner))
  <2>1. PICK facts : facts = OwnerPath(slice, owner)
    OBVIOUS
  <2>2. {n \in DOMAIN facts : facts[n].schema = "relation"} \in SUBSET DOMAIN facts
    OBVIOUS
  <2> QED
    BY <1>1, <2>1, <2>2, SelectionIsPath DEF RelationFacts, WithSchema
<1>3. IsPath(ProjectExecutionRelations(slice, owner))
  <2>1. PICK facts : facts = RelationFacts(slice, owner)
    OBVIOUS
  <2>2. {n \in DOMAIN facts : facts[n].parent_execution_id = owner} \in SUBSET DOMAIN facts
    OBVIOUS
  <2> QED
    BY <1>2, <2>1, <2>2, SelectionIsPath DEF ProjectExecutionRelations
<1>4. ASSUME NEW relations, IsPath(relations) PROVE IsPath(activeRelations(relations))
  <2> DEFINE places == {n \in DOMAIN relations : n = Min(FactsOf(relations, relations[n].relation_id))}
             firsts == ElementsAt(relations, places)
             latest == [k \in DOMAIN firsts |-> Latest(relations, firsts[k].relation_id)]
             active == {k \in DOMAIN latest : latest[k].relation_kind \in {"spawned", "adopted"}}
  <2>1. activeRelations(relations) = ElementsAt(latest, active)
    BY Zenon DEF activeRelations
  <2>2. IsPath(firsts)
    <3>1. places \in SUBSET DOMAIN relations
      OBVIOUS
    <3> HIDE DEF places
    <3> QED
      BY <1>4, <3>1, SelectionIsPath
  <2>3. latest = [k \in DOMAIN firsts |-> latest[k]] /\ active \in SUBSET DOMAIN latest
    OBVIOUS
  <2> HIDE DEF latest, firsts, active
  <2>4. IsPath(latest)
    BY <2>2, <2>3, MapIsPath
  <2> QED
    BY <2>1, <2>3, <2>4, SelectionIsPath
<1>5. IsPath(activeRelations(ProjectExecutionRelations(slice, owner)))
  BY <1>3, <1>4
<1>6. IsPath(LinkedRelations(slice, owner))
  <2>1. PICK active : active = activeRelations(ProjectExecutionRelations(slice, owner))
    OBVIOUS
  <2>2. {k \in DOMAIN active : active[k].child_frontier_id # ""} \in SUBSET DOMAIN active
    OBVIOUS
  <2> QED
    BY <1>5, <2>1, <2>2, SelectionIsPath DEF LinkedRelations
<1> QED
  BY <1>1, <1>2, <1>3, <1>5, <1>6

\* The frontiers that a slice names are a list.
LEMMA ChildFrontiersArePath ==
    ASSUME NEW slice, IsPath(slice.facts)
    PROVE  IsPath(ChildFrontiers(slice))
<1> DEFINE linked == LinkedRelations(slice, slice.target)
           t == ChildFrontiers(slice)
<1>1. IsPath(linked)
  BY RelationsArePaths
<1>2. t = [k \in DOMAIN linked |-> t[k]]
  BY DEF ChildFrontiers
<1> HIDE DEF linked, t
<1>3. IsPath(t)
  BY <1>1, <1>2, MapIsPath
<1> QED
  BY <1>3 DEF t

\* The slice of a frontier is a list of facts.
LEMMA ResolvedIsPath ==
    ASSUME TreeInv, NEW f \in DOMAIN frontiers
    PROVE  IsPath(Resolved(path, frontiers, f).facts)
<1> DEFINE r == frontiers[f]
           s == path[r.target]
<1>1. r.target \in Executions /\ r.place \in DOMAIN s
  BY DEF TreeInv, PlacesExist
<1>2. IsPath(s)
  BY <1>1 DEF TreeInv, PathsAreSequences
<1>3. r.place \in 1 .. Len(s)
  BY <1>1, <1>2 DEF IsPath
<1>4. Resolved(path, frontiers, f).facts = SubSeq(s, 1, r.place)
  BY DEF Resolved, SliceOf, Prefix
<1> HIDE DEF r, s
<1>5. IsPath(SubSeq(s, 1, r.place))
  BY <1>2, <1>3, PrefixIsPath
<1> QED
  BY <1>4, <1>5

-----------------------------------------------------------------------------
\* What the writer does leaves the reader with what resolving would give.
LEMMA WriterKeepsReader ==
    ASSUME TreeInv, StoreGrows, ReaderInv, UNCHANGED readerVars
    PROVE  ReaderInv'
<1>1. \A f \in DOMAIN frontiers :
        /\ f \in DOMAIN frontiers' /\ frontiers'[f] = frontiers[f]
        /\ Resolved(path', frontiers', f) = Resolved(path, frontiers, f)
  BY ResolvedKept DEF StoreGrows
<1>2. Phases'
  BY <1>1 DEF readerVars, ReaderInv, Phases
<1>3. RootRead'
  BY <1>1 DEF readerVars, ReaderInv, RootRead
<1>4. ChildrenRead'
  <2> SUFFICES ASSUME slices # << >>
               PROVE  LET linked == ChildFrontiers(slices[1])
                      IN  /\ IsPath(linked)
                          /\ (Len(slices) - 1) + Len(todo) = Len(linked)
                          /\ \A k \in 1 .. Len(slices) - 1 :
                               linked[k] \in DOMAIN frontiers' /\ slices[k + 1] = Resolved(path', frontiers', linked[k])
                          /\ \A k \in 1 .. Len(todo) : todo[k] = linked[(Len(slices) - 1) + k]
    BY DEF readerVars, ChildrenRead
  <2> DEFINE linked == ChildFrontiers(slices[1])
  <2>1. /\ IsPath(linked)
        /\ (Len(slices) - 1) + Len(todo) = Len(linked)
        /\ \A k \in 1 .. Len(slices) - 1 :
             linked[k] \in DOMAIN frontiers /\ slices[k + 1] = Resolved(path, frontiers, linked[k])
        /\ \A k \in 1 .. Len(todo) : todo[k] = linked[(Len(slices) - 1) + k]
    BY DEF ReaderInv, ChildrenRead
  <2> HIDE DEF linked
  <2>2. \A k \in 1 .. Len(slices) - 1 :
          linked[k] \in DOMAIN frontiers' /\ slices[k + 1] = Resolved(path', frontiers', linked[k])
    BY <1>1, <2>1
  <2> QED
    BY <2>1, <2>2 DEF linked
<1>5. Answered'
  BY DEF readerVars, ReaderInv, Answered
<1> QED
  BY <1>2, <1>3, <1>4, <1>5 DEF ReaderInv, readerVars

\* The root's slice is resolved: its relations are what is still to read.
LEMMA RootIsRead ==
    ASSUME TreeInv, ReaderInv, ReadEntries, slices = << >>
    PROVE  ReaderInv'
<1> DEFINE f == Head(todo)
           root == Slice
<1>1. /\ readPc = "entries" /\ f \in DOMAIN frontiers /\ row = frontiers[f]
      /\ EnsureProjectionCompatible(root)
      /\ slices' = Append(<< >>, root) /\ todo' = ChildFrontiers(root)
      /\ readPc' = IF ChildFrontiers(root) = << >> THEN "project" ELSE "cutoff"
      /\ visibility' = visibility /\ row' = row /\ history' = history
      /\ path' = path /\ frontiers' = frontiers
  BY DEF ReadEntries, StillToRead, ReaderInv, Phases, storeVars
<1>2. visibility = "payload"
  BY <1>1 DEF ReaderInv, EnsureProjectionCompatible, Slice, SliceOf
<1>3. root = Resolved(path, frontiers, f) /\ root.frontier_id = f
  BY <1>1, <1>2 DEF Slice, Resolved, SliceOf
<1>4. IsPath(root.facts)
  BY <1>1, <1>3, ResolvedIsPath
<1>5. IsPath(ChildFrontiers(root))
  BY <1>4, ChildFrontiersArePath
<1>6. history = NoHistory
  BY <1>1 DEF ReaderInv, Answered
<1> HIDE DEF f, root
<1>7. slices' # << >> /\ Len(slices') = 1 /\ slices'[1] = root /\ IsPath(slices')
  <2>1. IsPath(<< >>) /\ Len(<< >>) = 0
    BY DEF IsPath
  <2>2. IsPath(Append(<< >>, root)) /\ Len(Append(<< >>, root)) = 0 + 1 /\ Append(<< >>, root)[0 + 1] = root
    BY <2>1, AppendIsPath
  <2> QED
    BY <1>1, <2>1, <2>2
<1>8. Phases'
  BY <1>1, <1>5, <1>7 DEF Phases
<1>9. RootRead'
  BY <1>1, <1>2, <1>3, <1>7 DEF RootRead
<1>10. ChildrenRead'
  <2> DEFINE linked == ChildFrontiers(root)
  <2>1. Len(linked) \in Nat
    BY <1>5 DEF IsPath
  <2>2. ChildFrontiers(slices'[1]) = linked /\ todo' = linked
    BY <1>1, <1>7
  <2> HIDE DEF linked
  <2>3. (Len(slices') - 1) + Len(linked) = Len(linked) /\ 1 .. Len(slices') - 1 = {}
        /\ \A k \in 1 .. Len(linked) : (Len(slices') - 1) + k = k
    BY <1>7, <2>1
  <2> QED
    BY <1>5, <2>2, <2>3 DEF ChildrenRead, linked
<1>11. Answered'
  BY <1>1, <1>6 DEF Answered
<1> QED
  BY <1>1, <1>2, <1>8, <1>9, <1>10, <1>11 DEF ReaderInv

\* The slice of a child is resolved: it is the next.
LEMMA ChildIsRead ==
    ASSUME TreeInv, ReaderInv, ReadEntries, slices # << >>
    PROVE  ReaderInv'
<1> DEFINE f == Head(todo)
           linked == ChildFrontiers(slices[1])
           n == Len(slices)
<1>1. /\ readPc = "entries" /\ f \in DOMAIN frontiers /\ row = frontiers[f] /\ todo # << >>
      /\ slices' = Append(slices, Slice) /\ todo' = Tail(todo)
      /\ readPc' = IF Tail(todo) = << >> THEN "project" ELSE "cutoff"
      /\ visibility' = visibility /\ row' = row /\ history' = history
      /\ path' = path /\ frontiers' = frontiers
  BY DEF ReadEntries, StillToRead, ReaderInv, Phases, storeVars
<1>2. visibility = "payload" /\ slices[1].frontier_id \in DOMAIN frontiers
      /\ slices[1] = Resolved(path, frontiers, slices[1].frontier_id)
  BY DEF ReaderInv, RootRead
<1>3. Slice = Resolved(path, frontiers, f)
  BY <1>1, <1>2 DEF Slice, Resolved
<1>4. IsPath(slices) /\ IsPath(todo)
  BY DEF ReaderInv, Phases
<1>5. /\ IsPath(linked) /\ (n - 1) + Len(todo) = Len(linked)
      /\ \A k \in 1 .. n - 1 : linked[k] \in DOMAIN frontiers /\ slices[k + 1] = Resolved(path, frontiers, linked[k])
      /\ \A k \in 1 .. Len(todo) : todo[k] = linked[(n - 1) + k]
  BY DEF ReaderInv, ChildrenRead
<1>6. history = NoHistory
  BY <1>1 DEF ReaderInv, Answered
<1>7. n \in Nat /\ n >= 1
  BY <1>4, TailIsPath
<1>8. /\ IsPath(slices') /\ Len(slices') = n + 1
      /\ \A k \in 1 .. n : slices'[k] = slices[k]
      /\ slices'[n + 1] = Slice
  BY <1>1, <1>4, AppendIsPath
<1>9. /\ IsPath(todo') /\ Len(todo) \in Nat /\ Len(todo) >= 1 /\ Len(todo') = Len(todo) - 1 /\ f = todo[1]
      /\ \A k \in 1 .. Len(todo) - 1 : todo'[k] = todo[k + 1]
  BY <1>1, <1>4, TailIsPath
<1> HIDE DEF linked, f, n
<1>10. slices' # << >> /\ slices'[1] = slices[1]
  BY <1>7, <1>8
<1>11. Phases'
  BY <1>1, <1>8, <1>9, <1>10 DEF Phases
<1>12. RootRead'
  BY <1>1, <1>2, <1>10 DEF RootRead
<1>13. ChildrenRead'
  <2>1. ChildFrontiers(slices'[1]) = linked
    BY <1>10 DEF linked
  <2>2. (Len(slices') - 1) + Len(todo') = Len(linked)
    BY <1>5, <1>7, <1>8, <1>9
  <2>3. ASSUME NEW k \in 1 .. Len(slices') - 1
        PROVE  linked[k] \in DOMAIN frontiers /\ slices'[k + 1] = Resolved(path, frontiers, linked[k])
    <3>1. CASE k = n
      <4>1. linked[n] = f
        <5>1. todo[1] = linked[(n - 1) + 1] /\ (n - 1) + 1 = n
          BY <1>5, <1>7, <1>9
        <5> QED
          BY <1>9, <5>1
      <4> QED
        BY <1>1, <1>3, <1>8, <3>1, <4>1
    <3>2. CASE k # n
      <4>1. k \in 1 .. n - 1 /\ k + 1 \in 1 .. n
        BY <1>7, <1>8, <3>2
      <4> QED
        BY <1>5, <1>8, <4>1
    <3> QED
      BY <3>1, <3>2
  <2>4. ASSUME NEW k \in 1 .. Len(todo')
        PROVE  todo'[k] = linked[(Len(slices') - 1) + k]
    <3>1. k + 1 \in 1 .. Len(todo) /\ k \in 1 .. Len(todo) - 1 /\ (n - 1) + (k + 1) = (Len(slices') - 1) + k
      BY <1>7, <1>8, <1>9
    <3>2. todo[k + 1] = linked[(n - 1) + (k + 1)]
      BY <1>5, <3>1
    <3> QED
      BY <1>9, <3>1, <3>2
  <2> QED
    BY <1>1, <1>5, <2>1, <2>2, <2>3, <2>4 DEF ChildrenRead
<1>14. Answered'
  BY <1>1, <1>6 DEF Answered
<1> QED
  BY <1>1, <1>2, <1>11, <1>12, <1>13, <1>14 DEF ReaderInv

\* The reader's other steps.
LEMMA ReaderKeepsItself ==
    ASSUME TreeInv, ReaderInv,
           \/ ReaderStep
           \/ \E f \in FrontierIds, v \in {"payload", "shape_only"} : StartHistory(f, v)
    PROVE  ReaderInv'
<1>0. IsPath(<< >>) /\ \A x : IsPath(<<x>>) /\ <<x>> # << >>
  BY DEF IsPath, Range
<1>1. CASE \E f \in FrontierIds, v \in {"payload", "shape_only"} : StartHistory(f, v)
  BY <1>0, <1>1 DEF StartHistory, ReaderInv, Phases, RootRead, ChildrenRead, Answered, storeVars
<1>2. CASE ReadCutoff
  BY <1>2 DEF ReadCutoff, ReaderInv, Phases, RootRead, ChildrenRead, Answered, storeVars
<1>3. CASE UnknownFrontier
  BY <1>3 DEF UnknownFrontier, ReaderInv, Phases, RootRead, ChildrenRead, Answered, storeVars
<1>4. CASE ReadEntries
  BY <1>4, RootIsRead, ChildIsRead
<1>5. CASE RefuseRoot
  BY <1>5 DEF RefuseRoot, ReaderInv, Phases, RootRead, ChildrenRead, Answered, storeVars
<1>6. CASE Project
  <2>1. Head(slices) = slices[1]
    BY <1>6, TailIsPath DEF Project, ReaderInv, Phases
  <2> QED
    BY <1>6, <2>1 DEF Project, ReaderInv, Phases, RootRead, ChildrenRead, Answered, storeVars
<1>7. CASE Return
  BY <1>0, <1>7 DEF Return, ReaderInv, Phases, RootRead, ChildrenRead, Answered, storeVars
<1> QED
  BY <1>1, <1>2, <1>3, <1>4, <1>5, <1>6, <1>7 DEF ReaderStep

\* Every step keeps what is known of the reader.
LEMMA NextKeepsReaderInv ==
    ASSUME TreeInv, ReaderInv, [Next]_vars
    PROVE  ReaderInv'
<1>1. CASE \/ ReaderStep
           \/ \E f \in FrontierIds, v \in {"payload", "shape_only"} : StartHistory(f, v)
  BY <1>1, ReaderKeepsItself
<1>2. CASE UNCHANGED readerVars
  BY <1>2, NextGrows, WriterKeepsReader
<1> QED
  BY <1>1, <1>2 DEF Next, AppendBatch, PublishFrontier, PublishExecutionFrontier, PublishTerminalFrontier, vars

\* What the reader answers is what one query would.
LEMMA AnswersAreHistories ==
    ASSUME TreeInv, ReaderInv
    PROVE  ReaderSeesOneHistory
<1> SUFFICES ASSUME history.ok, slices # << >>
             PROVE  history = HistoryOf(slices[1].frontier_id)
  <2>1. \A s \in Range(slices) : slices # << >> /\ Head(slices) = slices[1]
    BY TailIsPath DEF ReaderInv, Phases, Range, IsPath
  <2> QED
    BY <2>1 DEF ReaderSeesOneHistory
<1> DEFINE f == slices[1].frontier_id
           root == Resolved(path, frontiers, f)
           linked == ChildFrontiers(root)
           children == [k \in DOMAIN linked |-> Resolved(path, frontiers, linked[k])]
<1>1. f \in DOMAIN frontiers /\ slices[1] = root
  BY DEF ReaderInv, RootRead
<1>2. history # NoHistory
  BY DEF NoHistory
<1>3. todo = << >> /\ history = ProjectEffectiveHistory(root, root.target, Tail(slices))
  BY <1>1, <1>2 DEF ReaderInv, Answered
<1>4. /\ IsPath(linked) /\ (Len(slices) - 1) + Len(todo) = Len(linked)
      /\ \A k \in 1 .. Len(slices) - 1 : linked[k] \in DOMAIN frontiers /\ slices[k + 1] = Resolved(path, frontiers, linked[k])
  BY <1>1 DEF ReaderInv, ChildrenRead
<1> HIDE DEF linked, root, f
<1>5. /\ IsPath(Tail(slices)) /\ Len(slices) \in Nat /\ Len(Tail(slices)) = Len(slices) - 1
      /\ \A k \in 1 .. Len(slices) - 1 : Tail(slices)[k] = slices[k + 1]
  BY TailIsPath DEF ReaderInv, Phases
<1>6. Len(slices) - 1 = Len(linked)
  BY <1>3, <1>4, <1>5
<1>7. DOMAIN linked = 1 .. Len(linked) /\ DOMAIN Tail(slices) = 1 .. Len(linked)
      /\ Tail(slices) = [k \in 1 .. Len(linked) |-> Tail(slices)[k]]
  <2> DEFINE t == Tail(slices)
  <2>1. IsPath(t) /\ Len(t) = Len(linked)
    BY <1>5, <1>6
  <2> HIDE DEF t
  <2>2. DOMAIN t = 1 .. Len(linked) /\ t = [k \in 1 .. Len(linked) |-> t[k]]
    BY <2>1 DEF IsPath
  <2> QED
    BY <1>4, <2>2 DEF IsPath, t
<1>8. Tail(slices) = children
  <2> DEFINE t == Tail(slices)
  <2>1. t = [k \in 1 .. Len(linked) |-> t[k]] /\ \A k \in 1 .. Len(linked) : t[k] = Resolved(path, frontiers, linked[k])
    BY <1>4, <1>5, <1>6, <1>7
  <2> HIDE DEF t
  <2>2. t = children
    BY <1>7, <2>1
  <2> QED
    BY <2>2 DEF t
<1>9. Range(linked) \subseteq DOMAIN frontiers
  BY <1>4, <1>6, <1>7 DEF Range
<1>10. HistoryOf(f) = IF Range(linked) \subseteq DOMAIN frontiers
                      THEN ProjectEffectiveHistory(root, root.target, children) ELSE NoHistory
  BY <1>1 DEF HistoryOf, HistoryIn, root, linked
<1> HIDE DEF children
<1> QED
  BY <1>3, <1>8, <1>9, <1>10 DEF f

\* At first the reader is idle.
LEMMA InitReaderInv == Init => ReaderInv
<1>1. IsPath(<< >>)
  BY DEF IsPath
<1> QED
  BY <1>1 DEF Init, ReaderInv, Phases, RootRead, ChildrenRead, Answered

\* ProjectEffectiveHistoryFromStore reads the root's frontier and then those of its
\* children in separate queries, and anything may be appended, abandoned or published
\* between any two: for any executions, batches and frontiers, a history that it returns is
\* the one that the store would give in a single query, then and afterwards.
THEOREM ReadersSeeOneHistory == Spec => []ReaderSeesOneHistory
<1>1. (TreeInv /\ ReaderInv) /\ [Next]_vars => (TreeInv /\ ReaderInv)'
  BY NextGrows, GrowingKeepsTreeInv, NextKeepsReaderInv
<1>2. TreeInv /\ ReaderInv => ReaderSeesOneHistory
  BY AnswersAreHistories
<1> QED
  BY <1>1, <1>2, InitTreeInv, InitReaderInv, PTL DEF Spec

-----------------------------------------------------------------------------
(***************************************************************************)
(* The children.  Each list that the relations go through holds the facts  *)
(* at certain places of the list of all relations, each once.              *)
(***************************************************************************)
\* The places of one relation have a first and a last.
LEMMA RelationHasEnds ==
    ASSUME NEW R, IsPath(R), NEW i \in DOMAIN R
    PROVE  LET S == FactsOf(R, R[i].relation_id)
           IN  /\ S \in SUBSET DOMAIN R /\ i \in S
               /\ Max(S) \in S /\ \A j \in S : Max(S) >= j
               /\ Min(S) \in S /\ \A j \in S : Min(S) <= j
<1> DEFINE S == FactsOf(R, R[i].relation_id)
           n == Len(R)
<1>1. n \in Nat /\ DOMAIN R = 1 .. n
  BY DEF IsPath
<1>2. S \in SUBSET (1 .. n) /\ i \in S /\ S # {}
  BY <1>1 DEF FactsOf
<1> HIDE DEF S, n
<1>3. \E m \in S : \A k \in S : m >= k
  BY <1>1, <1>2, GreatestExists
<1>4. Max(S) \in S /\ \A j \in S : Max(S) >= j
  BY <1>3 DEF Max
<1>5. \E m \in S : \A k \in S : m <= k
  <2>1. S \in SUBSET Nat
    BY <1>2
  <2>2. PICK m \in S : \A k \in S : ~(<<k, m>> \in OpToRel(<, Nat))
    BY <1>2, <2>1, NatLessThanWellFounded, WFMin, Zenon
  <2>3. \A a, b \in Nat : a < b => <<a, b>> \in OpToRel(<, Nat)
    BY DEF OpToRel
  <2>4. \A k \in S : k \in Nat /\ ~(k < m) /\ m \in Nat
    BY <2>1, <2>2, <2>3
  <2> QED
    BY <2>4
<1>6. Min(S) \in S /\ \A j \in S : Min(S) <= j
  BY <1>5 DEF Min
<1> QED
  BY <1>1, <1>2, <1>4, <1>6 DEF S

\* The last facts of the relations, each once.
Lasts(R) == {i \in DOMAIN R : \A j \in DOMAIN R : j > i => R[j].relation_id # R[i].relation_id}

\* The latest facts, in the order in which their relations were first seen.
LEMMA LatestAreLasts ==
    ASSUME NEW R, IsPath(R)
    PROVE  LET firsts == ElementsAt(R, {n \in DOMAIN R : n = Min(FactsOf(R, R[n].relation_id))})
               latest == [k \in DOMAIN firsts |-> Latest(R, firsts[k].relation_id)]
           IN  IsPath(latest) /\ Lists(latest, R, Lasts(R))
<1> DEFINE P == {n \in DOMAIN R : n = Min(FactsOf(R, R[n].relation_id))}
           firsts == ElementsAt(R, P)
           latest == [k \in DOMAIN firsts |-> Latest(R, firsts[k].relation_id)]
           at(k) == NthOf(P, k)
           id(n) == R[n].relation_id
           S(n) == FactsOf(R, id(n))
           last(n) == Max(S(n))
           h == [k \in DOMAIN firsts |-> last(at(k))]
<1>0. DOMAIN R \in SUBSET Nat
  BY DEF IsPath
<1>1. P \in SUBSET DOMAIN R
  OBVIOUS
<1>2. /\ IsPath(firsts)
      /\ P \in SUBSET Nat
      /\ \A k \in 1 .. Len(firsts) : at(k) \in P /\ firsts[k] = R[at(k)]
      /\ \A k, m \in 1 .. Len(firsts) : k < m => at(k) < at(m)
      /\ \A i \in P : \E k \in 1 .. Len(firsts) : at(k) = i
  <2> HIDE DEF P
  <2> QED
    BY <1>1, ElementsAreThose
<1>3. DOMAIN firsts = 1 .. Len(firsts) /\ Len(firsts) \in Nat
  BY <1>2 DEF IsPath
<1>4. \A n \in DOMAIN R : /\ S(n) \in SUBSET DOMAIN R /\ n \in S(n)
                          /\ last(n) \in S(n) /\ \A j \in S(n) : last(n) >= j
                          /\ Min(S(n)) \in S(n)
  BY RelationHasEnds
<1>5. \A n, m \in DOMAIN R : (m \in S(n)) <=> (id(m) = id(n))
  BY DEF FactsOf
<1>6. \A n \in P : n = Min(S(n)) /\ n \in DOMAIN R
  OBVIOUS
<1>7. \A n \in DOMAIN R : n = Min(S(n)) => n \in P
  OBVIOUS
<1>8. \A n, m \in DOMAIN R : id(n) = id(m) => S(n) = S(m)
  OBVIOUS
<1>9. \A k \in DOMAIN firsts : latest[k] = R[last(at(k))]
  BY <1>2, <1>3 DEF Latest
<1>10. latest = [k \in DOMAIN firsts |-> latest[k]]
  OBVIOUS
<1>11. \A i, j \in DOMAIN R : id(i) = R[i].relation_id
  OBVIOUS
<1>12. \A n : n \in Lasts(R) <=> n \in DOMAIN R /\ \A j \in DOMAIN R : j > n => id(j) # id(n)
  BY DEF Lasts
<1>13. DOMAIN latest = DOMAIN firsts
  OBVIOUS
<1> HIDE DEF P, firsts, latest, at, id, S, last
<1>14. \A n \in DOMAIN R : last(n) \in DOMAIN R /\ id(last(n)) = id(n) /\ last(n) \in Lasts(R)
  <2> SUFFICES ASSUME NEW n \in DOMAIN R
               PROVE  last(n) \in DOMAIN R /\ id(last(n)) = id(n) /\ last(n) \in Lasts(R)
    OBVIOUS
  <2>1. last(n) \in DOMAIN R /\ id(last(n)) = id(n)
    BY <1>4, <1>5
  <2>2. ASSUME NEW j \in DOMAIN R, j > last(n) PROVE id(j) # id(last(n))
    <3>1. j \notin S(n)
      BY <1>0, <1>4, <2>1, <2>2
    <3> QED
      BY <1>5, <2>1, <3>1
  <2> QED
    BY <1>12, <2>1, <2>2
<1>15. IsPath(latest)
  BY <1>2, <1>10, MapIsPath
<1>16. h \in [DOMAIN latest -> Lasts(R)] /\ \A k \in DOMAIN latest : h[k] = last(at(k))
  BY <1>2, <1>3, <1>6, <1>13, <1>14
<1> HIDE DEF h
<1>17. \A k \in DOMAIN latest : latest[k] = R[h[k]]
  BY <1>9, <1>13, <1>16
<1>18. \A k, m \in DOMAIN latest : h[k] = h[m] => k = m
  <2> SUFFICES ASSUME NEW k \in DOMAIN latest, NEW m \in DOMAIN latest, h[k] = h[m], k # m PROVE FALSE
    OBVIOUS
  <2>1. at(k) \in P /\ at(m) \in P /\ at(k) \in DOMAIN R /\ at(m) \in DOMAIN R
    BY <1>2, <1>3, <1>6, <1>13
  <2>2. last(at(k)) = last(at(m))
    BY <1>16
  <2>3. id(at(k)) = id(at(m))
    BY <1>14, <2>1, <2>2
  <2>4. at(k) = at(m)
    BY <1>6, <1>8, <2>1, <2>3
  <2>5. k \in Nat /\ m \in Nat /\ at(k) \in Nat
    BY <1>0, <1>3, <1>13, <2>1
  <2>6. k < m \/ m < k
    BY <2>5
  <2> QED
    BY <1>2, <1>3, <1>13, <2>4, <2>5, <2>6
<1>19. ASSUME NEW i \in Lasts(R) PROVE \E k \in DOMAIN latest : h[k] = i
  <2>1. i \in DOMAIN R
    BY <1>12
  <2> DEFINE f == Min(S(i))
  <2>2. f \in DOMAIN R /\ id(f) = id(i)
    BY <1>4, <1>5, <2>1
  <2>3. f = Min(S(f))
    BY <1>8, <2>1, <2>2
  <2> HIDE DEF f
  <2>4. f \in P
    BY <1>7, <2>2, <2>3
  <2>5. PICK k \in DOMAIN latest : at(k) = f
    BY <1>2, <1>3, <1>13, <2>4
  <2>6. last(f) = i
    <3>1. last(f) \in DOMAIN R /\ id(last(f)) = id(i) /\ last(f) \in Lasts(R)
      BY <1>14, <2>2
    <3>2. ~(last(f) > i) /\ ~(i > last(f))
      BY <1>12, <2>1, <3>1
    <3>3. last(f) \in Nat /\ i \in Nat
      BY <1>0, <2>1, <3>1
    <3> QED
      BY <3>2, <3>3
  <2> QED
    BY <1>16, <2>5, <2>6
<1>20. Lists(latest, R, Lasts(R))
  BY <1>16, <1>17, <1>18, <1>19 DEF Lists
<1> QED
  BY <1>15, <1>20 DEF latest, firsts, P

\* The relations whose last word is spawned or adopted, with a frontier.
ActiveIn(R) ==
    {i \in Lasts(R) : R[i].relation_kind \in {"spawned", "adopted"} /\ R[i].child_frontier_id # ""}

\* The linked relations of a slice are those.
LEMMA LinkedAreActive ==
    ASSUME NEW slice, NEW owner, IsPath(slice.facts)
    PROVE  LET R == ProjectExecutionRelations(slice, owner)
           IN  Lists(LinkedRelations(slice, owner), R, ActiveIn(R))
<1> DEFINE R == ProjectExecutionRelations(slice, owner)
           firsts == ElementsAt(R, {n \in DOMAIN R : n = Min(FactsOf(R, R[n].relation_id))})
           latest == [k \in DOMAIN firsts |-> Latest(R, firsts[k].relation_id)]
           active == activeRelations(R)
           A1 == {k \in DOMAIN latest : latest[k].relation_kind \in {"spawned", "adopted"}}
           A2 == {k \in DOMAIN active : active[k].child_frontier_id # ""}
           H == {i \in Lasts(R) : R[i].relation_kind \in {"spawned", "adopted"}}
<1>1. IsPath(R) /\ IsPath(active)
  BY RelationsArePaths
<1>2. IsPath(latest) /\ Lists(latest, R, Lasts(R))
  <2> HIDE DEF R
  <2> QED
    BY <1>1, LatestAreLasts
<1>3. active = ElementsAt(latest, A1)
  BY Zenon DEF activeRelations
<1>4. LinkedRelations(slice, owner) = ElementsAt(active, A2)
  BY DEF LinkedRelations
<1>5. /\ A1 \in SUBSET DOMAIN latest /\ H \in SUBSET Lasts(R)
      /\ A2 \in SUBSET DOMAIN active /\ ActiveIn(R) \in SUBSET H
  BY DEF ActiveIn
<1> HIDE DEF R, latest, active
<1>6. \A k \in DOMAIN latest, i \in Lasts(R) : latest[k] = R[i] => (k \in A1 <=> i \in H)
  OBVIOUS
<1>7. \A k \in DOMAIN active, i \in H : active[k] = R[i] => (k \in A2 <=> i \in ActiveIn(R))
  BY DEF ActiveIn
<1> HIDE DEF A1, A2, H
<1>8. Lists(active, R, H)
  BY <1>2, <1>3, <1>5, <1>6, ListsSome
<1>9. Lists(LinkedRelations(slice, owner), R, ActiveIn(R))
  BY <1>1, <1>4, <1>5, <1>7, <1>8, ListsSome
<1> QED
  BY <1>9 DEF R

\* What a history that is found is made of: its children are the linked relations that
\* have a slice, and those slices are of the executions that the relations name.
LEMMA HistoryIsMadeOf ==
    ASSUME NEW f, HistoryOf(f).ok
    PROVE  LET root   == Resolved(path, frontiers, f)
               all    == LinkedRelations(root, root.target)
               slice(g) == Resolved(path, frontiers, g)
               kept   == ElementsAt(all, {k \in DOMAIN all : all[k] \in Range(all)})
           IN  /\ f \in DOMAIN frontiers
               /\ \A k \in DOMAIN all : all[k].child_frontier_id \in DOMAIN frontiers
               /\ RelationKindsKnown(root, root.target)
               /\ HistoryOf(f).relations = ProjectExecutionRelations(root, root.target)
               /\ HistoryOf(f).children = [k \in DOMAIN kept |-> HistoryOf(f).children[k]]
               /\ \A k \in DOMAIN kept :
                    LET child == HistoryOf(f).children[k]
                    IN  /\ child.relation = kept[k]
                        /\ kept[k] \in Range(all) =>
                             /\ slice(kept[k].child_frontier_id).target = kept[k].child_execution_id
                             /\ child.execution = ProjectExecution(slice(kept[k].child_frontier_id), kept[k].child_execution_id)
<1> DEFINE root == Resolved(path, frontiers, f)
           all  == LinkedRelations(root, root.target)
           slice(g) == Resolved(path, frontiers, g)
           kept == ElementsAt(all, {k \in DOMAIN all : all[k] \in Range(all)})
           linked == ChildFrontiers(root)
           slices1 == [k \in DOMAIN linked |-> slice(linked[k])]
           childSlice(g) == CHOOSE s \in Range(slices1) : s.frontier_id = g
           given(fact) == \E s \in Range(slices1) : s.frontier_id = fact.child_frontier_id
           given1 == ElementsAt(all, {k \in DOMAIN all : given(all[k])})
<1>0. ~NoHistory.ok
  BY DEF NoHistory
<1>1. f \in DOMAIN frontiers
  BY <1>0 DEF HistoryOf, HistoryIn
<1>2. HistoryOf(f) = IF Range(linked) \subseteq DOMAIN frontiers
                     THEN ProjectEffectiveHistory(root, root.target, slices1) ELSE NoHistory
  BY <1>1 DEF HistoryOf, HistoryIn
<1>3. Range(linked) \subseteq DOMAIN frontiers /\ HistoryOf(f) = ProjectEffectiveHistory(root, root.target, slices1)
  BY <1>0, <1>2
<1>4. linked = [k \in DOMAIN all |-> all[k].child_frontier_id]
  BY DEF ChildFrontiers
<1>5. \A k \in DOMAIN all : k \in DOMAIN linked /\ linked[k] = all[k].child_frontier_id /\ linked[k] \in Range(linked)
  BY <1>4 DEF Range
<1>6. \A g : slice(g).frontier_id = g
  BY DEF Resolved, SliceOf
<1> HIDE DEF all, linked, root, slice
<1>7. \A s \in Range(slices1) : s = slice(s.frontier_id)
  BY <1>6 DEF Range
<1>8. \A k \in DOMAIN all : slice(all[k].child_frontier_id) \in Range(slices1)
  BY <1>5 DEF Range
<1> HIDE DEF slices1
<1>9. \A k \in DOMAIN all : given(all[k]) /\ childSlice(all[k].child_frontier_id) = slice(all[k].child_frontier_id)
  BY <1>6, <1>7, <1>8
<1>10. \A k \in DOMAIN all : all[k] \in Range(all)
  BY DEF Range
<1>11. given1 = kept
  <2>1. {k \in DOMAIN all : given(all[k])} = {k \in DOMAIN all : all[k] \in Range(all)}
    BY <1>9, <1>10
  <2> QED
    BY <2>1
<1> DEFINE fits == /\ EnsureProjectionCompatible(root)
                   /\ RelationKindsKnown(root, root.target)
                   /\ \A fact \in Range(given1) :
                        /\ childSlice(fact.child_frontier_id).target = fact.child_execution_id
                        /\ EnsureProjectionCompatible(childSlice(fact.child_frontier_id))
           children == [k \in DOMAIN given1 |->
                 [relation |-> given1[k],
                  execution |-> ProjectExecution(childSlice(given1[k].child_frontier_id),
                                                 given1[k].child_execution_id)]]
           it == [ok |-> TRUE,
              root |-> ProjectExecution(root, root.target),
              relations |-> ProjectExecutionRelations(root, root.target),
              children |-> children,
              published |-> WithSchema(OwnerPath(root, root.target), "published")]
<1>12. HistoryOf(f) = IF fits THEN it ELSE NoHistory
  BY <1>3, Zenon DEF ProjectEffectiveHistory, all
<1> HIDE DEF fits, it
<1>13. fits /\ HistoryOf(f) = it
  BY <1>0, <1>12
<1>14. /\ RelationKindsKnown(root, root.target)
       /\ \A fact \in Range(kept) : childSlice(fact.child_frontier_id).target = fact.child_execution_id
  BY <1>11, <1>13, Zenon DEF fits
<1>15. HistoryOf(f).relations = ProjectExecutionRelations(root, root.target) /\ HistoryOf(f).children = children
  <2> HIDE DEF children
  <2> QED
    BY <1>13 DEF it
<1> HIDE DEF given1, kept, childSlice
<1>16. HistoryOf(f).children = [k \in DOMAIN kept |-> HistoryOf(f).children[k]]
  <2>1. children = [k \in DOMAIN kept |-> children[k]]
    BY <1>11
  <2> HIDE DEF children
  <2> QED
    BY <1>15, <2>1
<1>17. ASSUME NEW k \in DOMAIN kept
       PROVE  LET child == HistoryOf(f).children[k]
              IN  /\ child.relation = kept[k]
                  /\ kept[k] \in Range(all) =>
                       /\ slice(kept[k].child_frontier_id).target = kept[k].child_execution_id
                       /\ child.execution = ProjectExecution(slice(kept[k].child_frontier_id), kept[k].child_execution_id)
  <2> DEFINE child == HistoryOf(f).children[k]
  <2>1. child.relation = kept[k] /\ child.execution = ProjectExecution(childSlice(kept[k].child_frontier_id), kept[k].child_execution_id)
    BY <1>11, <1>15
  <2>2. childSlice(kept[k].child_frontier_id).target = kept[k].child_execution_id
    BY <1>14 DEF Range
  <2>3. kept[k] \in Range(all) => childSlice(kept[k].child_frontier_id) = slice(kept[k].child_frontier_id)
    BY <1>9 DEF Range
  <2> HIDE DEF child
  <2>4. kept[k] \in Range(all) => child.execution = ProjectExecution(slice(kept[k].child_frontier_id), kept[k].child_execution_id)
    BY <2>1, <2>3
  <2>5. kept[k] \in Range(all) => slice(kept[k].child_frontier_id).target = kept[k].child_execution_id
    BY <2>2, <2>3
  <2> QED
    BY <2>1, <2>4, <2>5 DEF child
<1> QED
  BY <1>1, <1>3, <1>5, <1>14, <1>15, <1>16, <1>17 DEF root, all, slice, kept

\* In a history that is found every relation is of a known kind.
LEMMA KindsAreKnown ==
    ASSUME NEW slice, NEW owner, IsPath(slice.facts), RelationKindsKnown(slice, owner),
           NEW i \in DOMAIN ProjectExecutionRelations(slice, owner)
    PROVE  ProjectExecutionRelations(slice, owner)[i].relation_kind \in {"spawned", "adopted", "abandoned"}
<1> DEFINE facts == RelationFacts(slice, owner)
           I == {n \in DOMAIN facts : facts[n].parent_execution_id = owner}
           R == ProjectExecutionRelations(slice, owner)
<1>1. IsPath(facts) /\ IsPath(R)
  BY RelationsArePaths
<1>2. R = ElementsAt(facts, I)
  BY DEF ProjectExecutionRelations
<1>3. I \in SUBSET DOMAIN facts
  OBVIOUS
<1> HIDE DEF R, facts, I
<1>4. \A k \in 1 .. Len(R) : NthOf(I, k) \in I /\ R[k] = facts[NthOf(I, k)]
  BY <1>1, <1>2, <1>3, ElementsAreThose
<1>5. DOMAIN R = 1 .. Len(R)
  BY <1>1 DEF IsPath
<1>6. i \in DOMAIN R
  BY DEF R
<1>7. R[i] \in Range(facts)
  BY <1>3, <1>4, <1>5, <1>6 DEF Range
<1>8. R[i].relation_kind \in {"spawned", "adopted", "abandoned"}
  BY <1>7 DEF RelationKindsKnown, facts
<1> QED
  BY <1>8 DEF R

\* The children of a history that is found.
LEMMA FoundChildrenAreActive ==
    ASSUME TreeInv, NEW f, HistoryOf(f).ok
    PROVE  HasActiveChildren(HistoryOf(f))
<1> DEFINE root     == Resolved(path, frontiers, f)
           all      == LinkedRelations(root, root.target)
           slice(g) == Resolved(path, frontiers, g)
           I        == {k \in DOMAIN all : all[k] \in Range(all)}
           kept     == ElementsAt(all, I)
           R        == HistoryOf(f).relations
           children == HistoryOf(f).children
           active   == {i \in DOMAIN R :
                          /\ R[i].relation_kind # "abandoned"
                          /\ R[i].child_frontier_id # ""
                          /\ \A j \in i + 1 .. Len(R) : R[j].relation_id # R[i].relation_id}
<1>1. /\ f \in DOMAIN frontiers
      /\ \A k \in DOMAIN all : all[k].child_frontier_id \in DOMAIN frontiers
      /\ RelationKindsKnown(root, root.target)
      /\ R = ProjectExecutionRelations(root, root.target)
      /\ children = [k \in DOMAIN kept |-> children[k]]
      /\ \A k \in DOMAIN kept :
           /\ children[k].relation = kept[k]
           /\ kept[k] \in Range(all) =>
                /\ slice(kept[k].child_frontier_id).target = kept[k].child_execution_id
                /\ children[k].execution = ProjectExecution(slice(kept[k].child_frontier_id), kept[k].child_execution_id)
  BY HistoryIsMadeOf
<1>2. IsPath(root.facts)
  BY <1>1, ResolvedIsPath
<1>3. IsPath(all) /\ IsPath(ProjectExecutionRelations(root, root.target))
  BY <1>2, RelationsArePaths
<1>4. Lists(all, ProjectExecutionRelations(root, root.target), ActiveIn(ProjectExecutionRelations(root, root.target)))
  BY <1>2, LinkedAreActive
<1>5. \A i \in DOMAIN ProjectExecutionRelations(root, root.target) :
        ProjectExecutionRelations(root, root.target)[i].relation_kind \in {"spawned", "adopted", "abandoned"}
  BY <1>1, <1>2, KindsAreKnown
<1>6. I \in SUBSET DOMAIN all /\ \A k \in DOMAIN all : k \in I
  BY DEF Range
<1> HIDE DEF root, all, I, R, children
<1>7. /\ IsPath(R) /\ Lists(all, R, ActiveIn(R))
      /\ \A i \in DOMAIN R : R[i].relation_kind \in {"spawned", "adopted", "abandoned"}
  BY <1>1, <1>3, <1>4, <1>5
<1>8. active = ActiveIn(R)
  <2>1. DOMAIN R = 1 .. Len(R) /\ Len(R) \in Nat
    BY <1>7 DEF IsPath
  <2>2. \A i \in DOMAIN R : i \in Lasts(R) <=> \A j \in i + 1 .. Len(R) : R[j].relation_id # R[i].relation_id
    <3> SUFFICES ASSUME NEW i \in DOMAIN R
                 PROVE  i \in Lasts(R) <=> \A j \in i + 1 .. Len(R) : R[j].relation_id # R[i].relation_id
      OBVIOUS
    <3>1. \A j : j \in i + 1 .. Len(R) <=> (j \in DOMAIN R /\ j > i)
      BY <2>1
    <3> QED
      BY <3>1 DEF Lasts
  <2>3. \A i \in DOMAIN R : R[i].relation_kind # "abandoned" <=> R[i].relation_kind \in {"spawned", "adopted"}
    BY <1>7
  <2>4. Lasts(R) \subseteq DOMAIN R
    BY DEF Lasts
  <2> QED
    BY <2>2, <2>3, <2>4 DEF ActiveIn
<1>9. /\ IsPath(kept) /\ \A k \in DOMAIN kept : kept[k] \in Range(all)
      /\ \A k \in DOMAIN kept : \E m \in DOMAIN all : kept[k] = all[m]
  <2>1. IsPath(kept) /\ \A k \in 1 .. Len(kept) : NthOf(I, k) \in I /\ kept[k] = all[NthOf(I, k)]
    BY <1>3, <1>6, ElementsAreThose
  <2>2. DOMAIN kept = 1 .. Len(kept)
    BY <2>1 DEF IsPath
  <2> HIDE DEF kept
  <2> QED
    BY <1>6, <2>1, <2>2 DEF Range
<1>10. Lists(kept, R, active)
  <2> HIDE DEF active
  <2>1. active \in SUBSET active /\ \A k \in DOMAIN all, i \in active : all[k] = R[i] => (k \in I <=> i \in active)
    BY <1>6
  <2> QED
    BY <1>3, <1>6, <1>7, <1>8, <2>1, ListsSome
<1> HIDE DEF active, kept, slice
<1>11. /\ Len(kept) = Cardinality(active)
       /\ \A k \in DOMAIN kept : \E i \in active : kept[k] = R[i]
       /\ \A i \in active : \E k \in DOMAIN kept : kept[k] = R[i]
  BY <1>9, <1>10, ListsCount
<1>12. IsPath(children) /\ Len(children) = Len(kept) /\ DOMAIN children = DOMAIN kept
  BY <1>1, <1>9, MapIsPath DEF IsPath
<1>13. {children[k].relation : k \in DOMAIN children} = {R[i] : i \in active}
  <2>1. \A k \in DOMAIN kept : children[k].relation = kept[k]
    BY <1>1
  <2>2. \A k \in DOMAIN children : \E i \in active : children[k].relation = R[i]
    BY <1>11, <1>12, <2>1
  <2>3. \A i \in active : \E k \in DOMAIN children : children[k].relation = R[i]
    BY <1>11, <1>12, <2>1
  <2> QED
    BY <2>2, <2>3
<1>14. ASSUME NEW k \in DOMAIN children
       PROVE  LET child  == children[k]
                  cutoff == frontiers[child.relation.child_frontier_id]
              IN  /\ cutoff.target = child.relation.child_execution_id
                  /\ child.execution.execution_id = cutoff.target
                  /\ child.execution =
                       ProjectExecution(Resolved(path, frontiers, child.relation.child_frontier_id),
                                        cutoff.target)
  <2> DEFINE g == children[k].relation.child_frontier_id
             e == children[k].relation.child_execution_id
  <2>1. /\ children[k].relation = kept[k] /\ kept[k] \in Range(all)
        /\ slice(kept[k].child_frontier_id).target = kept[k].child_execution_id
        /\ children[k].execution = ProjectExecution(slice(kept[k].child_frontier_id), kept[k].child_execution_id)
    BY <1>1, <1>9, <1>12
  <2>2. g \in DOMAIN frontiers
    BY <1>1, <1>9, <1>12, <2>1
  <2>3. slice(g).target = e /\ children[k].execution = ProjectExecution(slice(g), e)
    BY <2>1
  <2>4. frontiers[g].target = e
    BY <2>3 DEF slice, Resolved, SliceOf
  <2> HIDE DEF g, e
  <2>5. IsPath(OwnerPath(slice(g), e))
    <3>1. IsPath(slice(g).facts)
      BY <2>2, ResolvedIsPath DEF slice
    <3> QED
      BY <3>1, RelationsArePaths
  <2>6. children[k].execution.execution_id = e
    <3> DEFINE facts == OwnerPath(slice(g), e)
    <3>1. children[k].execution = Told(facts, Len(facts), e)
      BY <2>3, <2>5, ProjectionTold
    <3> QED
      BY <3>1 DEF Told
  <2> QED
    BY <2>3, <2>4, <2>6 DEF g, e, slice
<1> QED
  BY <1>11, <1>12, <1>13, <1>14 DEF active, R, children, HasActiveChildren

\* activeRelations in src/relations.go keeps the latest fact of each relation, and
\* ProjectEffectiveHistory projects the executions that those name: for any executions,
\* batches and frontiers, in any history that is found the children are the relations that
\* are in force at the frontier and have a frontier, each once, and each is projected from
\* the path of the very execution that its relation names.
THEOREM ChildrenAreThoseInForce == Spec => []ChildrenAreActive
<1>1. TreeInv /\ [Next]_vars => TreeInv'
  BY NextGrows, GrowingKeepsTreeInv
<1>2. TreeInv => ChildrenAreActive
  BY FoundChildrenAreActive DEF ChildrenAreActive
<1> QED
  BY <1>1, <1>2, InitTreeInv, PTL DEF Spec
=============================================================================
