-------------------------- MODULE SideTablesProofs --------------------------
(***************************************************************************)
(* Proofs about the two tables beside the trace: the materialization       *)
(* ledger and the checkpoint blobs.                                        *)
(***************************************************************************)
EXTENDS MaterializationLedger, CheckpointBlobs, FiniteSetTheorems, TLAPS

(***************************************************************************)
(* The ledger's invariants for any number of dispatches, intents, digests  *)
(* and captures.  That an acknowledged completion is recorded is inductive *)
(* as it stands.  That all receipts name the stored captures is not: it    *)
(* needs to be known of the rows and of the dispatches that have appended. *)
(***************************************************************************)
\* What a dispatch that has appended its captures carries, and what a row says.
CapturesAreAppended ==
    /\ \A d \in Dispatches : pc[d] \in {"record", "reread"} =>
         intent[d] \in DOMAIN appended /\ appended[intent[d]] = receipt[d]
    /\ \A i \in DOMAIN ledger : i \in DOMAIN appended /\ appended[i] = ledger[i].receipt

LedgerInv ==
    TypeOK /\ AckedCompletionsAreRecorded /\ ReceiptsNameTheCaptures /\ CapturesAreAppended

\* Nothing is recorded, appended or acknowledged at first.
LEMMA InitLedgerInv == Init => LedgerInv
<1> SUFFICES ASSUME Init PROVE LedgerInv
  OBVIOUS
<1>1. TypeOK
  BY DEF Init, TypeOK
<1>2. AckedCompletionsAreRecorded /\ ReceiptsNameTheCaptures
  BY DEF Init, AckedCompletionsAreRecorded, ReceiptsNameTheCaptures
<1>3. CapturesAreAppended
  BY DEF Init, CapturesAreAppended
<1> QED
  BY <1>1, <1>2, <1>3 DEF LedgerInv

-----------------------------------------------------------------------------
\* Every step keeps the types.
LEMMA TypesKept == TypeOK /\ [Next]_vars => TypeOK'
<1> SUFFICES ASSUME TypeOK, [Next]_vars
             PROVE  TypeOK'
  OBVIOUS
<1> USE DEF TypeOK, tables, locals, ghosts, GoTo
<1>1. ASSUME NEW d \in Dispatches, NEW i \in Intents, NEW g \in Digests, Start(d, i, g)
      PROVE  TypeOK'
  BY <1>1 DEF Start
<1>2. ASSUME NEW d \in Dispatches, ReadCompletedMaterialization(d)
      PROVE  TypeOK'
  <2>1. CASE intent[d] \notin DOMAIN ledger
    BY <1>2, <2>1 DEF ReadCompletedMaterialization
  <2>2. CASE intent[d] \in DOMAIN ledger /\ ledger[intent[d]].digest = digest[d]
    <3>1. ledger[intent[d]].receipt \in Captures
      BY <2>2
    <3> QED
      BY <1>2, <2>2, <3>1 DEF ReadCompletedMaterialization, Succeed
  <2>3. CASE intent[d] \in DOMAIN ledger /\ ledger[intent[d]].digest # digest[d]
    BY <1>2, <2>3 DEF ReadCompletedMaterialization, Refuse
  <2> QED
    BY <2>1, <2>2, <2>3
<1>3. ASSUME NEW d \in Dispatches, Materialize(d)
      PROVE  TypeOK'
  BY <1>3 DEF Materialize
<1>4. ASSUME NEW d \in Dispatches, AppendCaptures(d)
      PROVE  TypeOK'
  <2>1. CASE AppendAccepts(d)
    <3>1. appended' = appended \/ appended' = Put(appended, intent[d], receipt[d])
      BY <1>4, <2>1 DEF AppendCaptures
    <3>2. DOMAIN Put(appended, intent[d], receipt[d]) \subseteq Intents
      BY DEF Put
    <3>3. DOMAIN appended' \subseteq Intents
      BY <3>1, <3>2
    <3> QED
      BY <1>4, <2>1, <3>3 DEF AppendCaptures
  <2>2. CASE ~AppendAccepts(d)
    BY <1>4, <2>2 DEF AppendCaptures, Refuse
  <2> QED
    BY <2>1, <2>2
<1>5. ASSUME NEW d \in Dispatches, InsertOrIgnore(d)
      PROVE  TypeOK'
  <2>1. CASE Inserts(d)
    <3>1. receipt[d] \in Captures /\ Completion(d) \in [digest : Digests, receipt : Captures]
      BY <1>5 DEF InsertOrIgnore, Completion
    <3>2. ledger' = Put(ledger, intent[d], Completion(d))
      BY <1>5, <2>1 DEF InsertOrIgnore
    <3>3. /\ DOMAIN ledger' \subseteq Intents
          /\ \A i \in DOMAIN ledger' : ledger'[i] \in [digest : Digests, receipt : Captures]
      BY <3>1, <3>2 DEF Put
    <3> QED
      BY <1>5, <2>1, <3>1, <3>3 DEF InsertOrIgnore, Succeed
  <2>2. CASE ~Inserts(d)
    BY <1>5, <2>2 DEF InsertOrIgnore
  <2> QED
    BY <2>1, <2>2
<1>6. ASSUME NEW d \in Dispatches, ReRead(d)
      PROVE  TypeOK'
  <2>1. CASE SameCompletion(d)
    BY <1>6, <2>1 DEF ReRead, Succeed
  <2>2. CASE ~SameCompletion(d)
    BY <1>6, <2>2 DEF ReRead, Refuse
  <2> QED
    BY <2>1, <2>2
<1>7. ASSUME NEW i \in Intents, DeleteMaterializationIntent(i)
      PROVE  TypeOK'
  BY <1>7 DEF DeleteMaterializationIntent, Restrict
<1>8. CASE Crash
  BY <1>8 DEF Crash
<1>9. CASE UNCHANGED vars
  BY <1>9 DEF vars
<1> QED
  BY <1>1, <1>2, <1>3, <1>4, <1>5, <1>6, <1>7, <1>8, <1>9 DEF Next

\* A dispatch succeeds only next to a row of its own digest.
LEMMA AcksKept ==
    TypeOK /\ AckedCompletionsAreRecorded /\ [Next]_vars => AckedCompletionsAreRecorded'
<1> SUFFICES ASSUME TypeOK, AckedCompletionsAreRecorded, [Next]_vars
             PROVE  AckedCompletionsAreRecorded'
  OBVIOUS
<1> USE DEF AckedCompletionsAreRecorded
<1>a. ASSUME NEW d \in Dispatches, NEW r, Succeed(d, r), UNCHANGED ledger,
             intent[d] \in DOMAIN ledger, ledger[intent[d]].digest = digest[d]
      PROVE  AckedCompletionsAreRecorded'
  <2>1. intent[d] \in Intents /\ acked' = [acked EXCEPT ![intent[d]] = @ \cup {digest[d]}]
    BY <1>a DEF Succeed, TypeOK
  <2> SUFFICES ASSUME NEW i \in Intents, acked'[i] # {}
               PROVE  i \in DOMAIN ledger /\ acked'[i] = {ledger[i].digest}
    BY <1>a
  <2>2. CASE i = intent[d]
    <3>1. acked'[i] = acked[i] \cup {digest[d]}
      BY <2>1, <2>2 DEF TypeOK
    <3>2. acked[i] = {} \/ acked[i] = {ledger[i].digest}
      OBVIOUS
    <3> QED
      BY <1>a, <2>2, <3>1, <3>2
  <2>3. CASE i # intent[d]
    BY <2>1, <2>3 DEF TypeOK
  <2> QED
    BY <2>2, <2>3
<1>1. ASSUME NEW d \in Dispatches, NEW i \in Intents, NEW g \in Digests, Start(d, i, g)
      PROVE  AckedCompletionsAreRecorded'
  BY <1>1 DEF Start, tables, ghosts
<1>2. ASSUME NEW d \in Dispatches, ReadCompletedMaterialization(d)
      PROVE  AckedCompletionsAreRecorded'
  <2>1. CASE intent[d] \in DOMAIN ledger /\ ledger[intent[d]].digest = digest[d]
    BY <1>2, <2>1, <1>a DEF ReadCompletedMaterialization, tables
  <2>2. CASE ~(intent[d] \in DOMAIN ledger /\ ledger[intent[d]].digest = digest[d])
    BY <1>2, <2>2 DEF ReadCompletedMaterialization, Refuse, tables, ghosts
  <2> QED
    BY <2>1, <2>2
<1>3. ASSUME NEW d \in Dispatches, Materialize(d)
      PROVE  AckedCompletionsAreRecorded'
  BY <1>3 DEF Materialize, tables, ghosts
<1>4. ASSUME NEW d \in Dispatches, AppendCaptures(d)
      PROVE  AckedCompletionsAreRecorded'
  BY <1>4 DEF AppendCaptures, Refuse, ghosts
<1>5. ASSUME NEW d \in Dispatches, InsertOrIgnore(d)
      PROVE  AckedCompletionsAreRecorded'
  <2>1. CASE Inserts(d)
    <3>1. /\ ledger' = Put(ledger, intent[d], Completion(d))
          /\ acked' = [acked EXCEPT ![intent[d]] = @ \cup {digest[d]}]
          /\ intent[d] \in Intents
          /\ intent[d] \notin DOMAIN ledger
      BY <1>5, <2>1 DEF InsertOrIgnore, Succeed, Inserts, TypeOK
    <3> SUFFICES ASSUME NEW i \in Intents, acked'[i] # {}
                 PROVE  i \in DOMAIN ledger' /\ acked'[i] = {ledger'[i].digest}
      OBVIOUS
    <3>2. CASE i = intent[d]
      <4>1. acked[i] = {} /\ acked'[i] = {digest[d]}
        BY <3>1, <3>2 DEF TypeOK
      <4>2. i \in DOMAIN ledger' /\ ledger'[i] = Completion(d)
        BY <3>1, <3>2 DEF Put
      <4> QED
        BY <4>1, <4>2 DEF Completion
    <3>3. CASE i # intent[d]
      <4>1. acked'[i] = acked[i]
        BY <3>1, <3>3 DEF TypeOK
      <4>2. i \in DOMAIN ledger /\ acked[i] = {ledger[i].digest}
        BY <4>1
      <4>3. i \in DOMAIN ledger' /\ ledger'[i] = ledger[i]
        BY <3>1, <3>3, <4>2 DEF Put
      <4> QED
        BY <4>1, <4>2, <4>3
    <3> QED
      BY <3>2, <3>3
  <2>2. CASE ~Inserts(d)
    BY <1>5, <2>2 DEF InsertOrIgnore, ghosts
  <2> QED
    BY <2>1, <2>2
<1>6. ASSUME NEW d \in Dispatches, ReRead(d)
      PROVE  AckedCompletionsAreRecorded'
  <2>1. CASE SameCompletion(d)
    BY <1>6, <2>1, <1>a DEF ReRead, SameCompletion, tables
  <2>2. CASE ~SameCompletion(d)
    BY <1>6, <2>2 DEF ReRead, Refuse, tables, ghosts
  <2> QED
    BY <2>1, <2>2
<1>7. ASSUME NEW i \in Intents, DeleteMaterializationIntent(i)
      PROVE  AckedCompletionsAreRecorded'
  <2>1. /\ acked' = [acked EXCEPT ![i] = {}]
        /\ DOMAIN ledger' = DOMAIN ledger \ {i}
        /\ \A j \in DOMAIN ledger' : ledger'[j] = ledger[j]
    BY <1>7 DEF DeleteMaterializationIntent, Restrict
  <2> SUFFICES ASSUME NEW j \in Intents, acked'[j] # {}
               PROVE  j \in DOMAIN ledger' /\ acked'[j] = {ledger'[j].digest}
    OBVIOUS
  <2>2. j # i /\ acked'[j] = acked[j]
    BY <2>1 DEF TypeOK
  <2> QED
    BY <2>1, <2>2
<1>8. CASE Crash
  BY <1>8 DEF Crash, tables, ghosts
<1>9. CASE UNCHANGED vars
  BY <1>9 DEF vars, tables, ghosts
<1> QED
  BY <1>1, <1>2, <1>3, <1>4, <1>5, <1>6, <1>7, <1>8, <1>9 DEF Next

-----------------------------------------------------------------------------
\* What is appended is never taken back, so what named it keeps naming it.
Kept == \A i \in DOMAIN appended : i \in DOMAIN appended' /\ appended'[i] = appended[i]

\* Every receipt a dispatch returns comes from a row or from captures it has appended.
LEMMA ReceiptsKept ==
    /\ TypeOK /\ ReceiptsNameTheCaptures /\ CapturesAreAppended
    /\ [Next]_vars
    => ReceiptsNameTheCaptures' /\ CapturesAreAppended'
<1> SUFFICES ASSUME TypeOK, ReceiptsNameTheCaptures, CapturesAreAppended, [Next]_vars
             PROVE  ReceiptsNameTheCaptures' /\ CapturesAreAppended'
  OBVIOUS
<1> USE DEF ReceiptsNameTheCaptures, CapturesAreAppended
<1>a. ASSUME NEW d \in Dispatches, NEW r, Succeed(d, r), UNCHANGED appended,
             intent[d] \in DOMAIN appended, appended[intent[d]] = r
      PROVE  ReceiptsNameTheCaptures'
  <2>1. intent[d] \in Intents /\ returned' = [returned EXCEPT ![intent[d]] = @ \cup {r}]
    BY <1>a DEF Succeed, TypeOK
  <2> SUFFICES ASSUME NEW i \in Intents, NEW q \in returned'[i]
               PROVE  i \in DOMAIN appended /\ appended[i] = q
    BY <1>a
  <2>2. CASE i = intent[d]
    <3>1. q = r \/ q \in returned[i]
      BY <2>1, <2>2 DEF TypeOK
    <3> QED
      BY <1>a, <2>2, <3>1
  <2>3. CASE i # intent[d]
    BY <2>1, <2>3 DEF TypeOK
  <2> QED
    BY <2>2, <2>3
<1>b. ASSUME NEW d \in Dispatches, pc' = [pc EXCEPT ![d] = "idle"],
             receipt' = [receipt EXCEPT ![d] = NoReceipt], UNCHANGED <<ledger, appended, intent>>
      PROVE  CapturesAreAppended'
  BY <1>b DEF TypeOK
<1>1. ASSUME NEW d \in Dispatches, NEW i \in Intents, NEW g \in Digests, Start(d, i, g)
      PROVE  ReceiptsNameTheCaptures' /\ CapturesAreAppended'
  BY <1>1 DEF Start, GoTo, tables, ghosts, TypeOK
<1>2. ASSUME NEW d \in Dispatches, ReadCompletedMaterialization(d)
      PROVE  ReceiptsNameTheCaptures' /\ CapturesAreAppended'
  <2>1. CASE intent[d] \notin DOMAIN ledger
    BY <1>2, <2>1 DEF ReadCompletedMaterialization, GoTo, tables, ghosts, TypeOK
  <2>2. CASE intent[d] \in DOMAIN ledger /\ ledger[intent[d]].digest = digest[d]
    <3>1. Succeed(d, ledger[intent[d]].receipt) /\ UNCHANGED <<ledger, appended, intent>>
      BY <1>2, <2>2 DEF ReadCompletedMaterialization, tables
    <3>2. intent[d] \in DOMAIN appended /\ appended[intent[d]] = ledger[intent[d]].receipt
      BY <2>2
    <3>3. ReceiptsNameTheCaptures'
      BY <3>1, <3>2, <1>a
    <3>4. CapturesAreAppended'
      BY <3>1, <1>b DEF Succeed, GoTo
    <3> QED
      BY <3>3, <3>4
  <2>3. CASE intent[d] \in DOMAIN ledger /\ ledger[intent[d]].digest # digest[d]
    BY <1>2, <2>3, <1>b DEF ReadCompletedMaterialization, Refuse, GoTo, tables, ghosts
  <2> QED
    BY <2>1, <2>2, <2>3
<1>3. ASSUME NEW d \in Dispatches, Materialize(d)
      PROVE  ReceiptsNameTheCaptures' /\ CapturesAreAppended'
  BY <1>3 DEF Materialize, GoTo, tables, ghosts, TypeOK
<1>4. ASSUME NEW d \in Dispatches, AppendCaptures(d)
      PROVE  ReceiptsNameTheCaptures' /\ CapturesAreAppended'
  <2>1. CASE AppendAccepts(d)
    <3>1. /\ appended' = IF intent[d] \in DOMAIN appended THEN appended
                         ELSE Put(appended, intent[d], receipt[d])
          /\ pc' = [pc EXCEPT ![d] = "record"]
          /\ UNCHANGED <<ledger, intent, receipt, returned>>
      BY <1>4, <2>1 DEF AppendCaptures, GoTo, ghosts
    <3>2. Kept
      BY <3>1 DEF Put, Kept
    <3>3. intent[d] \in DOMAIN appended' /\ appended'[intent[d]] = receipt[d]
      <4>1. CASE intent[d] \in DOMAIN appended
        BY <2>1, <3>1, <4>1 DEF AppendAccepts
      <4>2. CASE intent[d] \notin DOMAIN appended
        BY <3>1, <4>2 DEF Put
      <4> QED
        BY <4>1, <4>2
    <3>4. ReceiptsNameTheCaptures'
      BY <3>1, <3>2 DEF Kept
    <3>5. \A e \in Dispatches : pc'[e] \in {"record", "reread"} =>
            intent'[e] \in DOMAIN appended' /\ appended'[intent'[e]] = receipt'[e]
      BY <3>1, <3>2, <3>3 DEF Kept, TypeOK
    <3>6. \A i \in DOMAIN ledger' :
            i \in DOMAIN appended' /\ appended'[i] = ledger'[i].receipt
      BY <3>1, <3>2 DEF Kept
    <3> QED
      BY <3>4, <3>5, <3>6
  <2>2. CASE ~AppendAccepts(d)
    BY <1>4, <2>2, <1>b DEF AppendCaptures, Refuse, GoTo, ghosts
  <2> QED
    BY <2>1, <2>2
<1>5. ASSUME NEW d \in Dispatches, InsertOrIgnore(d)
      PROVE  ReceiptsNameTheCaptures' /\ CapturesAreAppended'
  <2>0. intent[d] \in DOMAIN appended /\ appended[intent[d]] = receipt[d]
    BY <1>5 DEF InsertOrIgnore
  <2>1. CASE Inserts(d)
    <3>1. /\ ledger' = Put(ledger, intent[d], Completion(d))
          /\ Succeed(d, receipt[d])
          /\ UNCHANGED <<appended, intent>>
      BY <1>5, <2>1 DEF InsertOrIgnore
    <3>2. ReceiptsNameTheCaptures'
      BY <2>0, <3>1, <1>a
    <3>3. \A i \in DOMAIN ledger' : \/ i = intent[d] /\ ledger'[i].receipt = receipt[d]
                                    \/ i \in DOMAIN ledger /\ ledger'[i] = ledger[i]
      BY <3>1 DEF Put, Completion
    <3>4. \A i \in DOMAIN ledger' :
            i \in DOMAIN appended' /\ appended'[i] = ledger'[i].receipt
      BY <2>0, <3>1, <3>3
    <3>5. \A e \in Dispatches : pc'[e] \in {"record", "reread"} =>
            intent'[e] \in DOMAIN appended' /\ appended'[intent'[e]] = receipt'[e]
      BY <3>1 DEF Succeed, GoTo, TypeOK
    <3> QED
      BY <3>2, <3>4, <3>5
  <2>2. CASE ~Inserts(d)
    BY <1>5, <2>0, <2>2 DEF InsertOrIgnore, GoTo, ghosts, TypeOK
  <2> QED
    BY <2>1, <2>2
<1>6. ASSUME NEW d \in Dispatches, ReRead(d)
      PROVE  ReceiptsNameTheCaptures' /\ CapturesAreAppended'
  <2>1. CASE SameCompletion(d)
    <3>1. Succeed(d, receipt[d]) /\ UNCHANGED <<ledger, appended, intent>>
      BY <1>6, <2>1 DEF ReRead, tables
    <3>2. intent[d] \in DOMAIN appended /\ appended[intent[d]] = receipt[d]
      BY <1>6 DEF ReRead
    <3>3. ReceiptsNameTheCaptures'
      BY <3>1, <3>2, <1>a
    <3>4. CapturesAreAppended'
      BY <3>1, <1>b DEF Succeed, GoTo
    <3> QED
      BY <3>3, <3>4
  <2>2. CASE ~SameCompletion(d)
    BY <1>6, <2>2, <1>b DEF ReRead, Refuse, GoTo, tables, ghosts
  <2> QED
    BY <2>1, <2>2
<1>7. ASSUME NEW i \in Intents, DeleteMaterializationIntent(i)
      PROVE  ReceiptsNameTheCaptures' /\ CapturesAreAppended'
  <2>1. /\ \A j \in DOMAIN ledger' : j \in DOMAIN ledger /\ ledger'[j] = ledger[j]
        /\ UNCHANGED <<appended, pc, intent, receipt, returned>>
    BY <1>7 DEF DeleteMaterializationIntent, Restrict, locals
  <2> QED
    BY <2>1
<1>8. CASE Crash
  BY <1>8 DEF Crash, tables, ghosts
<1>9. CASE UNCHANGED vars
  BY <1>9 DEF vars, tables, locals, ghosts
<1> QED
  BY <1>1, <1>2, <1>3, <1>4, <1>5, <1>6, <1>7, <1>8, <1>9 DEF Next

-----------------------------------------------------------------------------
\* The conjunction is an invariant of the ledger and its dispatches.
LEMMA LedgerInvHolds == Spec => []LedgerInv
<1>1. LedgerInv /\ [Next]_vars => LedgerInv'
  BY TypesKept, AcksKept, ReceiptsKept DEF LedgerInv
<1> QED
  BY InitLedgerInv, <1>1, PTL DEF Spec

\* The tables and the dispatches keep their types.
THEOREM TypeCorrect == Spec => []TypeOK
<1>1. LedgerInv => TypeOK
  BY DEF LedgerInv
<1> QED
  BY LedgerInvHolds, <1>1, PTL

\* materialization_ledger.go:111, for any number of racing dispatches and crashes: what was
\* acknowledged as completed is in the ledger with the acknowledged digest.
THEOREM CompletionsStayRecorded == Spec => []AckedCompletionsAreRecorded
<1>1. LedgerInv => AckedCompletionsAreRecorded
  BY DEF LedgerInv
<1> QED
  BY LedgerInvHolds, <1>1, PTL

\* materialization_ledger.go:136, likewise: every receipt returned for an intent names the
\* captures that the store holds for it.
THEOREM ReceiptsStayTrue == Spec => []ReceiptsNameTheCaptures
<1>1. LedgerInv => ReceiptsNameTheCaptures
  BY DEF LedgerInv
<1> QED
  BY LedgerInvHolds, <1>1, PTL

-----------------------------------------------------------------------------
(***************************************************************************)
(* Recovery returns what was persisted, for any number of checkpoints and  *)
(* any width of the integers.  What is needed besides: a row holds the     *)
(* columns of its checkpoint until its state breaks, and the rows do not   *)
(* change while a recovery iterates over them.                             *)
(***************************************************************************)
RowType == [seq : -Half .. Half - 1, state : {"int", "fraction", "broken"},
            snapshot : Snapshots \cup {EmptySnapshot}, at : Times]

\* Whatever was persisted is what the id's content says.
RowsHoldTheirContent ==
    \A i \in DOMAIN rows :
      /\ Marshals(i)
      /\ rows[i].seq = Signed(content[i].seq)
      /\ rows[i].at = content[i].at
      /\ rows[i].snapshot = Row(i).snapshot
      /\ rows[i].state # "broken" => rows[i].state = NumberToken(content[i].number)

BlobType == [id : Ids, seq : Int, number : {"int", "fraction"},
             snapshot : Snapshots \cup {EmptySnapshot}, at : Times]

\* A recovery collects blobs, and the rows it has yet to scan are there.
LoadsAreTyped ==
    /\ todo \in Seq(Ids)
    /\ conn = "load" => \A n \in 1 .. Len(todo) : todo[n] \in DOMAIN rows
    /\ blobs \in Seq(BlobType)

BlobTypes ==
    /\ content \in [Ids -> Contents]
    /\ DOMAIN rows \subseteq Ids
    /\ \A i \in DOMAIN rows : rows[i] \in RowType

RecoveryInv == BlobTypes /\ RowsHoldTheirContent /\ LoadsAreTyped /\ RecoveredAsPersisted

\* The two casts undo each other on the whole range, and the first one fits the column.
LEMMA CastsRoundTrip ==
    \A u \in 0 .. 2 * Half - 1 : Signed(u) \in -Half .. Half - 1 /\ Unsigned(Signed(u)) = u
BY RangeAssumption DEF Signed, Unsigned

\* A row that is written has the types of the columns.
LEMMA RowsAreTyped ==
    ASSUME BlobTypes, NEW i \in Ids, Marshals(i)
    PROVE  Row(i) \in RowType /\ Row(i).state = NumberToken(content[i].number)
<1>1. content[i] \in Contents
  BY DEF BlobTypes
<1>2. content[i].seq \in 0 .. 2 * Half - 1 /\ content[i].at \in Times
  BY <1>1, RangeAssumption DEF Contents
<1>3. content[i].snapshot \in Snapshots \cup {NilSnapshot, EmptySnapshot}
  BY <1>1 DEF Contents
<1>4. Signed(content[i].seq) \in -Half .. Half - 1
  BY <1>2, CastsRoundTrip
<1> QED
  BY <1>2, <1>3, <1>4 DEF Row, RowType, NumberToken

\* A persisted checkpoint leaves the table typed and true to the contents.
LEMMA PersistedRows ==
    ASSUME BlobTypes, RowsHoldTheirContent, NEW i \in Ids, Marshals(i),
           rows' = Replaced(i), content' = content
    PROVE  BlobTypes' /\ RowsHoldTheirContent'
<1>1. /\ DOMAIN rows' = DOMAIN rows \cup {i}
      /\ rows'[i] = Row(i)
      /\ \A j \in DOMAIN rows : j # i => rows'[j] = rows[j]
  BY DEF Replaced
<1>2. Row(i) \in RowType /\ Row(i).state = NumberToken(content[i].number)
  BY RowsAreTyped
<1>3. BlobTypes'
  BY <1>1, <1>2 DEF BlobTypes
<1>4. /\ Row(i).seq = Signed(content[i].seq)
      /\ Row(i).at = content[i].at
  BY DEF Row
<1>5. \A j : Row(j)' = Row(j) /\ Marshals(j)' = Marshals(j)
  BY DEF Row, Marshals
<1>6. RowsHoldTheirContent'
  BY <1>1, <1>2, <1>4, <1>5 DEF RowsHoldTheirContent
<1> QED
  BY <1>3, <1>6

\* What the scan makes of an intact row is what was persisted.
LEMMA RecoveredRow ==
    ASSUME BlobTypes, RowsHoldTheirContent, NEW i \in DOMAIN rows, rows[i].state # "broken"
    PROVE  /\ Recovered(i) \in BlobType
           /\ Recovered(i).id = i
           /\ Recovered(i).seq = content[i].seq
           /\ Recovered(i).at = content[i].at
           /\ content[i].snapshot # NilSnapshot => Recovered(i).snapshot = content[i].snapshot
           /\ content[i].snapshot = NilSnapshot => Recovered(i).snapshot = EmptySnapshot
           /\ content[i].number # "whole" => Recovered(i).number = content[i].number
<1>1. i \in Ids /\ content[i] \in Contents /\ rows[i] \in RowType
  BY DEF BlobTypes
<1>2. content[i].seq \in 0 .. 2 * Half - 1
  BY <1>1, RangeAssumption DEF Contents
<1>3. Unsigned(rows[i].seq) = content[i].seq
  BY <1>2, CastsRoundTrip DEF RowsHoldTheirContent
<1>4. /\ rows[i].snapshot = Row(i).snapshot
      /\ rows[i].at = content[i].at
      /\ rows[i].state = NumberToken(content[i].number)
      /\ content[i].number # "nan"
  BY DEF RowsHoldTheirContent, Marshals
<1>n. content[i].number \in {"int", "whole", "fraction", "nan"}
  BY <1>1, RangeAssumption DEF Contents
<1>5. /\ rows[i].state \in {"int", "fraction"}
      /\ rows[i].snapshot \in Snapshots \cup {EmptySnapshot}
      /\ rows[i].at \in Times
  BY <1>1 DEF RowType
<1>6. Recovered(i) \in BlobType
  BY <1>1, <1>2, <1>3, <1>5 DEF Recovered, BlobType
<1> QED
  BY <1>3, <1>4, <1>6, <1>n DEF Recovered, Row, NumberToken

-----------------------------------------------------------------------------
\* Nothing is stored and nothing recovered at first.
LEMMA InitRecoveryInv == BlobsInit => RecoveryInv
<1> SUFFICES ASSUME BlobsInit PROVE RecoveryInv
  OBVIOUS
<1>1. BlobTypes /\ RowsHoldTheirContent
  BY DEF BlobsInit, BlobTypes, RowsHoldTheirContent
<1>2. LoadsAreTyped /\ RecoveredAsPersisted
  BY DEF BlobsInit, LoadsAreTyped, RecoveredAsPersisted
<1> QED
  BY <1>1, <1>2 DEF RecoveryInv

\* A scanned row adds what was persisted to the blobs, or its id to the corrupt ones.
LEMMA ScanKeepsTheBlobs ==
    ASSUME RecoveryInv, ScanRow
    PROVE  LoadsAreTyped' /\ RecoveredAsPersisted'
<1> DEFINE i == Head(todo)
<1> USE DEF RecoveryInv
<1>1. /\ todo \in Seq(Ids) /\ todo # << >>
      /\ conn = "load" /\ conn' = conn /\ rows' = rows /\ content' = content
      /\ blobs \in Seq(BlobType)
  BY DEF ScanRow, LoadsAreTyped
<1>2. i \in DOMAIN rows /\ i = todo[1]
  BY <1>1 DEF LoadsAreTyped
<1>3. todo' = Tail(todo)
  BY DEF ScanRow, AfterCorrupt
<1>4. /\ todo' \in Seq(Ids)
      /\ \A n \in 1 .. Len(todo') : todo'[n] \in DOMAIN rows'
  <2>1. Tail(todo) \in Seq(Ids) /\ Len(Tail(todo)) = Len(todo) - 1
    BY <1>1
  <2>2. \A n \in 1 .. Len(Tail(todo)) : Tail(todo)[n] = todo[n + 1] /\ n + 1 \in 1 .. Len(todo)
    BY <1>1, <2>1
  <2> QED
    BY <1>1, <1>3, <2>1, <2>2 DEF LoadsAreTyped
<1>5. CASE rows[i].state # "broken"
  <2> DEFINE b == Recovered(i)
  <2>1. blobs' = Append(blobs, b)
    BY <1>5 DEF ScanRow
  <2>2. /\ b \in BlobType
        /\ b.id = i
        /\ b.seq = content[i].seq
        /\ b.at = content[i].at
        /\ content[i].snapshot # NilSnapshot => b.snapshot = content[i].snapshot
        /\ content[i].snapshot = NilSnapshot => b.snapshot = EmptySnapshot
        /\ content[i].number # "whole" => b.number = content[i].number
    BY <1>2, <1>5, RecoveredRow
  <2> HIDE DEF b, i
  <2>3. /\ blobs' \in Seq(BlobType)
        /\ Len(blobs') = Len(blobs) + 1
        /\ blobs'[Len(blobs) + 1] = b
        /\ \A n \in 1 .. Len(blobs) : blobs'[n] = blobs[n]
    BY <1>1, <2>1, <2>2
  <2>4. RecoveredAsPersisted'
    <3> SUFFICES ASSUME NEW n \in 1 .. Len(blobs')
                 PROVE  LET e == blobs'[n]  c == content[e.id] IN
                          /\ e.seq = c.seq
                          /\ e.at = c.at
                          /\ c.snapshot # NilSnapshot => e.snapshot = c.snapshot
                          /\ c.snapshot = NilSnapshot => e.snapshot = EmptySnapshot
                          /\ c.number # "whole" => e.number = c.number
      BY <1>1 DEF RecoveredAsPersisted
    <3>1. CASE n \in 1 .. Len(blobs)
      BY <2>3, <3>1 DEF RecoveredAsPersisted
    <3>2. CASE n = Len(blobs) + 1
      BY <2>2, <2>3, <3>2
    <3>3. Len(blobs) \in Nat
      BY <1>1
    <3> QED
      BY <2>3, <3>1, <3>2, <3>3
  <2> QED
    BY <1>1, <1>4, <2>3, <2>4 DEF LoadsAreTyped
<1>6. CASE rows[i].state = "broken"
  <2>1. blobs' = blobs
    BY <1>6 DEF ScanRow
  <2> QED
    BY <1>1, <1>4, <2>1 DEF LoadsAreTyped, RecoveredAsPersisted
<1> QED
  BY <1>5, <1>6

\* A recovery starts with the ids of all rows and with nothing collected.
LEMMA LoadStarts ==
    ASSUME RecoveryInv, LoadCheckpointBlobs
    PROVE  LoadsAreTyped' /\ RecoveredAsPersisted'
<1>1. DOMAIN rows \subseteq Ids
  BY DEF RecoveryInv, BlobTypes
<1>2. Cardinality(DOMAIN rows) \in Nat
  BY <1>1, RangeAssumption, FS_Subset, FS_CardinalityType
<1>3. /\ todo' \in [1 .. Cardinality(DOMAIN rows) -> DOMAIN rows]
      /\ blobs' = << >> /\ rows' = rows
  BY DEF LoadCheckpointBlobs, Orders
<1>4. /\ todo' \in Seq(DOMAIN rows)
      /\ \A n \in 1 .. Len(todo') : todo'[n] \in DOMAIN rows
  BY <1>2, <1>3
<1>5. todo' \in Seq(Ids)
  BY <1>1, <1>4
<1> QED
  BY <1>3, <1>4, <1>5 DEF LoadsAreTyped, RecoveredAsPersisted

\* Every step keeps the invariant.
LEMMA InvKept == RecoveryInv /\ [BlobsNext]_blobsVars => RecoveryInv'
<1> SUFFICES ASSUME RecoveryInv, [BlobsNext]_blobsVars PROVE RecoveryInv'
  OBVIOUS
<1> USE DEF RecoveryInv
<1>a. ASSUME UNCHANGED load, content' = content, conn = "free"
      PROVE  LoadsAreTyped' /\ RecoveredAsPersisted'
  BY <1>a DEF load, LoadsAreTyped, RecoveredAsPersisted
<1>b. ASSUME rows' = rows, content' = content
      PROVE  BlobTypes' /\ RowsHoldTheirContent'
  BY <1>b DEF BlobTypes, RowsHoldTheirContent, Row, Marshals
<1>1. ASSUME NEW i \in Ids, PersistCheckpointBlob(i) PROVE RecoveryInv'
  <2>1. Marshals(i) /\ rows' = Replaced(i) /\ content' = content /\ conn = "free" /\ UNCHANGED load
    BY <1>1 DEF PersistCheckpointBlob
  <2>2. BlobTypes' /\ RowsHoldTheirContent'
    BY <2>1, PersistedRows
  <2> QED
    BY <2>1, <2>2, <1>a
<1>2. ASSUME NEW i \in Ids, PersistFails(i) PROVE RecoveryInv'
  <2>1. Marshals(i) /\ rows' = Replaced(i) /\ content' = content /\ conn = "free" /\ UNCHANGED load
    BY <1>2 DEF PersistFails
  <2>2. BlobTypes' /\ RowsHoldTheirContent'
    BY <2>1, PersistedRows
  <2> QED
    BY <2>1, <2>2, <1>a
<1>3. ASSUME NEW i \in Ids, DeleteCheckpointBlob(i) PROVE RecoveryInv'
  <2>1. /\ DOMAIN rows' = DOMAIN rows \ {i}
        /\ \A j \in DOMAIN rows' : rows'[j] = rows[j]
        /\ content' = content /\ conn = "free" /\ UNCHANGED load
    BY <1>3 DEF DeleteCheckpointBlob, Restrict
  <2>2. BlobTypes' /\ RowsHoldTheirContent'
    BY <2>1 DEF BlobTypes, RowsHoldTheirContent, Row, Marshals
  <2> QED
    BY <2>1, <2>2, <1>a
<1>4. ASSUME NEW i \in Ids, Damage(i) PROVE RecoveryInv'
  <2>1. /\ i \in DOMAIN rows
        /\ rows' = [rows EXCEPT ![i].state = "broken"]
        /\ content' = content /\ conn = "free" /\ UNCHANGED load
    BY <1>4 DEF Damage
  <2>2. rows[i] \in RowType
    BY <2>1 DEF BlobTypes
  <2>3. /\ DOMAIN rows' = DOMAIN rows
        /\ \A j \in DOMAIN rows : j # i => rows'[j] = rows[j]
        /\ rows'[i] = [rows[i] EXCEPT !.state = "broken"]
    BY <2>1
  <2>4. /\ rows'[i] \in RowType
        /\ rows'[i].seq = rows[i].seq /\ rows'[i].at = rows[i].at
        /\ rows'[i].snapshot = rows[i].snapshot /\ rows'[i].state = "broken"
    BY <2>2, <2>3 DEF RowType
  <2>5. BlobTypes'
    BY <2>1, <2>3, <2>4 DEF BlobTypes
  <2>6. RowsHoldTheirContent'
    BY <2>1, <2>3, <2>4 DEF RowsHoldTheirContent, Row, Marshals
  <2> QED
    BY <2>1, <2>5, <2>6, <1>a
<1>5. CASE LoadCheckpointBlobs
  <2>1. BlobTypes' /\ RowsHoldTheirContent'
    BY <1>5, <1>b DEF LoadCheckpointBlobs
  <2> QED
    BY <1>5, <2>1, LoadStarts
<1>6. CASE ScanRow
  <2>1. BlobTypes' /\ RowsHoldTheirContent'
    BY <1>6, <1>b DEF ScanRow
  <2> QED
    BY <1>6, <2>1, ScanKeepsTheBlobs
<1>7. CASE LoadReturns
  <2>1. BlobTypes' /\ RowsHoldTheirContent'
    BY <1>7, <1>b DEF LoadReturns
  <2> QED
    BY <1>7, <2>1 DEF LoadReturns, LoadsAreTyped, RecoveredAsPersisted
<1>8. CASE EndProcess
  <2>1. BlobTypes' /\ RowsHoldTheirContent'
    BY <1>8, <1>b DEF EndProcess
  <2> QED
    BY <1>8, <2>1 DEF EndProcess, LoadsAreTyped, RecoveredAsPersisted
<1>9. CASE UNCHANGED blobsVars
  <2>1. BlobTypes' /\ RowsHoldTheirContent'
    BY <1>9, <1>b DEF blobsVars
  <2> QED
    BY <1>9, <2>1 DEF blobsVars, LoadsAreTyped, RecoveredAsPersisted
<1> QED
  BY <1>1, <1>2, <1>3, <1>4, <1>5, <1>6, <1>7, <1>8, <1>9 DEF BlobsNext

\* checkpoint_blob.go:109, for every width of the integers and all contents: a recovered
\* blob is what was persisted.
THEOREM RecoveriesAreFaithful == BlobsSpec => []RecoveredAsPersisted
<1>1. RecoveryInv => RecoveredAsPersisted
  BY DEF RecoveryInv
<1> QED
  BY InitRecoveryInv, InvKept, <1>1, PTL DEF BlobsSpec

-----------------------------------------------------------------------------
(***************************************************************************)
(* A recovery that returns no error accounts for every checkpoint.  While  *)
(* it runs no row changes, and each row is ahead of the scan, among the    *)
(* blobs or among the corrupt ids, in one place of one of the three.       *)
(***************************************************************************)
IsAhead(i)   == \E n \in 1 .. Len(todo) : todo[n] = i
IsBlob(i)    == \E n \in 1 .. Len(blobs) : blobs[n].id = i
IsCorrupt(i) == \E n \in 1 .. Len(corrupt) : corrupt[n] = i

\* The table has what was handed out and not restored, and nothing restored.
TableHoldsTheHanded ==
    /\ \A i \in handed : i \in restored \/ i \in DOMAIN rows
    /\ \A i \in restored : i \notin DOMAIN rows

EachRowOnce ==
    /\ \A i \in Ids : i \in DOMAIN rows <=> (IsAhead(i) \/ IsBlob(i) \/ IsCorrupt(i))
    /\ \A i \in Ids : /\ ~(IsAhead(i) /\ IsBlob(i))
                      /\ ~(IsAhead(i) /\ IsCorrupt(i))
                      /\ ~(IsBlob(i) /\ IsCorrupt(i))
    /\ \A m, n \in 1 .. Len(todo) : todo[m] = todo[n] => m = n
    /\ \A m, n \in 1 .. Len(blobs) : blobs[m].id = blobs[n].id => m = n
    /\ \A m, n \in 1 .. Len(corrupt) : corrupt[m] = corrupt[n] => m = n

OldestFirst ==
    /\ \A m, n \in 1 .. Len(todo) : m < n => rows[todo[m]].at <= rows[todo[n]].at
    /\ \A m \in 1 .. Len(blobs), n \in 1 .. Len(todo) : blobs[m].at <= rows[todo[n]].at
    /\ \A m, n \in 1 .. Len(blobs) : m < n => blobs[m].at <= blobs[n].at

ScanInv ==
    /\ RecoveryInv
    /\ TableHoldsTheHanded
    /\ corrupt \in Seq(Ids)
    /\ conn = "load" => EachRowOnce /\ OldestFirst

\* The times in the table can be compared.
LEMMA TimesAreNumbers ==
    ASSUME BlobTypes, NEW i \in DOMAIN rows
    PROVE  rows[i].at \in Int
  BY RangeAssumption DEF BlobTypes, RowType

\* An order of the rows has each of them at one place, and later places are not older.
LEMMA OrdersAreWhole ==
    ASSUME BlobTypes, NEW s \in Orders(DOMAIN rows)
    PROVE  /\ s \in Seq(DOMAIN rows)
           /\ \A i \in DOMAIN rows : \E n \in 1 .. Len(s) : s[n] = i
           /\ \A n \in 1 .. Len(s) : s[n] \in DOMAIN rows
           /\ \A m, n \in 1 .. Len(s) : s[m] = s[n] => m = n
           /\ \A m, n \in 1 .. Len(s) : m < n => rows[s[m]].at <= rows[s[n]].at
<1> DEFINE S == DOMAIN rows
           N == Cardinality(S)
<1>1. IsFiniteSet(S)
  BY RangeAssumption, FS_Subset DEF BlobTypes
<1>2. N \in Nat
  BY <1>1, FS_CardinalityType
<1>3. /\ s \in [1 .. N -> S]
      /\ \A m, n \in 1 .. N : m < n => s[m] # s[n] /\ ~Older(s[n], s[m])
  BY DEF Orders
<1>o. \A m, n \in 1 .. N : m < n => ~(rows[s[n]].at < rows[s[m]].at)
  BY <1>3 DEF Older
<1>t. \A i \in S : rows[i].at \in Int
  BY TimesAreNumbers
<1> HIDE DEF S, N
<1>4. \A m, n \in 1 .. N : s[m] = s[n] => m = n
  BY <1>2, <1>3
<1>5. s \in Injection(1 .. N, S)
  BY <1>3, <1>4 DEF Injection, IsInjective
<1>6. IsFiniteSet(1 .. N) /\ Cardinality(1 .. N) = N
  BY <1>2, FS_Interval
<1>7. s \in Surjection(1 .. N, S)
  BY <1>1, <1>5, <1>6, FS_Injection DEF N
<1>8. \A i \in S : \E n \in 1 .. N : s[n] = i
  BY <1>7 DEF Surjection
<1>9. s \in Seq(S) /\ Len(s) = N
  BY <1>2, <1>3
<1>10. \A m, n \in 1 .. N : m < n => rows[s[m]].at <= rows[s[n]].at
  <2> SUFFICES ASSUME NEW m \in 1 .. N, NEW n \in 1 .. N, m < n
               PROVE  rows[s[m]].at <= rows[s[n]].at
    OBVIOUS
  <2>1. s[m] \in S /\ s[n] \in S
    BY <1>3
  <2>2. rows[s[m]].at \in Int /\ rows[s[n]].at \in Int
    BY <1>t, <2>1
  <2> QED
    BY <1>o, <2>2
<1> QED
  BY <1>3, <1>4, <1>8, <1>9, <1>10 DEF S

\* A recovery starts with every row ahead of it.
LEMMA LoadStartsWhole ==
    ASSUME RecoveryInv, LoadCheckpointBlobs
    PROVE  EachRowOnce' /\ OldestFirst'
<1>1. /\ todo' \in Orders(DOMAIN rows)
      /\ blobs' = << >> /\ corrupt' = << >> /\ rows' = rows
  BY DEF LoadCheckpointBlobs
<1>2. /\ todo' \in Seq(DOMAIN rows)
      /\ \A i \in DOMAIN rows : \E n \in 1 .. Len(todo') : todo'[n] = i
      /\ \A n \in 1 .. Len(todo') : todo'[n] \in DOMAIN rows
      /\ \A m, n \in 1 .. Len(todo') : todo'[m] = todo'[n] => m = n
      /\ \A m, n \in 1 .. Len(todo') : m < n => rows[todo'[m]].at <= rows[todo'[n]].at
  BY <1>1, OrdersAreWhole DEF RecoveryInv
<1>3. Len(blobs') = 0 /\ Len(corrupt') = 0
  BY <1>1
<1>n. 1 .. Len(blobs') = {} /\ 1 .. Len(corrupt') = {}
  BY <1>3
<1>4. EachRowOnce'
  <2>1. \A i : ~IsBlob(i)' /\ ~IsCorrupt(i)'
    BY <1>n DEF IsBlob, IsCorrupt
  <2>2. \A i : i \in DOMAIN rows' <=> IsAhead(i)'
    BY <1>1, <1>2 DEF IsAhead
  <2>3. /\ \A m, n \in 1 .. Len(blobs') : blobs'[m].id = blobs'[n].id => m = n
        /\ \A m, n \in 1 .. Len(corrupt') : corrupt'[m] = corrupt'[n] => m = n
    BY <1>n
  <2> QED
    BY <1>2, <2>1, <2>2, <2>3 DEF EachRowOnce
<1>5. OldestFirst'
  <2>1. /\ \A m \in 1 .. Len(blobs'), n \in 1 .. Len(todo') : blobs'[m].at <= rows'[todo'[n]].at
        /\ \A m, n \in 1 .. Len(blobs') : m < n => blobs'[m].at <= blobs'[n].at
    BY <1>n
  <2> QED
    BY <1>1, <1>2, <2>1 DEF OldestFirst
<1> QED
  BY <1>4, <1>5

\* What the scan of a row leaves ahead.
LEMMA ScanTakesTheHead ==
    ASSUME RecoveryInv, EachRowOnce, OldestFirst, ScanRow
    PROVE  /\ todo[1] \in DOMAIN rows
           /\ Len(todo) \in Nat /\ 1 \in 1 .. Len(todo)
           /\ todo' \in Seq(Ids)
           /\ \A n \in 1 .. Len(todo') : n + 1 \in 1 .. Len(todo) /\ todo'[n] = todo[n + 1]
           /\ \A i : IsAhead(i)' <=> (IsAhead(i) /\ i # todo[1])
           /\ \A m, n \in 1 .. Len(todo') : todo'[m] = todo'[n] => m = n
           /\ \A m, n \in 1 .. Len(todo') : m < n => rows[todo'[m]].at <= rows[todo'[n]].at
<1>1. /\ todo \in Seq(Ids) /\ todo # << >> /\ todo' = Tail(todo)
      /\ \A n \in 1 .. Len(todo) : todo[n] \in DOMAIN rows
  BY DEF ScanRow, AfterCorrupt, RecoveryInv, LoadsAreTyped
<1>2. /\ Len(todo) \in Nat /\ 1 \in 1 .. Len(todo)
      /\ todo' \in Seq(Ids) /\ Len(todo') = Len(todo) - 1
  BY <1>1
<1>3. \A n \in 1 .. Len(todo') : n + 1 \in 1 .. Len(todo) /\ todo'[n] = todo[n + 1]
  BY <1>1, <1>2
<1>4. \A n \in 1 .. Len(todo) : n # 1 => n - 1 \in 1 .. Len(todo') /\ todo'[n - 1] = todo[n]
  BY <1>1, <1>2
<1>5. \A m, n \in 1 .. Len(todo) : todo[m] = todo[n] => m = n
  BY DEF EachRowOnce
<1>6. ASSUME NEW i PROVE IsAhead(i)' <=> (IsAhead(i) /\ i # todo[1])
  <2>1. ASSUME NEW n \in 1 .. Len(todo'), todo'[n] = i
        PROVE  IsAhead(i) /\ i # todo[1]
    <3>1. n + 1 \in 1 .. Len(todo) /\ todo[n + 1] = i /\ n + 1 # 1
      BY <1>2, <1>3, <2>1
    <3> QED
      BY <1>2, <1>5, <3>1 DEF IsAhead
  <2>2. ASSUME NEW n \in 1 .. Len(todo), todo[n] = i, i # todo[1]
        PROVE  IsAhead(i)'
    <3>1. n - 1 \in 1 .. Len(todo') /\ todo'[n - 1] = i
      BY <1>4, <2>2
    <3> QED
      BY <3>1 DEF IsAhead
  <2> QED
    BY <2>1, <2>2 DEF IsAhead
<1>7. \A m, n \in 1 .. Len(todo') : todo'[m] = todo'[n] => m = n
  <2> SUFFICES ASSUME NEW m \in 1 .. Len(todo'), NEW n \in 1 .. Len(todo'), todo'[m] = todo'[n]
               PROVE  m = n
    OBVIOUS
  <2>1. /\ m + 1 \in 1 .. Len(todo) /\ n + 1 \in 1 .. Len(todo)
        /\ todo[m + 1] = todo[n + 1]
    BY <1>3
  <2>2. m + 1 = n + 1
    BY <1>5, <2>1
  <2> QED
    BY <2>2
<1>8. \A m, n \in 1 .. Len(todo) : m < n => rows[todo[m]].at <= rows[todo[n]].at
  BY DEF OldestFirst
<1>9. ASSUME NEW m \in 1 .. Len(todo'), NEW n \in 1 .. Len(todo'), m < n
      PROVE  rows[todo'[m]].at <= rows[todo'[n]].at
  <2>1. /\ m + 1 \in 1 .. Len(todo) /\ n + 1 \in 1 .. Len(todo)
        /\ todo'[m] = todo[m + 1] /\ todo'[n] = todo[n + 1]
    BY <1>3
  <2>2. m + 1 < n + 1
    BY <1>9
  <2> QED
    BY <1>8, <2>1, <2>2
<1> QED
  BY <1>1, <1>2, <1>3, <1>6, <1>7, <1>9

\* A sequence that gets one more element, seen by a property of its elements.
LEMMA OneMore ==
    ASSUME NEW S, NEW s \in Seq(S), NEW x \in S
    PROVE  /\ Append(s, x) \in Seq(S)
           /\ Len(s) \in Nat
           /\ Len(Append(s, x)) = Len(s) + 1
           /\ Append(s, x)[Len(s) + 1] = x
           /\ \A n \in 1 .. Len(s) : Append(s, x)[n] = s[n]
           /\ \A n \in 1 .. Len(Append(s, x)) : n \in 1 .. Len(s) \/ n = Len(s) + 1
  OBVIOUS

\* An intact row comes to the end of the blobs, and is not younger than what is ahead.
LEMMA ScanOfABlob ==
    ASSUME ScanInv, ScanRow, rows[todo[1]].state # "broken"
    PROVE  EachRowOnce' /\ OldestFirst'
<1> DEFINE i == todo[1]
           b == Recovered(i)
<1>1. /\ conn = "load" /\ rows' = rows /\ todo \in Seq(Ids) /\ todo # << >>
      /\ EachRowOnce /\ OldestFirst /\ RecoveryInv /\ BlobTypes /\ RowsHoldTheirContent
      /\ blobs \in Seq(BlobType)
  BY DEF ScanRow, ScanInv, RecoveryInv, LoadsAreTyped
<1>2. /\ i \in DOMAIN rows
      /\ Len(todo) \in Nat /\ 1 \in 1 .. Len(todo)
      /\ todo' \in Seq(Ids)
      /\ \A n \in 1 .. Len(todo') : n + 1 \in 1 .. Len(todo) /\ todo'[n] = todo[n + 1]
      /\ \A j : IsAhead(j)' <=> (IsAhead(j) /\ j # i)
      /\ \A m, n \in 1 .. Len(todo') : todo'[m] = todo'[n] => m = n
  BY <1>1, ScanTakesTheHead
<1>s. \A m, n \in 1 .. Len(todo') : m < n => rows[todo'[m]].at <= rows[todo'[n]].at
  BY <1>1, ScanTakesTheHead
<1>3. blobs' = Append(blobs, b) /\ corrupt' = corrupt
  BY <1>1 DEF ScanRow
<1>4. b \in BlobType /\ b.id = i
  BY <1>1, <1>2, RecoveredRow
<1>5. b.at = rows[i].at
  BY DEF Recovered
<1>6. \A j \in DOMAIN rows : rows[j].at \in Int
  BY <1>1, TimesAreNumbers
<1>7. \A n \in 1 .. Len(todo) : todo[n] \in DOMAIN rows
  BY <1>1 DEF RecoveryInv, LoadsAreTyped
<1>i. IsAhead(i)
  BY <1>2 DEF IsAhead
<1> HIDE DEF i, b
<1>8. /\ Len(blobs) \in Nat
      /\ Len(blobs') = Len(blobs) + 1
      /\ blobs'[Len(blobs) + 1] = b
      /\ \A n \in 1 .. Len(blobs) : blobs'[n] = blobs[n]
      /\ \A n \in 1 .. Len(blobs') : n \in 1 .. Len(blobs) \/ n = Len(blobs) + 1
      /\ Len(blobs) + 1 \in 1 .. Len(blobs')
      /\ \A n \in 1 .. Len(blobs) : n \in 1 .. Len(blobs')
  BY <1>1, <1>3, <1>4, OneMore
<1>9. \A j : IsBlob(j)' <=> (IsBlob(j) \/ j = i)
  BY <1>4, <1>8 DEF IsBlob
<1>10. \A j : IsCorrupt(j)' <=> IsCorrupt(j)
  BY <1>3 DEF IsCorrupt
<1>12. \A n \in 1 .. Len(blobs) : blobs[n].id # i
  <2>1. i \in Ids
    BY <1>1, <1>2 DEF BlobTypes
  <2> QED
    BY <1>1, <1>i, <2>1 DEF EachRowOnce, IsBlob
<1>13. \A m, n \in 1 .. Len(blobs') : blobs'[m].id = blobs'[n].id => m = n
  BY <1>1, <1>4, <1>8, <1>12 DEF EachRowOnce
<1>14. EachRowOnce'
  <2>1. \A j \in Ids : j \in DOMAIN rows <=> (IsAhead(j)' \/ IsBlob(j)' \/ IsCorrupt(j)')
    BY <1>1, <1>2, <1>9, <1>10 DEF EachRowOnce, BlobTypes
  <2>2. \A j \in Ids : /\ ~(IsAhead(j)' /\ IsBlob(j)')
                       /\ ~(IsAhead(j)' /\ IsCorrupt(j)')
                       /\ ~(IsBlob(j)' /\ IsCorrupt(j)')
    BY <1>1, <1>2, <1>i, <1>9, <1>10 DEF EachRowOnce, BlobTypes
  <2> QED
    BY <1>1, <1>2, <1>3, <1>13, <2>1, <2>2 DEF EachRowOnce
<1>16. \A m \in 1 .. Len(blobs'), n \in 1 .. Len(todo') : blobs'[m].at <= rows[todo'[n]].at
  <2> SUFFICES ASSUME NEW m \in 1 .. Len(blobs'), NEW n \in 1 .. Len(todo')
               PROVE  blobs'[m].at <= rows[todo'[n]].at
    OBVIOUS
  <2>1. n + 1 \in 1 .. Len(todo) /\ 1 < n + 1 /\ todo'[n] = todo[n + 1]
    BY <1>2
  <2>2. CASE m \in 1 .. Len(blobs)
    BY <1>1, <1>8, <2>1, <2>2 DEF OldestFirst
  <2>3. CASE m = Len(blobs) + 1
    <3>1. rows[todo[1]].at <= rows[todo[n + 1]].at
      BY <1>1, <1>2, <2>1 DEF OldestFirst
    <3> QED
      BY <1>5, <1>8, <2>1, <2>3, <3>1 DEF i
  <2> QED
    BY <1>8, <2>2, <2>3
<1>17. \A m, n \in 1 .. Len(blobs') : m < n => blobs'[m].at <= blobs'[n].at
  <2> SUFFICES ASSUME NEW m \in 1 .. Len(blobs'), NEW n \in 1 .. Len(blobs'), m < n
               PROVE  blobs'[m].at <= blobs'[n].at
    OBVIOUS
  <2>1. m \in 1 .. Len(blobs)
    BY <1>8
  <2>2. CASE n \in 1 .. Len(blobs)
    BY <1>1, <1>8, <2>1, <2>2 DEF OldestFirst
  <2>3. CASE n = Len(blobs) + 1
    <3>1. blobs[m].at <= rows[todo[1]].at
      BY <1>1, <1>2, <2>1 DEF OldestFirst
    <3> QED
      BY <1>5, <1>8, <2>1, <2>3, <3>1 DEF i
  <2> QED
    BY <1>8, <2>2, <2>3
<1> QED
  BY <1>1, <1>14, <1>s, <1>16, <1>17 DEF OldestFirst

\* A corrupt row comes to the end of the corrupt ids, and the scan goes on behind it.
LEMMA ScanOfACorruptRow ==
    ASSUME ScanInv, ScanRow, rows[todo[1]].state = "broken"
    PROVE  corrupt' \in Seq(Ids) /\ EachRowOnce' /\ OldestFirst'
<1> DEFINE i == todo[1]
<1>1. /\ conn = "load" /\ rows' = rows /\ todo \in Seq(Ids) /\ todo # << >>
      /\ EachRowOnce /\ OldestFirst /\ RecoveryInv /\ BlobTypes /\ corrupt \in Seq(Ids)
  BY DEF ScanRow, ScanInv, RecoveryInv, LoadsAreTyped
<1>2. /\ i \in DOMAIN rows
      /\ Len(todo) \in Nat /\ 1 \in 1 .. Len(todo)
      /\ todo' \in Seq(Ids)
      /\ \A n \in 1 .. Len(todo') : n + 1 \in 1 .. Len(todo) /\ todo'[n] = todo[n + 1]
      /\ \A j : IsAhead(j)' <=> (IsAhead(j) /\ j # i)
      /\ \A m, n \in 1 .. Len(todo') : todo'[m] = todo'[n] => m = n
  BY <1>1, ScanTakesTheHead
<1>s. \A m, n \in 1 .. Len(todo') : m < n => rows[todo'[m]].at <= rows[todo'[n]].at
  BY <1>1, ScanTakesTheHead
<1>3. corrupt' = Append(corrupt, i) /\ blobs' = blobs
  BY <1>1 DEF ScanRow
<1>4. i \in Ids
  BY <1>1, <1>2 DEF BlobTypes
<1>i. IsAhead(i)
  BY <1>2 DEF IsAhead
<1> HIDE DEF i
<1>8. /\ Len(corrupt) \in Nat
      /\ corrupt' \in Seq(Ids)
      /\ Len(corrupt') = Len(corrupt) + 1
      /\ corrupt'[Len(corrupt) + 1] = i
      /\ \A n \in 1 .. Len(corrupt) : corrupt'[n] = corrupt[n]
      /\ \A n \in 1 .. Len(corrupt') : n \in 1 .. Len(corrupt) \/ n = Len(corrupt) + 1
      /\ Len(corrupt) + 1 \in 1 .. Len(corrupt')
      /\ \A n \in 1 .. Len(corrupt) : n \in 1 .. Len(corrupt')
  BY <1>1, <1>3, <1>4, OneMore
<1>9. \A j : IsCorrupt(j)' <=> (IsCorrupt(j) \/ j = i)
  BY <1>8 DEF IsCorrupt
<1>10. \A j : IsBlob(j)' <=> IsBlob(j)
  BY <1>3 DEF IsBlob
<1>12. \A n \in 1 .. Len(corrupt) : corrupt[n] # i
  BY <1>1, <1>i DEF EachRowOnce, IsCorrupt
<1>13. \A m, n \in 1 .. Len(corrupt') : corrupt'[m] = corrupt'[n] => m = n
  BY <1>1, <1>8, <1>12 DEF EachRowOnce
<1>14. EachRowOnce'
  <2>1. \A j \in Ids : j \in DOMAIN rows <=> (IsAhead(j)' \/ IsBlob(j)' \/ IsCorrupt(j)')
    BY <1>1, <1>2, <1>9, <1>10 DEF EachRowOnce, BlobTypes
  <2>2. \A j \in Ids : /\ ~(IsAhead(j)' /\ IsBlob(j)')
                       /\ ~(IsAhead(j)' /\ IsCorrupt(j)')
                       /\ ~(IsBlob(j)' /\ IsCorrupt(j)')
    BY <1>1, <1>2, <1>i, <1>9, <1>10 DEF EachRowOnce, BlobTypes
  <2> QED
    BY <1>1, <1>2, <1>3, <1>13, <2>1, <2>2 DEF EachRowOnce
<1>15. OldestFirst'
  <2>2. \A m \in 1 .. Len(blobs), n \in 1 .. Len(todo') : blobs[m].at <= rows[todo'[n]].at
    BY <1>1, <1>2 DEF OldestFirst
  <2> QED
    BY <1>1, <1>3, <1>s, <2>2 DEF OldestFirst
<1> QED
  BY <1>8, <1>14, <1>15

-----------------------------------------------------------------------------
\* There is nothing to account for at first.
LEMMA InitScanInv == BlobsInit => ScanInv
<1>1. BlobsInit => TableHoldsTheHanded /\ corrupt \in Seq(Ids) /\ conn # "load"
  BY DEF BlobsInit, TableHoldsTheHanded
<1> QED
  BY <1>1, InitRecoveryInv DEF ScanInv

\* Every step keeps the invariant.
LEMMA ScanInvKept == ScanInv /\ [BlobsNext]_blobsVars => ScanInv'
<1> SUFFICES ASSUME ScanInv, [BlobsNext]_blobsVars PROVE ScanInv'
  OBVIOUS
<1>0. RecoveryInv'
  BY InvKept DEF ScanInv
<1>a. ASSUME conn' = "free", corrupt' = corrupt, TableHoldsTheHanded'
      PROVE  ScanInv'
  BY <1>a, <1>0 DEF ScanInv
<1>1. ASSUME NEW i \in Ids, PersistCheckpointBlob(i) \/ PersistFails(i) PROVE ScanInv'
  <2>1. /\ i \notin restored /\ rows' = Replaced(i) /\ restored' = restored
        /\ handed' \subseteq handed \cup {i}
        /\ conn = "free" /\ UNCHANGED load
    BY <1>1 DEF PersistCheckpointBlob, PersistFails
  <2>2. DOMAIN rows' = DOMAIN rows \cup {i}
    BY <2>1 DEF Replaced
  <2>3. TableHoldsTheHanded'
    BY <2>1, <2>2 DEF ScanInv, TableHoldsTheHanded
  <2> QED
    BY <2>1, <2>3, <1>a DEF load
<1>3. ASSUME NEW i \in Ids, DeleteCheckpointBlob(i) PROVE ScanInv'
  <2>1. /\ DOMAIN rows' = DOMAIN rows \ {i}
        /\ restored' = restored \cup {i} /\ handed' = handed
        /\ conn = "free" /\ UNCHANGED load
    BY <1>3 DEF DeleteCheckpointBlob, Restrict
  <2>2. TableHoldsTheHanded'
    BY <2>1 DEF ScanInv, TableHoldsTheHanded
  <2> QED
    BY <2>1, <2>2, <1>a DEF load
<1>4. ASSUME NEW i \in Ids, Damage(i) PROVE ScanInv'
  <2>1. DOMAIN rows' = DOMAIN rows /\ UNCHANGED <<handed, restored>> /\ conn = "free" /\ UNCHANGED load
    BY <1>4 DEF Damage
  <2>2. TableHoldsTheHanded'
    BY <2>1 DEF ScanInv, TableHoldsTheHanded
  <2> QED
    BY <2>1, <2>2, <1>a DEF load
<1>b. ASSUME UNCHANGED <<rows, handed, restored>> PROVE TableHoldsTheHanded'
  BY <1>b DEF ScanInv, TableHoldsTheHanded
<1>5. CASE LoadCheckpointBlobs
  <2>1. EachRowOnce' /\ OldestFirst'
    BY <1>5, LoadStartsWhole DEF ScanInv
  <2>2. corrupt' \in Seq(Ids) /\ UNCHANGED <<rows, handed, restored>>
    BY <1>5 DEF LoadCheckpointBlobs
  <2> QED
    BY <1>0, <1>b, <2>1, <2>2 DEF ScanInv
<1>6. CASE ScanRow
  <2>1. UNCHANGED <<rows, handed, restored>>
    BY <1>6 DEF ScanRow
  <2>2. CASE rows[todo[1]].state # "broken"
    <3>1. corrupt' = corrupt
      BY <1>6, <2>2 DEF ScanRow, ScanInv, RecoveryInv, LoadsAreTyped
    <3> QED
      BY <1>0, <1>6, <1>b, <2>1, <2>2, <3>1, ScanOfABlob DEF ScanInv
  <2>3. CASE rows[todo[1]].state = "broken"
    BY <1>0, <1>6, <1>b, <2>1, <2>3, ScanOfACorruptRow DEF ScanInv
  <2> QED
    BY <2>2, <2>3
<1>7. CASE LoadReturns
  <2>1. UNCHANGED <<rows, handed, restored, corrupt>> /\ conn' = "free"
    BY <1>7 DEF LoadReturns
  <2> QED
    BY <1>a, <1>b, <2>1
<1>8. CASE EndProcess
  <2>1. UNCHANGED <<rows, handed, restored>> /\ corrupt' = << >> /\ conn' = "free"
    BY <1>8 DEF EndProcess
  <2> QED
    BY <1>0, <1>b, <2>1 DEF ScanInv
<1>9. CASE UNCHANGED blobsVars
  BY <1>0, <1>9 DEF blobsVars, ScanInv, TableHoldsTheHanded, EachRowOnce, OldestFirst,
                    IsAhead, IsBlob, IsCorrupt
<1> QED
  BY <1>1, <1>3, <1>4, <1>5, <1>6, <1>7, <1>8, <1>9 DEF BlobsNext

\* When nothing is ahead any more, the collected ids are the rows, each once.
LEMMA ScannedAreTheRows ==
    ASSUME ScanInv, conn = "load", todo = << >>
    PROVE  Offered = DOMAIN rows /\ Len(blobs) + Len(corrupt) = Cardinality(Offered)
<1> DEFINE p == Len(blobs)
           q == Len(corrupt)
           f == [n \in 1 .. p + q |-> IF n <= p THEN blobs[n].id ELSE corrupt[n - p]]
<1>1. /\ EachRowOnce /\ p \in Nat /\ q \in Nat
      /\ \A i : ~IsAhead(i)
  BY DEF ScanInv, RecoveryInv, LoadsAreTyped, IsAhead
<1>t. /\ \A m \in 1 .. Len(blobs) : blobs[m].id \in Ids
      /\ \A m \in 1 .. Len(corrupt) : corrupt[m] \in Ids
  <2>1. blobs \in Seq(BlobType) /\ corrupt \in Seq(Ids)
    BY DEF ScanInv, RecoveryInv, LoadsAreTyped
  <2>2. \A m \in 1 .. Len(blobs) : blobs[m] \in BlobType
    BY <2>1
  <2>3. \A b \in BlobType : b.id \in Ids
    BY DEF BlobType
  <2> QED
    BY <2>1, <2>2, <2>3
<1>2. \A i : i \in Offered <=> (IsBlob(i) \/ IsCorrupt(i))
  BY DEF Offered, IsBlob, IsCorrupt
<1>3. Offered = DOMAIN rows
  <2>1. \A i : IsBlob(i) \/ IsCorrupt(i) => i \in Ids
    BY <1>t DEF IsBlob, IsCorrupt
  <2>2. DOMAIN rows \subseteq Ids
    BY DEF ScanInv, RecoveryInv, BlobTypes
  <2>3. \A i : i \in Offered <=> i \in DOMAIN rows
    BY <1>1, <1>2, <2>1, <2>2 DEF EachRowOnce
  <2> QED
    BY <2>3
<1>u. /\ \A m \in 1 .. p, n \in 1 .. q : blobs[m].id # corrupt[n]
      /\ \A m, n \in 1 .. p : blobs[m].id = blobs[n].id => m = n
      /\ \A m, n \in 1 .. q : corrupt[m] = corrupt[n] => m = n
  <2> QED
    BY <1>1, <1>t DEF EachRowOnce, IsBlob, IsCorrupt
<1>o. /\ \A n \in 1 .. p : blobs[n].id \in Offered
      /\ \A n \in 1 .. q : corrupt[n] \in Offered
      /\ \A i \in Offered : \/ \E n \in 1 .. p : blobs[n].id = i
                            \/ \E n \in 1 .. q : corrupt[n] = i
  BY DEF Offered
<1> HIDE DEF p, q
<1>4. \A n \in 1 .. p + q : \/ n \in 1 .. p /\ f[n] = blobs[n].id
                            \/ n - p \in 1 .. q /\ ~(n <= p) /\ f[n] = corrupt[n - p]
  BY <1>1
<1>5. /\ \A n \in 1 .. p : n \in 1 .. p + q /\ f[n] = blobs[n].id
      /\ \A n \in 1 .. q : n + p \in 1 .. p + q /\ f[n + p] = corrupt[n]
  <2>1. \A n \in 1 .. p : n \in 1 .. p + q /\ n <= p
    BY <1>1
  <2>2. \A n \in 1 .. q : n + p \in 1 .. p + q /\ ~(n + p <= p) /\ (n + p) - p = n
    BY <1>1
  <2> QED
    BY <2>1, <2>2
<1>6. f \in [1 .. p + q -> Offered]
  <2>1. \A n \in 1 .. p + q : f[n] \in Offered
    BY <1>4, <1>o
  <2>2. f = [n \in 1 .. p + q |-> f[n]]
    OBVIOUS
  <2> HIDE DEF f
  <2> QED
    BY <2>1, <2>2
<1> HIDE DEF f
<1>7. \A m, n \in 1 .. p + q : f[m] = f[n] => m = n
  <2> SUFFICES ASSUME NEW m \in 1 .. p + q, NEW n \in 1 .. p + q, f[m] = f[n]
               PROVE  m = n
    OBVIOUS
  <2>1. CASE m \in 1 .. p /\ n \in 1 .. p
    BY <1>4, <1>5, <1>u, <2>1
  <2>2. CASE m - p \in 1 .. q /\ n - p \in 1 .. q /\ ~(m <= p) /\ ~(n <= p)
    <3>1. f[m] = corrupt[m - p] /\ f[n] = corrupt[n - p]
      BY <1>1, <1>4, <2>2
    <3>2. m - p = n - p
      BY <1>u, <2>2, <3>1
    <3> QED
      BY <1>1, <3>2
  <2> QED
    BY <1>4, <1>u, <2>1, <2>2
<1>8. \A i \in Offered : \E n \in 1 .. p + q : f[n] = i
  BY <1>5, <1>o
<1>9. f \in Bijection(1 .. p + q, Offered)
  BY <1>6, <1>7, <1>8 DEF Bijection, Injection, Surjection, IsInjective
<1>10. ExistsBijection(1 .. p + q, Offered)
  BY <1>9 DEF ExistsBijection
<1>11. Cardinality(Offered) = p + q
  BY <1>1, <1>10, FS_CountingElements
<1> QED
  BY <1>3, <1>11 DEF p, q

\* checkpoint_blob.go:48 and :74, for any number of checkpoints, persisted, restored and
\* damaged in any order: a recovery that returns no error accounts for each one that was
\* handed out and not restored, once, oldest first, and offers no restored one.
THEOREM RecoveriesAreComplete == BlobsSpec => RecoveriesAccountForAll
<1> DEFINE Accounts ==
             /\ handed \ restored \subseteq Offered
             /\ restored \cap Offered = {}
             /\ Len(blobs) + Len(corrupt) = Cardinality(Offered)
             /\ \A m, n \in 1 .. Len(blobs) : m < n => blobs[m].at <= blobs[n].at
<1>1. ScanInv /\ [BlobsNext]_blobsVars => [complete' /\ ~complete => Accounts]_blobsVars
  <2> SUFFICES ASSUME ScanInv, BlobsNext, complete', ~complete
               PROVE  Accounts
    OBVIOUS
  <2>1. conn = "load" /\ todo = << >>
    BY DEF BlobsNext, PersistCheckpointBlob, PersistFails, DeleteCheckpointBlob, Damage,
           LoadCheckpointBlobs, ScanRow, LoadReturns, EndProcess, load
  <2>2. Offered = DOMAIN rows /\ Len(blobs) + Len(corrupt) = Cardinality(Offered)
    BY <2>1, ScannedAreTheRows
  <2>3. handed \ restored \subseteq Offered /\ restored \cap Offered = {}
    BY <2>2 DEF ScanInv, TableHoldsTheHanded
  <2>4. \A m, n \in 1 .. Len(blobs) : m < n => blobs[m].at <= blobs[n].at
    BY <2>1 DEF ScanInv, OldestFirst
  <2> QED
    BY <2>2, <2>3, <2>4
<1> QED
  BY <1>1, InitScanInv, ScanInvKept, PTL DEF BlobsSpec, RecoveriesAccountForAll
=============================================================================
