----------------------- MODULE MaterializationLedger -----------------------
(***************************************************************************)
(* The completed-intent ledger of materialization, and the dispatches that *)
(* use it.  A dispatch reads the ledger for its intent, has a substrate    *)
(* apply the declarations, appends the captures under the intent, and only *)
(* then records the completion: the ledger write is the commit point.      *)
(* Dispatches of one intent overlap, and the process may end between any   *)
(* two steps of any of them.                                               *)
(*                                                                         *)
(* The ledger functions are the store's own code; the dispatch lives in    *)
(* the runtime, and only the order of its calls is taken from there.  A    *)
(* receipt stands for what it says was produced, which is the content of   *)
(* the capture batch.                                                      *)
(***************************************************************************)
EXTENDS Functions

CONSTANTS
    Dispatches,
    Intents,
    Digests,        \* digests of requests
    Captures        \* what a substrate may produce

VARIABLES
    ledger,         \* table materialization_intents: intent -> [digest, receipt]
    appended,       \* the store's append intents: intent -> the captures under it
    pc,             \* where each dispatch is
    intent,         \* what it was asked for
    digest,
    receipt,        \* its receipt, once the substrate has produced one
    mutex,          \* who holds the store's mutex; NoDispatch if nobody
    acked,          \* the digests acknowledged for each intent since its row was deleted
    returned        \* the receipts that each intent's successful dispatches returned

CONSTANTS NoDispatch, NoReceipt

ASSUME NobodyAssumption == NoDispatch \notin Dispatches /\ NoReceipt \notin Captures

tables == <<ledger, appended>>
locals == <<pc, intent, digest, receipt>>
ghosts == <<acked, returned>>
vars   == <<tables, locals, mutex, ghosts>>

Init ==
    /\ ledger = << >>
    /\ appended = << >>
    /\ pc = [d \in Dispatches |-> "idle"]
    /\ intent \in [Dispatches -> Intents]
    /\ digest \in [Dispatches -> Digests]
    /\ receipt = [d \in Dispatches |-> NoReceipt]
    /\ mutex = NoDispatch
    /\ acked = [i \in Intents |-> {}]
    /\ returned = [i \in Intents |-> {}]

Put(table, key, value) == [k \in DOMAIN table \cup {key} |-> IF k = key THEN value ELSE table[k]]

GoTo(d, step) == pc' = [pc EXCEPT ![d] = step]

\* The dispatch succeeds and its caller gets the receipt.
Succeed(d, r) ==
    /\ GoTo(d, "idle")
    /\ receipt' = [receipt EXCEPT ![d] = NoReceipt]
    /\ acked' = [acked EXCEPT ![intent[d]] = @ \cup {digest[d]}]
    /\ returned' = [returned EXCEPT ![intent[d]] = @ \cup {r}]

Refuse(d) ==
    /\ GoTo(d, "idle")
    /\ receipt' = [receipt EXCEPT ![d] = NoReceipt]
    /\ UNCHANGED ghosts

Start(d, i, g) ==
    /\ pc[d] = "idle"
    /\ intent' = [intent EXCEPT ![d] = i]
    /\ digest' = [digest EXCEPT ![d] = g]
    /\ GoTo(d, "read")
    /\ UNCHANGED <<tables, receipt, mutex, ghosts>>

-----------------------------------------------------------------------------
\* ReadCompletedMaterialization holds the mutex for its one query.
ReadCompletedMaterialization(d) ==
    /\ pc[d] = "read"
    /\ mutex = NoDispatch
    /\ \/ /\ intent[d] \notin DOMAIN ledger
          /\ GoTo(d, "apply")
          /\ UNCHANGED <<receipt, ghosts>>
       \/ /\ intent[d] \in DOMAIN ledger
          /\ ledger[intent[d]].digest = digest[d]
          /\ Succeed(d, ledger[intent[d]].receipt)
       \/ /\ intent[d] \in DOMAIN ledger
          /\ ledger[intent[d]].digest # digest[d]
          /\ Refuse(d)
    /\ UNCHANGED <<tables, intent, digest, mutex>>

\* The substrate applies the declarations; another run of it may find another world.
Materialize(d) ==
    /\ pc[d] = "apply"
    /\ \E c \in Captures : receipt' = [receipt EXCEPT ![d] = c]
    /\ GoTo(d, "append")
    /\ UNCHANGED <<tables, intent, digest, mutex, ghosts>>

\* Append, as TraceLog has it: once per intent, and a conflict for other content.
AppendAccepts_Anything(d) == TRUE
AppendAccepts(d) == intent[d] \in DOMAIN appended => appended[intent[d]] = receipt[d]

AppendCaptures(d) ==
    /\ pc[d] = "append"
    /\ mutex = NoDispatch
    /\ IF AppendAccepts(d)
       THEN /\ appended' = IF intent[d] \in DOMAIN appended THEN appended
                           ELSE Put(appended, intent[d], receipt[d])
            /\ GoTo(d, "record")
            /\ UNCHANGED <<receipt, ghosts>>
       ELSE Refuse(d) /\ UNCHANGED appended
    /\ UNCHANGED <<ledger, intent, digest, mutex>>

-----------------------------------------------------------------------------
(***************************************************************************)
(* RecordCompletedMaterialization: two statements under the mutex.         *)
(***************************************************************************)
Completion(d) == [digest |-> digest[d], receipt |-> receipt[d]]

\* INSERT OR IGNORE, and whether it affected a row.
Inserts_Replacing(d) == TRUE
Inserts(d) == intent[d] \notin DOMAIN ledger

InsertOrIgnore(d) ==
    /\ pc[d] = "record"
    /\ mutex = NoDispatch
    /\ IF Inserts(d)
       THEN /\ ledger' = Put(ledger, intent[d], Completion(d))
            /\ Succeed(d, receipt[d])
            /\ UNCHANGED mutex
       ELSE /\ mutex' = d
            /\ GoTo(d, "reread")
            /\ UNCHANGED <<ledger, receipt, ghosts>>
    /\ UNCHANGED <<appended, intent, digest>>

\* No row is an error, and so is a row with another digest.
SameCompletion(d) ==
    /\ intent[d] \in DOMAIN ledger
    /\ ledger[intent[d]].digest = digest[d]

ReRead(d) ==
    /\ pc[d] = "reread"
    /\ mutex' = NoDispatch
    /\ IF SameCompletion(d) THEN Succeed(d, receipt[d]) ELSE Refuse(d)
    /\ UNCHANGED <<tables, intent, digest>>

\* DeleteMaterializationIntent takes no mutex.  The acknowledgements it takes back are
\* forgotten with the row.
DeleteMaterializationIntent(i) ==
    /\ i \in DOMAIN ledger
    /\ ledger' = Restrict(ledger, DOMAIN ledger \ {i})
    /\ acked' = [acked EXCEPT ![i] = {}]
    /\ UNCHANGED <<appended, locals, mutex, returned>>

\* The process ends: the tables are what is left.
Crash ==
    /\ pc' = [d \in Dispatches |-> "idle"]
    /\ receipt' = [d \in Dispatches |-> NoReceipt]
    /\ mutex' = NoDispatch
    /\ UNCHANGED <<tables, intent, digest, ghosts>>

Next ==
    \/ \E d \in Dispatches :
         \/ \E i \in Intents, g \in Digests : Start(d, i, g)
         \/ ReadCompletedMaterialization(d)
         \/ Materialize(d)
         \/ AppendCaptures(d)
         \/ InsertOrIgnore(d)
         \/ ReRead(d)
    \/ \E i \in Intents : DeleteMaterializationIntent(i)
    \/ Crash

Spec == Init /\ [][Next]_vars

-----------------------------------------------------------------------------
TypeOK ==
    /\ DOMAIN ledger \subseteq Intents
    /\ \A i \in DOMAIN ledger : ledger[i] \in [digest : Digests, receipt : Captures]
    /\ DOMAIN appended \subseteq Intents
    /\ pc \in [Dispatches -> {"idle", "read", "apply", "append", "record", "reread"}]
    /\ intent \in [Dispatches -> Intents]
    /\ digest \in [Dispatches -> Digests]
    /\ receipt \in [Dispatches -> Captures \cup {NoReceipt}]
    /\ \A d \in Dispatches : pc[d] \in {"append", "record", "reread"} => receipt[d] \in Captures
    /\ mutex \in Dispatches \cup {NoDispatch}
    /\ acked \in [Intents -> SUBSET Digests]
    /\ returned \in [Intents -> SUBSET Captures]

\* materialization_ledger.go:111: a completion that was acknowledged is in the ledger with
\* the digest it was acknowledged for, whoever else completed the intent meanwhile,
\* whatever process ended, and although rows are deleted without the mutex: no two
\* requests are told that they completed one intent.
AckedCompletionsAreRecorded ==
    \A i \in Intents : acked[i] # {} =>
      i \in DOMAIN ledger /\ acked[i] = {ledger[i].digest}

\* materialization_ledger.go:136: all receipts that were ever returned for an intent, by the
\* winner of a race, by its losers and by replays, name the same captures, and these are
\* the ones the store holds.
ReceiptsNameTheCaptures ==
    \A i \in Intents : \A r \in returned[i] : i \in DOMAIN appended /\ appended[i] = r
=============================================================================
