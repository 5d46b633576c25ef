-------------------------- MODULE CheckpointBlobs --------------------------
(***************************************************************************)
(* Checkpoints as a restart needs them.  A checkpoint is handed out as     *)
(* restorable once its blob is persisted, a restore deletes the blob, and  *)
(* a recovery loads all blobs row by row while it holds the store's only   *)
(* connection.  The process may end, and a row may come to hold a state    *)
(* that no longer decodes.                                                 *)
(*                                                                         *)
(* A checkpoint's content is fixed by its id; the callers live in the      *)
(* runtime.  Of the workspace state only the kind of the number in it is   *)
(* kept: JSON has one kind of number and the canonical form has two.       *)
(***************************************************************************)
EXTENDS Integers, FiniteSets, Sequences, Functions

CONSTANTS
    Ids,
    Seqs,           \* the sequence numbers in use, of the uint64 range
    Half,           \* half of that range: the int64s are -Half .. Half - 1
    Snapshots,
    NilSnapshot, EmptySnapshot,
    Times,
    Numbers         \* "int", and "whole", "fraction" and "nan" of the floats

ASSUME RangeAssumption ==
    /\ IsFiniteSet(Ids)
    /\ Half \in Nat \ {0}
    /\ Seqs \subseteq 0 .. 2 * Half - 1
    /\ Times \subseteq Int
    /\ Numbers \subseteq {"int", "whole", "fraction", "nan"}

Contents == [seq : Seqs, number : Numbers, at : Times,
             snapshot : Snapshots \cup {NilSnapshot, EmptySnapshot}]

VARIABLES
    content,        \* what each checkpoint is made of
    rows,           \* table checkpoint_snapshots
    handed,         \* the checkpoints handed out as restorable
    restored,       \* those restored since
    conn,           \* "free", or "load" while a recovery iterates over its rows
    todo,           \* the ids of the rows it has still to scan
    blobs, corrupt, \* what it has collected
    complete        \* it has returned without an error

blobsVars == <<content, rows, handed, restored, conn, todo, blobs, corrupt, complete>>
load == <<conn, todo, blobs, corrupt, complete>>

BlobsInit ==
    /\ content \in [Ids -> Contents]
    /\ rows = << >>
    /\ handed = {}
    /\ restored = {}
    /\ conn = "free"
    /\ todo = << >>
    /\ blobs = << >>
    /\ corrupt = << >>
    /\ complete = FALSE

-----------------------------------------------------------------------------
\* The casts between uint64 and int64.
Signed_Clamped(u) == IF u < Half THEN u ELSE Half - 1
Signed(u) == IF u < Half THEN u ELSE u - 2 * Half
Unsigned(s) == IF s < 0 THEN s + 2 * Half ELSE s

\* json.Marshal prints a whole float64 as an integer token, and rejects NaN.
NumberToken(number) == IF number = "fraction" THEN "fraction" ELSE "int"

Marshals(i) == content[i].number # "nan"

\* The columns of a checkpoint's row; the state is its token, or "broken".
Row(i) == [seq      |-> Signed(content[i].seq),
           state    |-> NumberToken(content[i].number),
           snapshot |-> IF content[i].snapshot = NilSnapshot THEN EmptySnapshot
                        ELSE content[i].snapshot,
           at       |-> content[i].at]

Replaced(i) == [j \in DOMAIN rows \cup {i} |-> IF j = i THEN Row(i) ELSE rows[j]]

\* An id is persisted again only by a retry, and not after it was restored.
PersistCheckpointBlob(i) ==
    /\ conn = "free"
    /\ i \notin restored
    /\ Marshals(i)
    /\ rows' = Replaced(i)
    /\ handed' = handed \cup {i}
    /\ UNCHANGED <<content, restored, load>>

\* The caller's context ends as the statement does: an error, and the row may be there.
PersistFails(i) ==
    /\ conn = "free"
    /\ i \notin restored
    /\ Marshals(i)
    /\ rows' = Replaced(i)
    /\ UNCHANGED <<content, handed, restored, load>>

\* Restore consumes the blob.
DeleteCheckpointBlob(i) ==
    /\ conn = "free"
    /\ i \in handed \ restored
    /\ rows' = Restrict(rows, DOMAIN rows \ {i})
    /\ restored' = restored \cup {i}
    /\ UNCHANGED <<content, handed, load>>

-----------------------------------------------------------------------------
\* ORDER BY created_at_unixnano ASC; equal times come in any order.
Older_BySeq(i, j) == rows[i].seq < rows[j].seq
Older(i, j) == rows[i].at < rows[j].at

Orders(S) == {s \in [1 .. Cardinality(S) -> S] :
                \A m, n \in 1 .. Cardinality(S) :
                  m < n => s[m] # s[n] /\ ~Older(s[n], s[m])}

LoadCheckpointBlobs ==
    /\ conn = "free"
    /\ conn' = "load"
    /\ todo' \in Orders(DOMAIN rows)
    /\ blobs' = << >>
    /\ corrupt' = << >>
    /\ complete' = FALSE
    /\ UNCHANGED <<content, rows, handed, restored>>

Recovered(i) == [id       |-> i,
                 seq      |-> Unsigned(rows[i].seq),
                 number   |-> rows[i].state,
                 snapshot |-> rows[i].snapshot,
                 at       |-> rows[i].at]

\* A row whose state does not decode is collected, and the scan goes on.
AfterCorrupt_Stop(rest) == << >>
AfterCorrupt(rest) == rest

ScanRow ==
    /\ conn = "load"
    /\ todo # << >>
    /\ LET i == Head(todo) IN
         IF rows[i].state # "broken"
         THEN /\ blobs' = Append(blobs, Recovered(i))
              /\ todo' = Tail(todo)
              /\ UNCHANGED corrupt
         ELSE /\ corrupt' = Append(corrupt, i)
              /\ todo' = AfterCorrupt(Tail(todo))
              /\ UNCHANGED blobs
    /\ UNCHANGED <<content, rows, handed, restored, conn, complete>>

\* rows.Err tells the end of the rows from the end of the context.
LoadReturns ==
    /\ conn = "load"
    /\ conn' = "free"
    /\ complete' = (todo = << >>)
    /\ UNCHANGED <<content, rows, handed, restored, todo, blobs, corrupt>>

-----------------------------------------------------------------------------
EndProcess ==
    /\ conn' = "free"
    /\ todo' = << >>
    /\ blobs' = << >>
    /\ corrupt' = << >>
    /\ complete' = FALSE
    /\ UNCHANGED <<content, rows, handed, restored>>

\* The state of a row is damaged while nothing reads it.
Damage(i) ==
    /\ conn = "free"
    /\ i \in DOMAIN rows
    /\ rows' = [rows EXCEPT ![i].state = "broken"]
    /\ UNCHANGED <<content, handed, restored, load>>

BlobsNext ==
    \/ \E i \in Ids :
         \/ PersistCheckpointBlob(i)
         \/ PersistFails(i)
         \/ DeleteCheckpointBlob(i)
         \/ Damage(i)
    \/ LoadCheckpointBlobs
    \/ ScanRow
    \/ LoadReturns
    \/ EndProcess

BlobsSpec == BlobsInit /\ [][BlobsNext]_blobsVars

-----------------------------------------------------------------------------
\* checkpoint_blob.go:109: a recovered blob has the sequence number, the snapshot and the
\* time that the checkpoint was persisted with, over the casts to int64 and back and
\* however often it was persisted; a missing snapshot comes back empty, and a number comes
\* back as what it was unless it was a whole float.
RecoveredAsPersisted ==
    \A n \in 1 .. Len(blobs) :
      LET b == blobs[n]  c == content[b.id] IN
        /\ b.seq = c.seq
        /\ b.at = c.at
        /\ c.snapshot # NilSnapshot => b.snapshot = c.snapshot
        /\ c.snapshot = NilSnapshot => b.snapshot = EmptySnapshot
        /\ c.number # "whole" => b.number = c.number

\* checkpoint_blob.go:48 and :74: a recovery that returns no error accounts for every
\* checkpoint that was handed out and not restored, each once, as a blob or as a corrupt
\* id, and offers no restored one, oldest first; corrupt rows do not hide the others.
Offered == {blobs[n].id : n \in 1 .. Len(blobs)} \cup {corrupt[n] : n \in 1 .. Len(corrupt)}

RecoveriesAccountForAll ==
    [][complete' /\ ~complete =>
         /\ handed \ restored \subseteq Offered
         /\ restored \cap Offered = {}
         /\ Len(blobs) + Len(corrupt) = Cardinality(Offered)
         /\ \A m, n \in 1 .. Len(blobs) : m < n => blobs[m].at <= blobs[n].at]_blobsVars

BlobsTypeOK ==
    /\ content \in [Ids -> Contents]
    /\ DOMAIN rows \subseteq Ids
    /\ \A i \in DOMAIN rows : rows[i] \in [seq : -Half .. Half - 1,
                                           state : {"int", "fraction", "broken"},
                                           snapshot : Snapshots \cup {EmptySnapshot},
                                           at : Times]
    /\ handed \subseteq Ids /\ restored \subseteq handed
    /\ conn \in {"free", "load"}
    /\ todo \in Seq(DOMAIN rows \cup handed)
    /\ complete \in BOOLEAN
=============================================================================
