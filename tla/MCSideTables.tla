---------------------------- MODULE MCSideTables ----------------------------
(***************************************************************************)
(* The side tables of the store for TLC.  They share its connection and    *)
(* nothing else, so a behaviour is about one of them:                      *)
(*                                                                         *)
(*   "ledger"  three dispatches of one intent;                             *)
(*   "blobs"   two checkpoints, with sequence numbers of three bits on     *)
(*             both sides of the largest that an int64 of that width holds.*)
(***************************************************************************)
EXTENDS MaterializationLedger, CheckpointBlobs

CONSTANTS d1, d2, d3

VARIABLE table

MCDispatches == {d1, d2, d3}

MCHalf == 4
MCSeqs == {3, 4}

MCInit ==
    /\ table \in {"ledger", "blobs"}
    /\ Init
    /\ BlobsInit
    /\ table # "ledger" => digest = [d \in Dispatches |-> CHOOSE g \in Digests : TRUE]
    /\ table # "blobs" => content = [i \in Ids |-> CHOOSE c \in Contents : TRUE]

MCNext ==
    /\ \/ table = "ledger" /\ Next /\ UNCHANGED blobsVars
       \/ table = "blobs" /\ BlobsNext /\ UNCHANGED vars
    /\ UNCHANGED table

MCSpec == MCInit /\ [][MCNext]_<<vars, blobsVars, table>>
=============================================================================
