SPECIFICATION MCSpec
CONSTANTS
    d1 = d1
    d2 = d2
    d3 = d3
    Dispatches <- MCDispatches
    Intents = {i1}
    Digests = {g1, g2}
    Captures = {k1, k2}
    NoDispatch = NoDispatch
    NoReceipt = NoReceipt
    Ids = {b1, b2}
    Half <- MCHalf
    Seqs <- MCSeqs
    Snapshots = {s1}
    NilSnapshot = NilSnapshot
    EmptySnapshot = EmptySnapshot
    Times = {1, 2}
    Numbers = {"int", "whole", "fraction", "nan"}
INVARIANTS
    AckedCompletionsAreRecorded
    ReceiptsNameTheCaptures
    RecoveredAsPersisted
PROPERTIES
    RecoveriesAccountForAll
