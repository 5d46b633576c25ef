SPECIFICATION MCSpec
CONSTANTS
    Nodes <- MCNodes
    Root <- n1
    Keys = {0, 1, 2}
    BadKeys = {0}
    Heaps <- MCHeaps
    NoNode = NoNode
    MaxDepth = 5
    Tokens <- MCTokens
    Texts <- MCTexts
    BadByte <- MCBadByte
INVARIANTS
    SeenAreAncestors
    WrittenAsTheirText
    OnlyCyclesAreRefused
    ScanDecidesTheGrammar
    CanonicalKeepsTheNumber
    StringsReadBack
CHECK_DEADLOCK FALSE
