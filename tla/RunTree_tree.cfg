SPECIFICATION MCSpec
CONSTANTS
    Executions <- MCExecutions
    Batches <- MCBatches
    FrontierIds <- MCFrontiers
    Cuts <- MCCuts
    TerminalCuts <- MCTerminalCuts
INVARIANTS
    ReaderSeesOneHistory
    TerminalCutsEnd
    ChildrenAreActive
    ExecutionsAreLastWins
PROPERTIES
    HistoriesNeverChange
CHECK_DEADLOCK FALSE
