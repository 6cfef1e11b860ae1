SPECIFICATION MCSpec
CONSTANTS
    Threads <- MCThreads
    Slots <- MCSlots
    GlobalBudgets <- MCGlobalBudgets
    Timeouts = {0, 50, 500}
    ConnBudgets <- MCConnBudgets
    Prices = {1, 2}
    Ticks = {1, 2}
    OrderBudgets <- MCOrderBudgets
    Totals = {0, 1, 3, 4, 5}
    Limits = {1, 2}
    MaxOffset = 3
    MaxPages = 3
    PageBudgets <- MCPageBudgets
    Waits = {2, 9}
    LongMax = 5
    Policies <- MCPolicies
    MaxWait = 1
    CallBudgets <- MCCallBudgets
    Names = {"a", "b"}
    MaxBlock = 2
    FileBudgets <- MCFileBudgets
    MaxTries = 1
    TxBudgets <- MCTxBudgets
    Logs <- MCLogs
    Retained = 2
    OracleBudgets <- MCOracleBudgets
    Sizes = {0, 1, 3}
    Clients = 2
    Walks <- MCWalks
    FetchBudgets <- MCFetchBudgets
    Listings <- MCListings
    Arguments <- MCArguments
    MaxMarkets = 2
    MaxTime = 7
    ArbBudgets <- MCArbBudgets
    MaxPending = 2
    Chunk = 2
    Buffer = 2
    Record = 3
    TunnelBudgets <- MCTunnelBudgets
INVARIANTS
    HttpSafe
    OrdersSafe
    PagesComplete
    MutationsSentOnce
    RetriesWithinPolicy
    CursorFilesWhole
    TransactionsSafe
    DiscoverySafe
    TunnelKeepsBytes
    ArithmeticExact
    CodecExact
PROPERTIES
    RestActions
    CallsEnd
CHECK_DEADLOCK FALSE
