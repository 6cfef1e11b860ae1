SPECIFICATION Spec
CONSTANTS
    Markets <- MCMarkets
    Tokens <- MCTokens
    Keys <- MCKeys
    UserBudgets <- MCUserBudgets
    BookBudgets <- MCBookBudgets
    PublicBudgets <- MCPublicBudgets
    RpcBudgets <- MCRpcBudgets
    Trades <- MCTrades
    Order <- MCOrder
    NoId = ""
    Capacity = 1
    MaxTries <- MCMaxTries
    MaxWire = 1
    MaxGaps = 1
    MaxResends = 0
INVARIANTS
    UserStreamSafe
    BooksOfOneConnection
    PublicStreamSafe
    RpcSubscriptionsKept
PROPERTIES
    UserGapsRecovered
    PublicGapsRecovered
    SettlementWaitsReturn
CHECK_DEADLOCK FALSE
