CONSTANTS
    RankKing <- King
    Deals <- MCDeals
    DbmDeals <- MCDbmDeals
    itemA = itemA
    itemB = itemB
    k1 = k1
    k2 = k2
    k3 = k3
    k4 = k4
    Items <- MCItems
    Garbage = Garbage
    ItemsPerPage = 2
    FirstDepth = 0
    FirstItem = itemA
    DeepestDepth = 2
    GrowBy = 1
    MaxInserted = 6
    Nothing = Nothing
    Boards <- MCBoards
    HashValue <- MCHashValue
    InitialSlots = 1
    MaxCells = 5
    MaxCalls = 6
    TrimThenRecycle = FALSE
    Vals = {1, 2, 3, 4, 5, 6}
    Rating <- MCRating
    HeapInitialSize = 2
    HeapGrowBy = 2
    Keys = {1, 2, 3, 4, 5, 6}
    AvlKeys = {1, 2, 3, 4, 5}
    AvlItems <- MCAvlItems
    DealIndices <- MCDealIndices
    Words <- MCWords
    MaxWords = 4
    NumberIn <- MCNumberIn
    FileOf <- MCFileOf
SPECIFICATION LibrarySpec
INVARIANTS
    UserFollowsSolver
    PruneLosesNothing
    KeysTellBoards
    ContainersExact
PROPERTIES
    ImplementsFifo
\* Games end, solved or with no move left; the calls to the collection of states are bounded.
CHECK_DEADLOCK FALSE
