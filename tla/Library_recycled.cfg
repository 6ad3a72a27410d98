CONSTANTS
    RankKing <- King
    Deals <- MCDeals
    DbmDeals <- MCDbmDeals
    itemA = itemA
    itemB = itemB
    k1 = k1
    k2 = k2
    k3 = k3
    k4 = k4
    Items <- MCItems
    Garbage = Garbage
    ItemsPerPage = 2
    FirstDepth = 0
    FirstItem = itemA
    DeepestDepth = 2
    GrowBy = 1
    MaxInserted = 7
    Nothing = Nothing
    Boards <- MCBoards
    HashValue <- MCHashValue
    InitialSlots = 1
    MaxCells = 5
    MaxCalls = 7
    TrimThenRecycle = TRUE
    Vals = {1, 2, 3, 4, 5, 6, 7}
    Rating <- MCRating
    HeapInitialSize = 2
    HeapGrowBy = 2
    Keys = {1, 2, 3, 4, 5, 6, 7, 8}
    AvlKeys = {1}
    AvlItems <- MCAvlItems
    DealIndices <- MCDealIndices
    Words <- MCWords
    MaxWords = 1
    NumberIn <- MCNumberIn
    FileOf <- MCFileOf
SPECIFICATION LibrarySpec
PROPERTIES
    AddedOnce
\* The calls to the collection of states are bounded.
CHECK_DEADLOCK FALSE
