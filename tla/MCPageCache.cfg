SPECIFICATION Spec
CONSTANTS
    Radix = 4
    VarUInt <- MCTrie
    IdTrie <- MCTrie
    PageIds <- MCPageIds
    LastBlock = 2
    Chains <- MCChains
    Delta <- GetDelta
    Broken <- MCBroken
    Proposals <- MCProposals
    MaxBlocks = 3
    MaxTries = 1
INVARIANTS
    CleanPagesFollowChain
    ZeroBehindSize
    WritableByList
    SingleOwner
CHECK_DEADLOCK FALSE
