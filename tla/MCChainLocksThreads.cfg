\* Two threads receive two ChainLocks while blocks compete; the node is a masternode and signs its tips.
SPECIFICATION Spec
CONSTANTS
    g = g a1 = a1 a2 = a2 c2 = c2 c3 = c3 w1 = w1
    Blocks = {g, a1, a2, c2}
    Genesis = g
    Tree <- SmallTree
    NoBlock = NoBlock
    Locks = {a1, a2}
    SignOffset = 0
    MsgHand = MsgHand
    Workers = {w1}
    Masternode = TRUE
    MaxToggles = 0
    MaxInvalid = 0
INVARIANTS
    LockedChainUsable
    ActiveChainNotConflicting
