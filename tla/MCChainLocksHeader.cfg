\* A header is accepted while its ChainLock is being processed by another thread.
SPECIFICATION Spec
CONSTANTS
    g = g a1 = a1 a2 = a2 c2 = c2 c3 = c3 w1 = w1
    Blocks = {g, a1, a2, c2}
    Genesis = g
    Tree <- SmallTree
    NoBlock = NoBlock
    Locks = {a2}
    SignOffset = 1
    MsgHand = MsgHand
    Workers = {w1}
    Masternode = FALSE
    MaxToggles = 0
    MaxInvalid = 0
INVARIANT KnownLockIsEnforced
