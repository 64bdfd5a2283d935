\* One ChainLock, enforced in the end while a longer branch competes, around spork changes and invalidated blocks.
SPECIFICATION FairSpec
CONSTANTS
    g = g a1 = a1 a2 = a2 c2 = c2 c3 = c3 w1 = w1
    Blocks = {g, a1, a2, c2, c3}
    Genesis = g
    Tree <- SmallTree
    NoBlock = NoBlock
    Locks = {a2}
    SignOffset = 1
    MsgHand = MsgHand
    Workers = {}
    Masternode = FALSE
    MaxToggles = 2
    MaxInvalid = 1
INVARIANTS
    TypeOK
    
PROPERTY LockGetsActive
