SPECIFICATION FairSpec
CONSTANTS
    pay = pay
    double = double
    child = child
    coin = coin
    output = output
    Txs = {pay, double}
    NoTx = NoTx
    Outpoints = {coin, output}
    Inputs <- MCInputs
    Source <- MCSource
    BlockParent <- MCBlockParent
    Signed = {pay}
    Lockable = {pay, double}
    MaxEvents = 1
    MaxReorgs = 0
PROPERTY ChainLockPrevails
CHECK_DEADLOCK FALSE
