SPECIFICATION Spec
CONSTANTS
    pay = pay
    double = double
    child = child
    coin = coin
    output = output
    Txs = {pay, double, child}
    NoTx = NoTx
    Outpoints = {coin, output}
    Inputs <- MCInputs
    Source <- MCSource
    BlockParent <- MCBlockParent
    Signed = {pay}
    Lockable = {pay, double}
    MaxEvents = 1
    MaxReorgs = 1
INVARIANTS TypeOK NoConflictInMempool LockNotLost OutpointsTracked FailedOnlyForConflicts
CHECK_DEADLOCK FALSE
