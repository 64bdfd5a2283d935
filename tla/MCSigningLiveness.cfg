\* Three honest members, two shares recover, n3 has no key share, nothing restarts.
SPECIFICATION FairSpec
CONSTANTS
    n1 = n1 n2 = n2 n3 = n3 ma = ma mb = mb q1 = q1
    Ids = {i1}
    Msgs = {ma}
    Quorums = {q1}
    Members = {n1, n2, n3}
    Faulty = {}
    MembersOf <- Three
    KeyHolders <- TwoKeys
    Threshold <- Two
    Views = {1}
    SelectedQuorum <- Selected
    ActiveQuorums <- Active
    MaxAge = 0
    MaxTime = 0
    MaxDisruptions = 0
    MaxPending = 9
    NoMsg = NoMsg
    NoRecSig = NoRecSig
PROPERTY RecoveryCompletes
CHECK_DEADLOCK FALSE
