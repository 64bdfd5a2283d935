\* An honest member n1 and a faulty one; votes and signatures expire, the quorum retires.
SPECIFICATION Spec
CONSTANTS
    n1 = n1 n2 = n2 n3 = n3 ma = ma mb = mb q1 = q1
    Ids = {i1}
    Msgs = {ma, mb}
    Quorums = {q1}
    Members = {n1, n3}
    Faulty = {n3}
    MembersOf <- Pair
    KeyHolders <- Pair
    Threshold <- Two
    Views = {1, 2}
    SelectedQuorum <- Selected
    ActiveQuorums <- Active
    MaxAge = 0
    MaxTime = 1
    MaxDisruptions = 2
    MaxPending = 1
    NoMsg = NoMsg
    NoRecSig = NoRecSig
INVARIANTS
    TypeOK
    RecoveredAgreement
    HonestVotesOnce
    StoredSigsAreRecovered
    KeysAgree
PROPERTIES
    StoredSigNotReplaced
    RefinesRecoveredOnce
SYMMETRY Symmetry
CHECK_DEADLOCK FALSE
