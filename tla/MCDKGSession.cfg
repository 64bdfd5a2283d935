SPECIFICATION Spec
CONSTANTS
    m1 = m1
    m2 = m2
    m3 = m3
    Members = {m1, m2, m3}
    minSize = 2
    dkgBadVotesThreshold = 2
    None = None
    MaxSkew = 1
    MaxErring = 1
    MaxLosses = 1
    MaxFaults = 2
SYMMETRY Symmetric
INVARIANTS
    TypeOK
    OneFinalCommitment
    SharesOfValidMembers
    HonestNotBad
    HonestQuorumForms
