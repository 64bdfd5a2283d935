\* Two key generation intervals with reorganisations, crashes and received commitments.
SPECIFICATION Spec
CONSTANTS
    dkgInterval = 3
    dkgMiningWindowStart = 1
    dkgMiningWindowEnd = 2
    Signers = {1, 2}
    nCheckDepth = 2
    MaxHeight = 4
    MaxEvents = 3
INVARIANT ReplayNeverAborts
