\* Two key generation intervals with reorganisations, crashes and received commitments.
SPECIFICATION Spec
CONSTANTS
    dkgInterval = 3
    dkgMiningWindowStart = 1
    dkgMiningWindowEnd = 2
    Signers = {1, 2}
    nCheckDepth = 2
    MaxHeight = 4
    MaxEvents = 3
INVARIANTS
    TypeOK
    MinedMatchesChain
    CacheTrue
    CommitmentRule
    TemplateIsValid
    OfferedKnown
    OnlyTornFails
PROPERTY
    OfferImproves
