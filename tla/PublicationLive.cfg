SPECIFICATION FairSpec
CONSTANTS
    c1 = c1
    c2 = c2
    c3 = c3
    broken = broken
    beta = beta
    Workers = {w1, w2}
    Contents <- MCFewContents
    Malformed <- MCMalformed
    ExplicitVersions <- MCFewExplicit
    Unnumbered <- MCNone
    Automatic = Automatic
    NoVersion = NoVersion
    NoRequest = NoRequest
    NoJob = NoJob
    Nobody = Nobody
PROPERTIES EventuallyAnswered
