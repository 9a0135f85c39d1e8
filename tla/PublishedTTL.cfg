SPECIFICATION Spec
CONSTANTS
    c1 = c1
    c2 = c2
    c3 = c3
    broken = broken
    beta = beta
    Workers = {w1, w2}
    Contents <- MCContents
    Malformed <- MCNone
    ExplicitVersions <- MCExplicitVersions
    Unnumbered <- MCUnnumbered
    Automatic = Automatic
    NoVersion = NoVersion
    NoRequest = NoRequest
    NoJob = NoJob
    Nobody = Nobody
PROPERTIES PublishedTTLImmutable
SYMMETRY MCSymmetry
