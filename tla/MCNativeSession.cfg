CONSTANTS
    Names = {base, n1, n2}
    Base = base
    MaxPeers = 2
SPECIFICATION Spec
SYMMETRY PeerSymmetry
INVARIANTS
    TypeOK
    ConnectionFlagsAreTrue
    CredentialFlagsUntilTest
PROPERTIES
    RowsKeepTheirProfile
