\* A stored row is longer than the limits of its parts allow.
SPECIFICATION Spec
CONSTANTS
    Requests = {r1, r2}
    Tokens = {alice}
    NoToken = NoToken
    NoId = NoId
    NoRow = NoRow
    Remembering = {"spark_rca"}
    MaxEvidence = 2
    MaxExcerpt = 2
    MaxSection = 1
    MessageLimit = 5
    MinSecret = 2
    MarkLength = 3
    Numbers <- MCNumbers
    Lengths <- MCLengths
    MaxPack = 3
    MaxText = 7
    Sites <- MCSites
    NoSite = NoSite
SYMMETRY Symmetry
CHECK_DEADLOCK FALSE
INVARIANT RowsStayBounded
