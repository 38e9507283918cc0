\* An update of a portfolio whose upload fails.
SPECIFICATION PortfolioSpec

CONSTANTS
    req1 = req1
    req2 = req2
    Requests <- MCRequests
    Nobody = Nobody
    Nothing = Nothing
    ImageCounts <- MCImageCounts

SYMMETRY Symmetry

INVARIANTS FailedUploadKeepsOldImages

\* When all requests are answered nothing is left to do.
CHECK_DEADLOCK FALSE
