\* Requests to one area of the back office, interleaved statement by statement.
SPECIFICATION Spec

CONSTANTS
    req1 = req1
    req2 = req2
    req3 = req3
    Requests <- MCRequests
    Nobody = Nobody
    Nothing = Nothing
    Arrivals <- MCArrivals
    PieceInputs <- MCPieceInputs
    MaxPieces = 2
    Creations <- MCCreations
    Updates <- MCUpdates
    Reorderings <- MCReorderings
    ImageCounts <- MCImageCounts
    Districts <- MCDistricts
    LevelOf <- MCLevelOf
    ParentOf <- MCParentOf
    Drafts <- MCDrafts
    Changes <- MCChanges
    Names <- MCNames
    NewIcons <- MCNewIcons
    IconChanges <- MCIconChanges
    Emails <- MCEmails
    Usernames <- MCUsernames
    FirstAccount <- MCFirstAccount
    NewUsers <- MCNewUsers
    UserChanges <- MCUserChanges

SYMMETRY Symmetry

INVARIANTS
    BackOfficeTypeOK
    EqualOrdersOverlap
    LostRowsAreExplained
    DeletedStaysDeleted
    WritesStand
    LostClicksAreExplained
    BrokenImagesAreExplained
    RegionsAreExplained
    LaterServicesComeLater
    ShownFeesAreStored

\* When all requests are answered nothing is left to do.
CHECK_DEADLOCK FALSE
