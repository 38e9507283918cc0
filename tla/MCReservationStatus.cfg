\* Three overlapping requests, every handler, on one row that may start in any status.
SPECIFICATION Spec
CONSTANTS
    r1 = r1
    r2 = r2
    r3 = r3
    alice = alice
    bob = bob
    Null = Null
    Seeded = Seeded
    Requests <- MCRequests
    Ids <- MCOneId
    UnknownIds <- MCUnknownIds
    Customers <- MCCustomers
    CustomerOf <- MCCustomerOfOne
    Exposed <- Every
    Serial = FALSE
INVARIANTS TypeOK StampsAreOwned
PROPERTIES NeverBackToPending UndisturbedIsFaithful
\* Requests are finite in number: the system stops once all are answered.
CHECK_DEADLOCK FALSE
