\* Only the validated handlers, one request at a time, two rows.
SPECIFICATION Spec
CONSTANTS
    r1 = r1
    r2 = r2
    r3 = r3
    alice = alice
    bob = bob
    Null = Null
    Seeded = Seeded
    Requests <- MCRequests
    Ids <- MCIds
    UnknownIds <- MCUnknownIds
    Customers <- MCCustomers
    CustomerOf <- MCCustomerOf
    Exposed <- Validated
    Serial = TRUE
PROPERTIES ImplementsLifecycle
\* Requests are finite in number: the system stops once all are answered.
CHECK_DEADLOCK FALSE
