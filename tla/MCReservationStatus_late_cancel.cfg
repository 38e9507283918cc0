\* The handlers HTTP reaches, two overlapping requests.
SPECIFICATION Spec
CONSTANTS
    r1 = r1
    r2 = r2
    r3 = r3
    alice = alice
    bob = bob
    Null = Null
    Seeded = Seeded
    Requests <- MCTwoRequests
    Ids <- MCOneId
    UnknownIds <- MCUnknownIds
    Customers <- MCCustomers
    CustomerOf <- MCCustomerOfOne
    Exposed <- Http
    Serial = FALSE
PROPERTIES CompletedIsNotCancelledByCustomer
\* Requests are finite in number: the system stops once all are answered.
CHECK_DEADLOCK FALSE
