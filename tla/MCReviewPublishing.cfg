\* Two reviews of one reservation with up to one image each, in two processes,
\* while two other requests change the reservation's status.
SPECIFICATION Spec
CONSTANTS
    r1 = r1
    r2 = r2
    a1 = a1
    a2 = a2
    w1 = w1
    w2 = w2
    alice = alice
    bob = bob
    NoOne = NoOne
    Null = Null
    Seeded = Seeded
    Requests <- MCRequests
    StatusRequests <- MCStatusRequests
    Processes <- MCProcesses
    WorkerOf <- MCWorkerOf
    Photos = {1}
    Ids <- MCIds
    UnknownIds <- MCUnknownIds
    Customers <- MCCustomers
    CustomerOf <- MCCustomerOf
    Exposed <- Http
    Serial = FALSE
INVARIANTS TypeOK OrphansAreExplained AnswersAreTrue ReviewedIsNotPending
\* Requests are finite in number: the system stops once all are answered or dead.
CHECK_DEADLOCK FALSE
