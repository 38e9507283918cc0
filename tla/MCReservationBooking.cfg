\* Two bookings with up to two photos each, in two processes, on two dates that
\* already have a number.
SPECIFICATION Spec
CONSTANTS
    r1 = r1
    r2 = r2
    w1 = w1
    w2 = w2
    d1 = d1
    d2 = d2
    NoOne = NoOne
    Requests <- MCRequests
    Processes <- MCProcesses
    WorkerOf <- MCWorkerOf
    Photos = {1, 2}
    Services = {"s1", "s2"}
    ActiveServices = {"s1"}
    Dates <- MCDates
    Times = {"10:00"}
    Seeds <- MCSeeds
INVARIANTS TypeOK PhotosOfRowsAreStored OrphansAreExplained AnswersAreTrue
PROPERTIES NumbersAreConsecutive EveryBookingEnds
\* Requests are finite in number: the system stops once all are answered or dead.
CHECK_DEADLOCK FALSE
