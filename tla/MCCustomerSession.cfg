\* Three overlapping requests of a customer who may be logged in and of one without
\* an account, while the clock goes from 0 to 3 and tokens live for 2 ticks.
SPECIFICATION Spec
CONSTANTS
    r1 = r1
    r2 = r2
    r3 = r3
    seeded = seeded
    new = new
    Null = Null
    Requests <- MCRequests
    Users <- MCUsers
    SeedUsers <- MCSeedUsers
    Lifetime = 2
    Horizon = 3
SYMMETRY Symmetry
INVARIANTS TypeOK EndedStaysEnded OkIsUsable
PROPERTIES AloneIsFaithful
\* Requests are finite in number: the system stops once all are answered.
CHECK_DEADLOCK FALSE
