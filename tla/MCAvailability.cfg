\* Two requests, any of them a query, beside bookings and midnight.
SPECIFICATION Spec
CONSTANTS
    r1 = r1
    r2 = r2
    Null = Null
    DefaultPeriod = 3
    Requests <- MCRequests
    Dates <- MCDates
    SeedHolidays <- MCFriday
    SeedSchedules <- MCSeedSchedules
    HoursForms <- MCHoursForms
    ScheduleForms <- MCScheduleForms
    Times <- MCTimes
    Today = 4
    Horizon = 5
SYMMETRY Symmetry
INVARIANTS TypeOK QueriesAgree SlotsTile StandingIsSeen
\* The behaviour ends when every request is answered.
CHECK_DEADLOCK FALSE
