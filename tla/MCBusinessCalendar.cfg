\* Three overlapping requests, so that a date can be deleted twice and added again
\* in between.
SPECIFICATION CalendarSpec
CONSTANTS
    r1 = r1
    r2 = r2
    r3 = r3
    Null = Null
    DefaultPeriod = 3
    Requests <- MCRequests
    Dates <- MCDates
    SeedHolidays <- MCSeedHolidays
    SeedSchedules <- MCSeedSchedules
    HoursForms <- MCHoursForms
    ScheduleForms <- MCScheduleForms
SYMMETRY Symmetry
INVARIANTS CalendarTypeOK AnswersAreTrue
PROPERTIES LeavesByItsFinder
\* Requests are finite in number: the system stops once all are answered.
CHECK_DEADLOCK FALSE
