----------------------------- MODULE Availability -----------------------------
(***************************************************************************)
(* ReservationsService.getAvailableTimes and getAvailableDates, beside the *)
(* handlers of BusinessCalendar and the bookings that change what they     *)
(* read.                                                                   *)
(*                                                                         *)
(* A query is a sequence of SELECTs with an await before each and no       *)
(* snapshot around them: the schedule, the holidays, the holidays of the   *)
(* service, the setting and, for times, the reservations of the date.      *)
(***************************************************************************)
EXTENDS BusinessCalendar

CONSTANTS
    Times,    \* the times clients book
    Today,    \* the date on which the behaviour starts
    Horizon   \* bound: the clock stops at this date

ASSUME DaysAreCounted == Today \in Nat /\ Dates \subseteq Nat

VARIABLES
    today,
    reservations,  \* the date and time of every estimate booked, also of those
                   \* cancelled since
    seen,          \* request -> what its query has read so far
    open,          \* request -> the dates it was told are open
    free,          \* request -> the times it was told are free
    bookedBefore   \* history: request -> the reservations when it came

queryVars == <<today, reservations, seen, open, free, bookedBefore>>
vars == <<calendarVars, queryVars>>

NothingSeen == [schedule |-> Null, maxDate |-> 0, closed |-> {}, setting |-> Null]

Init ==
    /\ CalendarInit
    /\ today = Today
    /\ reservations = {}
    /\ seen = [r \in Requests |-> NothingSeen]
    /\ open = [r \in Requests |-> {}]
    /\ free = [r \in Requests |-> {}]
    /\ bookedBefore = [r \in Requests |-> {}]
-----------------------------------------------------------------------------
SeeNow(r, field, value) == seen' = [seen EXCEPT ![r][field] = value]

\* The dates a query is about, of type job[r].type.
Asked(r) == job[r].dates
ForTimes(r) == job[r].handler = "times"
TheDate(r) == CHOOSE d \in Asked(r) : TRUE

closedTables == <<tables, job, todo, entity, dirty, stood, today, reservations, bookedBefore>>

\* getAvailableTimes is about one date, getAvailableDates about those of a month.
Ask(r, handler, dates, type) ==
    /\ Begin(r, [handler |-> handler, dates |-> dates, type |-> type])
    /\ bookedBefore' = [bookedBefore EXCEPT ![r] = reservations]
    /\ Goto(r, "readSchedule")
    /\ UNCHANGED <<tables, todo, entity, dirty, answer, today, reservations, seen, open, free>>

\* A query of times that has found a reason answers at once.
Shut(r) ==
    /\ Answer(r, "ok")
    /\ UNCHANGED <<seen, open, free>>

ReadSchedule(r) ==
    /\ pc[r] = "readSchedule"
    /\ LET schedule == Row("schedule")
       IN  IF ForTimes(r) /\ TimesBeyond(schedule, TheDate(r), today)
           THEN Shut(r)
           ELSE /\ seen' = [seen EXCEPT ![r].schedule = schedule,
                                        ![r].maxDate = MaxDate(schedule, today)]
                /\ Goto(r, "readHolidays")
                /\ UNCHANGED <<answer, open, free>>
    /\ UNCHANGED closedTables

DatesOf(rows) == {h.date : h \in rows}

\* Reads the holidays in "rows".
ReadRows(r, phase, rows, next) ==
    /\ pc[r] = phase
    /\ IF ForTimes(r) /\ TheDate(r) \in DatesOf(rows)
       THEN Shut(r)
       ELSE /\ SeeNow(r, "closed", seen[r].closed \cup DatesOf(rows))
            /\ Goto(r, next)
            /\ UNCHANGED <<answer, open, free>>
    /\ UNCHANGED closedTables

ReadHolidays(r) == ReadRows(r, "readHolidays", holidays, "readServiceHolidays")

\* Mutation: the holidays of the service are left out.
ReadServiceHolidays_Skipped(r) == ReadRows(r, "readServiceHolidays", {}, "readSetting")

ReadServiceHolidays(r) ==
    ReadRows(r, "readServiceHolidays", serviceHolidays, "readSetting")

\* The day of the week is checked.  A query of dates reads the clock again, to
\* leave out the past, and answers.
ReadSetting(r) ==
    LET s       == seen[r]
        type    == job[r].type
        setting == Row(type)
    IN  /\ pc[r] = "readSetting"
        /\ IF ForTimes(r)
           THEN IF Operates(TimesConfig(s.schedule, setting, type), TheDate(r))
                THEN /\ SeeNow(r, "setting", setting)
                     /\ Goto(r, "readBookings")
                     /\ UNCHANGED <<answer, open, free>>
                ELSE Shut(r)
           ELSE /\ open' = [open EXCEPT ![r] =
                      {d \in Asked(r) : Bookable(d, today, s.maxDate, s.closed,
                                           DatesDays(s.schedule, setting, type))}]
                /\ Answer(r, "ok")
                /\ UNCHANGED <<seen, free>>
        /\ UNCHANGED closedTables

Booked(type, date) ==
    IF type = "estimate" THEN {b.time : b \in {x \in reservations : x.date = date}} ELSE {}

ReadBookings(r) ==
    LET config_ == TimesConfig(seen[r].schedule, seen[r].setting, job[r].type)
    IN  /\ pc[r] = "readBookings"
        /\ open' = [open EXCEPT ![r] = Asked(r)]
        /\ free' = [free EXCEPT ![r] = SlotsOf(config_) \ Booked(job[r].type, TheDate(r))]
        /\ Answer(r, "ok")
        /\ UNCHANGED <<closedTables, seen>>

\* ReservationsService.create: any date and time, whatever a query said.
Book(date, time) ==
    /\ reservations' = reservations \cup {[date |-> date, time |-> time]}
    /\ UNCHANGED <<calendarVars, today, seen, open, free, bookedBefore>>

Midnight ==
    /\ today < Horizon
    /\ today' = today + 1
    /\ UNCHANGED <<calendarVars, reservations, seen, open, free, bookedBefore>>

QueryStep(r) ==
    \/ \E d \in Dates, type \in Types : Ask(r, "times", {d}, type)
    \/ \E type \in Types : Ask(r, "dates", Dates, type)
    \/ ReadSchedule(r)
    \/ ReadHolidays(r)
    \/ ReadServiceHolidays(r)
    \/ ReadSetting(r)
    \/ ReadBookings(r)

Next ==
    \/ \E r \in Requests : QueryStep(r) \/ (CalendarStep(r) /\ UNCHANGED queryVars)
    \/ \E d \in Dates, t \in Times : Book(d, t)
    \/ Midnight

Spec == Init /\ [][Next]_vars
-----------------------------------------------------------------------------
(* Properties *)

\* A query answers with dates it was asked about, and offers times only on an
\* open one.
TypeOK ==
    /\ CalendarTypeOK
    /\ \A r \in Requests :
          /\ open[r] # {} => open[r] \subseteq Asked(r)
          /\ free[r] # {} => open[r] = Asked(r)

\* The two queries, written separately, agree on every date from today on, on
\* every calendar the handlers can produce: an open date of the month view opens
\* in the day view and the other way round.  Only a service without a schedule is
\* limited by the month view alone (reservations.service.ts:252, 571).
QueriesAgree ==
    \A type \in Types, date \in Dates :
       LET closed == DatesOf(holidays \cup serviceHolidays)
           s      == Row("schedule")
       IN  date >= today /\ (s # Null \/ date <= today + DefaultPeriod) =>
              (TimesOpen(date, today, closed, s, Row(type), type)
                 <=> DatesOpen(date, today, closed, s, Row(type), type))

Tile(slots, c) ==
    /\ slots # {} => c.start < c.end /\ c.start \in slots
    /\ \A t \in slots : t >= c.start /\ t < c.end
    /\ \A t \in slots : t + c.slot \in slots \/ t + c.slot >= c.end
    /\ \A t, u \in slots : t < u => t + c.slot <= u

\* The slots offered tile the opening hours: they start at opening, follow each
\* other at the length of a slot, begin before closing, and none is left out
\* (reservations.service.ts:445-460).
SlotsTile ==
    \A type \in Types :
       LET c == TimesConfig(Row("schedule"), Row(type), type)
       IN  Tile(SlotsOf(c), c)

\* A query is not a snapshot, but what stood from its first read to its answer is
\* never overlooked: a holiday of either kind that was there all the time closes
\* its date, and a time booked before the query is not offered.
StandingIsSeen ==
    \A r \in Requests :
       /\ DatesOf(stood[r]) \cap open[r] = {}
       /\ free[r] # {} /\ job[r].type = "estimate" =>
             \A b \in bookedBefore[r] : b.date \in open[r] => b.time \notin free[r]
=============================================================================
