--------------------------- MODULE BusinessCalendar ---------------------------
(***************************************************************************)
(* The tables that say when the business is open, and the handlers that    *)
(* write them: SettingsService (operating hours, holidays) and the         *)
(* holidays and schedule of one service in ServicesService.                *)
(*                                                                         *)
(* Each handler checks and then writes in a statement of its own; unique   *)
(* indexes (a holiday's date, a setting's type, a schedule's service)      *)
(* reject what an overlapping request has inserted meanwhile.              *)
(***************************************************************************)
EXTENDS OpeningRules, OrmSave, Sequences, FiniteSets

CONSTANTS
    Requests,       \* HTTP requests, each handled once
    Dates,          \* the dates requests name
    SeedHolidays,   \* dates that may be holidays from the start
    SeedSchedules,  \* schedules the service may have from the start, or Null
    HoursForms,     \* bodies of updateOperatingHours
    ScheduleForms   \* bodies of updateServiceSchedule

ASSUME CalendarConstants ==
    /\ Null \notin Requests
    /\ SeedHolidays \subseteq Dates
    /\ \A s \in SeedSchedules : s # Null => IsRow("schedule", s)
    /\ \A form \in HoursForms : \A k \in Types : IsForm(k, form[k])
    /\ \A form \in ScheduleForms : IsForm("schedule", form)

\* A row of holidays or of service_holidays is known by the request that
\* inserted it; one that was there already by Null.
HolidayRows == [by : Requests \cup {Null}, date : Dates]

\* The rows written by find-or-create and save(): one setting for each type, and
\* the schedule of the service.
Keys == Types \cup {"schedule"}

VARIABLES
    holidays,         \* the table of general holidays
    serviceHolidays,  \* those of the service
    config,           \* key -> row, for the keys that have one
    pc,               \* request -> where its handler is
    job,              \* request -> what it was asked
    todo,             \* request -> the keys it has still to save
    entity,           \* request -> the row in memory: a setting, a schedule, a holiday
    dirty,            \* request -> the columns save() found to differ
    answer,           \* request -> what its caller is told
    stood             \* history: the holidays of both kinds that have been there
                      \* ever since the request came

tables == <<holidays, serviceHolidays, config>>
calendarVars == <<tables, pc, job, todo, entity, dirty, answer, stood>>

SeedRows(dates) == {[by |-> Null, date |-> d] : d \in dates}

CalendarInit ==
    /\ \E dates \in SUBSET SeedHolidays : holidays = SeedRows(dates)
    /\ serviceHolidays = {}
    /\ \E s \in SeedSchedules, seeded \in BOOLEAN :
          config = [k \in {x \in Keys : IF x = "schedule" THEN s # Null ELSE seeded} |->
                      IF k = "schedule" THEN s ELSE DefaultSetting(k)]
    /\ pc = [r \in Requests |-> "idle"]
    /\ job = [r \in Requests |-> [handler |-> "none"]]
    /\ todo = [r \in Requests |-> <<>>]
    /\ entity = [r \in Requests |-> Null]
    /\ dirty = [r \in Requests |-> {}]
    /\ answer = [r \in Requests |-> "none"]
    /\ stood = [r \in Requests |-> {}]
-----------------------------------------------------------------------------
InProgress(r) == pc[r] \notin {"idle", "answered"}

Goto(r, phase) == pc' = [pc EXCEPT ![r] = phase]

Answer(r, what) ==
    /\ Goto(r, "answered")
    /\ answer' = [answer EXCEPT ![r] = what]

Begin(r, request) ==
    /\ pc[r] = "idle"
    /\ job' = [job EXCEPT ![r] = request]
    /\ stood' = [stood EXCEPT ![r] = holidays \cup serviceHolidays]

Dated(rows, date) == {h \in rows : h.date = date}

\* The rows are gone for every request under way.
Removed(rows) == stood' = [r \in Requests |-> stood[r] \ rows]

unmoved == <<job, todo, entity, dirty>>
-----------------------------------------------------------------------------
(* General holidays *)

\* addHoliday up to its save(): the check.
AddHoliday(r, date) ==
    /\ Begin(r, [handler |-> "addHoliday", date |-> date])
    /\ \/ Dated(holidays, date) = {} /\ Goto(r, "insert") /\ UNCHANGED answer
       \/ Dated(holidays, date) # {} /\ Answer(r, "exists")
    /\ UNCHANGED <<tables, todo, entity, dirty>>

\* Mutation: holidays.date has no unique index.
DateTaken_NotUnique(date) == FALSE

\* The unique index on holidays.date.
DateTaken(date) == Dated(holidays, date) # {}

InsertHoliday(r) ==
    /\ pc[r] = "insert"
    /\ ~DateTaken(job[r].date)
    /\ holidays' = holidays \cup {[by |-> r, date |-> job[r].date]}
    /\ Goto(r, "reply")
    /\ UNCHANGED <<serviceHolidays, config, unmoved, answer, stood>>

HolidayConflict(r) ==
    /\ pc[r] = "insert"
    /\ DateTaken(job[r].date)
    /\ Answer(r, "failed")
    /\ UNCHANGED <<tables, unmoved, stood>>

\* deleteHoliday up to its remove(): the row found is kept in memory.
DeleteHoliday(r, date) ==
    /\ Begin(r, [handler |-> "deleteHoliday", date |-> date])
    /\ \/ \E h \in Dated(holidays, date) :
             Goto(r, "remove") /\ entity' = [entity EXCEPT ![r] = h] /\ UNCHANGED answer
       \/ Dated(holidays, date) = {} /\ Answer(r, "notFound") /\ UNCHANGED entity
    /\ UNCHANGED <<tables, todo, dirty>>

\* Mutation: DELETE ... WHERE date.
RemoveHoliday_ByDate(r) ==
    /\ pc[r] = "remove"
    /\ holidays' = holidays \ Dated(holidays, job[r].date)
    /\ Removed(Dated(holidays, job[r].date))
    /\ Goto(r, "reply")
    /\ UNCHANGED <<serviceHolidays, config, unmoved, answer>>

\* remove(): DELETE ... WHERE id.  If the row is gone already nothing happens.
RemoveHoliday(r) ==
    /\ pc[r] = "remove"
    /\ holidays' = holidays \ {entity[r]}
    /\ Removed({entity[r]})
    /\ Goto(r, "reply")
    /\ UNCHANGED <<serviceHolidays, config, unmoved, answer>>
-----------------------------------------------------------------------------
(* Holidays of the service: each handler writes in one statement, the first *)
(* query only makes sure that there is such a service.                      *)

\* All rows, or none if one of the dates is taken.
AddServiceHolidays(r, dates) ==
    /\ Begin(r, [handler |-> "addServiceHolidays", dates |-> dates])
    /\ \/ /\ \A d \in dates : Dated(serviceHolidays, d) = {}
          /\ serviceHolidays' = serviceHolidays \cup {[by |-> r, date |-> d] : d \in dates}
          /\ Answer(r, "ok")
       \/ /\ \E d \in dates : Dated(serviceHolidays, d) # {}
          /\ Answer(r, "failed")
          /\ UNCHANGED serviceHolidays
    /\ UNCHANGED <<holidays, config, todo, entity, dirty>>

\* Ids of rows that are gone delete nothing.
DeleteServiceHolidays(r, rows) ==
    /\ pc[r] = "idle"
    /\ job' = [job EXCEPT ![r] = [handler |-> "deleteServiceHolidays"]]
    /\ serviceHolidays' = serviceHolidays \ rows
    /\ Removed(rows)
    /\ Answer(r, "ok")
    /\ UNCHANGED <<holidays, config, todo, entity, dirty>>
-----------------------------------------------------------------------------
(* Operating hours and the schedule: find or create, then save() *)

NewSchedule(form) ==
    [c \in ScheduleColumns |->
        CASE c \in DOMAIN form -> form[c]
          [] c \notin DOMAIN form /\ c = "bookingPeriodMonths" -> DefaultPeriod
          [] c \notin DOMAIN form /\ c # "bookingPeriodMonths" -> Null]

NewSetting(form) == [days |-> form.days, start |-> form.start, end |-> form.end, slot |-> 60]

Row(k) == IF k \in DOMAIN config THEN config[k] ELSE Null

\* What the handler makes of the row it found for key k, if any: columns the body
\* leaves out keep their value.
Assigned(k, form) ==
    CASE k \in DOMAIN config                      -> Merge(config[k], form, DOMAIN form)
      [] k \notin DOMAIN config /\ k = "schedule" -> NewSchedule(form)
      [] k \notin DOMAIN config /\ k # "schedule" -> NewSetting(form)

UpdateHours(r, form) ==
    /\ Begin(r, [handler |-> "updateHours", form |-> form])
    /\ todo' = [todo EXCEPT ![r] = <<"estimate", "construction">>]
    /\ Goto(r, "find")
    /\ UNCHANGED <<tables, entity, dirty, answer>>

UpdateSchedule(r, form) ==
    /\ Begin(r, [handler |-> "updateSchedule", form |-> [schedule |-> form]])
    /\ todo' = [todo EXCEPT ![r] = <<"schedule">>]
    /\ Goto(r, "find")
    /\ UNCHANGED <<tables, entity, dirty, answer>>

Key(r) == Head(todo[r])

Find(r) ==
    /\ pc[r] = "find"
    /\ entity' = [entity EXCEPT ![r] = Assigned(Key(r), job[r].form[Key(r)])]
    /\ Goto(r, IF Key(r) \in DOMAIN config THEN "load" ELSE "create")
    /\ UNCHANGED <<tables, job, todo, dirty, answer, stood>>

\* The SELECT of save().
Load(r) ==
    /\ pc[r] = "load"
    /\ dirty' = [dirty EXCEPT ![r] = Dirty(entity[r], config[Key(r)])]
    /\ Goto(r, "write")
    /\ UNCHANGED <<tables, job, todo, entity, answer, stood>>

\* A row is saved; the hours of construction come after those of estimates.
Saved(r, row) ==
    /\ config' = [k \in DOMAIN config \cup {Key(r)} |-> IF k = Key(r) THEN row ELSE config[k]]
    /\ todo' = [todo EXCEPT ![r] = Tail(@)]
    /\ Goto(r, IF Len(todo[r]) = 1 THEN "reply" ELSE "find")
    /\ UNCHANGED <<holidays, serviceHolidays, job, entity, dirty, answer, stood>>

\* The UPDATE of save().
Write(r) ==
    /\ pc[r] = "write"
    /\ Saved(r, Merge(config[Key(r)], entity[r], dirty[r]))

\* The INSERT of save().
Create(r) ==
    /\ pc[r] = "create"
    /\ Key(r) \notin DOMAIN config
    /\ Saved(r, entity[r])

\* The unique index on a setting's type, or on a schedule's service.
CreateConflict(r) ==
    /\ pc[r] = "create"
    /\ Key(r) \in DOMAIN config
    /\ Answer(r, "failed")
    /\ UNCHANGED <<tables, unmoved, stood>>
-----------------------------------------------------------------------------
\* Mutation: the statement that writes is not awaited.
Reply_NotAwaited(r) ==
    /\ pc[r] \in {"insert", "remove", "reply"}
    /\ Answer(r, "ok")
    /\ UNCHANGED <<tables, unmoved, stood>>

\* The lists answered are read last.
Reply(r) ==
    /\ pc[r] = "reply"
    /\ Answer(r, "ok")
    /\ UNCHANGED <<tables, unmoved, stood>>

\* A query fails, or the process dies: what was written stays.
Fail(r) ==
    /\ InProgress(r)
    /\ Answer(r, "failed")
    /\ UNCHANGED <<tables, unmoved, stood>>

CalendarArrive(r) ==
    \/ \E d \in Dates : AddHoliday(r, d) \/ DeleteHoliday(r, d)
    \/ \E dates \in SUBSET Dates \ {{}} : AddServiceHolidays(r, dates)
    \/ \E rows \in SUBSET serviceHolidays : DeleteServiceHolidays(r, rows)
    \/ \E form \in HoursForms : UpdateHours(r, form)
    \/ \E form \in ScheduleForms : UpdateSchedule(r, form)

CalendarHandlerStep(r) ==
    \/ InsertHoliday(r)
    \/ HolidayConflict(r)
    \/ RemoveHoliday(r)
    \/ Find(r)
    \/ Load(r)
    \/ Write(r)
    \/ Create(r)
    \/ CreateConflict(r)
    \/ Reply(r)
    \/ Fail(r)

CalendarStep(r) == CalendarArrive(r) \/ CalendarHandlerStep(r)

CalendarNext == \E r \in Requests : CalendarStep(r)

CalendarSpec == CalendarInit /\ [][CalendarNext]_calendarVars
-----------------------------------------------------------------------------
(* Properties *)

\* The tables keep their shape: a general holiday, and one of the service, is
\* stored once for a date, however many requests add it at once, and a row of hours
\* has a proper value in every column, also after saves that wrote a part of them.
CalendarTypeOK ==
    /\ holidays \subseteq HolidayRows /\ serviceHolidays \subseteq HolidayRows
    /\ \A g, h \in holidays : g.date = h.date => g = h
    /\ \A g, h \in serviceHolidays : g.date = h.date => g = h
    /\ DOMAIN config \subseteq Keys
    /\ \A k \in DOMAIN config : IsRow(k, config[k])

HasFound(r, row) == job[r].handler = "deleteHoliday" /\ entity[r] = row

\* What an administrator is told of a holiday is true: one that was added is there
\* until a delete that found it, and one that was deleted is gone, even if the same
\* date has been added again meanwhile (settings.service.ts:124-177).
AnswersAreTrue ==
    \A r \in Requests :
       answer[r] = "ok" =>
          /\ job[r].handler = "addHoliday" =>
                LET row == [by |-> r, date |-> job[r].date]
                IN  row \in holidays \/ \E q \in Requests : HasFound(q, row)
          /\ job[r].handler = "deleteHoliday" => entity[r] \notin holidays

\* A holiday leaves the table only by the request that found this very row: never
\* by one that looked before it was added (settings.service.ts:164-170).
LeavesByItsFinder ==
    [][\A h \in holidays \ holidays' :
          \E r \in Requests : pc[r] = "remove" /\ pc'[r] = "reply" /\ entity[r] = h]_calendarVars
=============================================================================
