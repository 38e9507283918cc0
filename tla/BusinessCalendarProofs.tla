------------------------ MODULE BusinessCalendarProofs ------------------------
(***************************************************************************)
(* Proofs about BusinessCalendar and Availability: the shape of the        *)
(* calendar's tables, what administrators are told of holidays, what a     *)
(* query of dates or times answers beside their writers, and the rules     *)
(* that the queries compute, for any number of overlapping requests.       *)
(***************************************************************************)
EXTENDS Availability, WellFoundedInduction, TLAPS

Shape ==
    /\ DOMAIN pc = Requests /\ DOMAIN answer = Requests /\ DOMAIN job = Requests
    /\ DOMAIN todo = Requests /\ DOMAIN entity = Requests /\ DOMAIN dirty = Requests

\* A request that is saving has keys left to save.
KeysLeft == {<<"estimate", "construction">>, <<"construction">>, <<"schedule">>}

Saving(r) == pc[r] \in {"find", "load", "write", "create"}

\* The body has a form for every key left.
FormsLeft(r) ==
    LET forms == job[r].form
    IN  IF todo[r] = <<"schedule">> THEN IsForm("schedule", forms["schedule"])
        ELSE \A k \in Types : IsForm(k, forms[k])

\* What a phase says of the request and of the row in memory.
Flow(r) ==
    /\ pc[r] = "idle" => job[r].handler = "none"
    /\ answer[r] = "ok" => pc[r] = "answered"
    /\ pc[r] = "insert" => \E d \in Dates : job[r] = [handler |-> "addHoliday", date |-> d]
    /\ pc[r] = "remove" => job[r].handler = "deleteHoliday"
    /\ Saving(r) => /\ todo[r] \in KeysLeft /\ FormsLeft(r)
                    /\ job[r].handler \in {"updateHours", "updateSchedule"}
    /\ pc[r] \in {"load", "write"} => Key(r) \in DOMAIN config
    /\ pc[r] \in {"load", "write", "create"} => IsRow(Key(r), entity[r])
    /\ pc[r] = "write" => dirty[r] \subseteq DOMAIN entity[r]

\* The request has sent its INSERT.
PastInsert(r) == pc[r] \notin {"idle", "insert"}

\* A holiday in the table, or one found there by a delete, is of a request that
\* cannot insert again.
Settled(row) == row.by = Null \/ (row.by \in Requests /\ PastInsert(row.by))

HasDeleted(r) == job[r].handler = "deleteHoliday" /\ (pc[r] = "reply" \/ answer[r] = "ok")
HasAdded(r) == job[r].handler = "addHoliday" /\ (pc[r] = "reply" \/ answer[r] = "ok")

AddedRow(r) == [by |-> r, date |-> job[r].date]

Kept(row) == row \in holidays \/ \E q \in Requests : HasFound(q, row)

FoundSettled(r) == pc[r] = "remove" \/ HasDeleted(r) => Settled(entity[r])

HolidayInv ==
    /\ \A h \in holidays : Settled(h)
    /\ \A r \in Requests : FoundSettled(r)
    /\ \A r \in Requests : HasDeleted(r) => entity[r] \notin holidays
    /\ \A r \in Requests : HasAdded(r) => Kept(AddedRow(r))

IInv == CalendarTypeOK /\ Shape /\ (\A r \in Requests : Flow(r)) /\ HolidayInv
-----------------------------------------------------------------------------
\* The initial tables and requests satisfy the invariant.
LEMMA Initially == CalendarInit => IInv
  <1> SUFFICES ASSUME CalendarInit PROVE IInv
    OBVIOUS
  <1>1. CalendarTypeOK
    <2>0. ASSUME NEW k \in Types PROVE IsRow(k, DefaultSetting(k))
      BY DEF IsRow, Filled, DefaultSetting, Columns, SettingColumns, ScheduleColumns,
             ColumnValues, ModeColumns, DaysColumns, TimeColumns, SlotColumns, Types,
             Days, Weekdays, Saturday, Sunday
    <2>1. holidays \subseteq HolidayRows /\ \A g, h \in holidays : g.date = h.date => g = h
      BY CalendarConstants DEF CalendarInit, SeedRows, HolidayRows
    <2>2. serviceHolidays = {}
      BY DEF CalendarInit
    <2>3. DOMAIN config \subseteq Keys
      BY DEF CalendarInit
    <2>4. ASSUME NEW k \in DOMAIN config PROVE IsRow(k, config[k])
      BY <2>0, <2>4, CalendarConstants DEF CalendarInit, Keys
    <2> QED
      BY <2>1, <2>2, <2>3, <2>4 DEF CalendarTypeOK
  <1>2. Shape
    BY DEF CalendarInit, Shape
  <1>3. \A r \in Requests : Flow(r)
    BY DEF CalendarInit, Flow, Saving
  <1>4. HolidayInv
    BY DEF CalendarInit, HolidayInv, SeedRows, Settled, FoundSettled, HasDeleted, HasAdded
  <1> QED
    BY <1>1, <1>2, <1>3, <1>4 DEF IInv

\* A step of one request leaves what belongs to another alone, and takes no row
\* of hours or schedule away.
Aside(r) ==
    /\ \A q \in Requests \ {r} :
          /\ pc'[q] = pc[q] /\ answer'[q] = answer[q] /\ job'[q] = job[q]
          /\ todo'[q] = todo[q] /\ entity'[q] = entity[q] /\ dirty'[q] = dirty[q]
    /\ DOMAIN config \subseteq DOMAIN config'

\* Steps of one request are its own.
LEMMA OneMoves ==
    ASSUME NEW r \in Requests, Shape, CalendarStep(r) PROVE Shape' /\ Aside(r)
  <1> USE DEF Shape, Aside, Goto, Answer, Begin, tables, unmoved
  <1>1. ASSUME NEW d \in Dates, AddHoliday(r, d) PROVE Shape' /\ Aside(r)
    BY <1>1 DEF AddHoliday
  <1>2. ASSUME NEW d \in Dates, DeleteHoliday(r, d) PROVE Shape' /\ Aside(r)
    BY <1>2 DEF DeleteHoliday
  <1>3. ASSUME NEW ds, AddServiceHolidays(r, ds) PROVE Shape' /\ Aside(r)
    BY <1>3 DEF AddServiceHolidays
  <1>4. ASSUME NEW rows, DeleteServiceHolidays(r, rows) PROVE Shape' /\ Aside(r)
    BY <1>4 DEF DeleteServiceHolidays
  <1>5. ASSUME NEW form, UpdateHours(r, form) \/ UpdateSchedule(r, form) PROVE Shape' /\ Aside(r)
    BY <1>5 DEF UpdateHours, UpdateSchedule
  <1>6. CASE InsertHoliday(r) \/ HolidayConflict(r) \/ RemoveHoliday(r)
    BY <1>6 DEF InsertHoliday, HolidayConflict, RemoveHoliday
  <1>7. CASE Find(r) \/ Load(r)
    BY <1>7 DEF Find, Load
  <1>8. CASE Write(r) \/ Create(r)
    BY <1>8 DEF Write, Create, Saved
  <1>9. CASE CreateConflict(r) \/ Reply(r) \/ Fail(r)
    BY <1>9 DEF CreateConflict, Reply, Fail
  <1> QED
    BY <1>1, <1>2, <1>3, <1>4, <1>5, <1>6, <1>7, <1>8, <1>9
    DEF CalendarStep, CalendarArrive, CalendarHandlerStep

\* A save writes proper values over proper values.
LEMMA MergedIsRow ==
    ASSUME NEW k, NEW row, IsRow(k, row), NEW other, Filled(other),
           NEW cols, cols \subseteq DOMAIN other
    PROVE  IsRow(k, Merge(row, other, cols))
  BY DEF IsRow, Filled, Merge

\* A new row has a proper value in every column, in those the body names and in the
\* others.
LEMMA NewIsRow ==
    /\ \A form : IsForm("schedule", form) => IsRow("schedule", NewSchedule(form))
    /\ \A k \in Types : \A form : IsForm(k, form) => IsRow(k, NewSetting(form))
  <1> USE DEF Columns, ModeColumns, DaysColumns, TimeColumns, SlotColumns, SettingColumns,
              ScheduleColumns, Required
  <1>1. ASSUME NEW form, IsForm("schedule", form) PROVE IsRow("schedule", NewSchedule(form))
    <2>1. ASSUME NEW c \in ScheduleColumns PROVE NewSchedule(form)[c] \in ColumnValues(c)
      <3>1. CASE c \in DOMAIN form
        BY <1>1, <3>1 DEF NewSchedule, IsForm, Filled
      <3>2. CASE c \notin DOMAIN form
        BY <1>1, <3>2, PeriodIsPositive DEF NewSchedule, IsForm, ColumnValues
      <3> QED
        BY <3>1, <3>2
    <2> QED
      BY <2>1 DEF IsRow, Filled, NewSchedule
  <1>2. ASSUME NEW form, NEW k \in Types, IsForm(k, form) PROVE IsRow(k, NewSetting(form))
    <2>1. k # "schedule" /\ {"days", "start", "end"} \subseteq DOMAIN form
      BY <1>2 DEF Types, IsForm
    <2>2. /\ form.days \in ColumnValues("days") /\ form.start \in ColumnValues("start")
          /\ form.end \in ColumnValues("end") /\ 60 \in ColumnValues("slot")
      BY <1>2, <2>1 DEF IsForm, Filled, ColumnValues
    <2> QED
      BY <2>1, <2>2 DEF IsRow, Filled, NewSetting
  <1> QED
    BY <1>1, <1>2

\* A request that is saving is at one of the keys that have a row, and has a form
\* for it.
LEMMA KeyLeft ==
    ASSUME NEW r \in Requests, Flow(r), Saving(r)
    PROVE  Key(r) \in Keys /\ IsForm(Key(r), job[r].form[Key(r)])
  <1>1. todo[r] \in KeysLeft /\ FormsLeft(r)
    BY DEF Flow
  <1> QED
    BY <1>1 DEF Key, Keys, Types, KeysLeft, FormsLeft
-----------------------------------------------------------------------------
(* The tables keep their shape. *)

\* Every step keeps the tables' shape: the unique index does at an insert.
LEMMA TypeKept ==
    ASSUME IInv, NEW r \in Requests, CalendarStep(r) PROVE CalendarTypeOK'
  <1> USE DEF CalendarTypeOK
  <1>0. CalendarTypeOK /\ Flow(r)
    BY DEF IInv
  <1>1. ASSUME UNCHANGED tables PROVE CalendarTypeOK'
    BY <1>0, <1>1 DEF tables
  <1>2. ASSUME NEW d \in Dates, AddHoliday(r, d) \/ DeleteHoliday(r, d) PROVE CalendarTypeOK'
    BY <1>1, <1>2 DEF AddHoliday, DeleteHoliday
  <1>3. ASSUME NEW dates \in SUBSET Dates, AddServiceHolidays(r, dates) PROVE CalendarTypeOK'
    <2>1. UNCHANGED <<holidays, config>>
      BY <1>3 DEF AddServiceHolidays
    <2>2. CASE UNCHANGED serviceHolidays
      BY <1>1, <2>1, <2>2 DEF tables
    <2>3. CASE /\ \A d \in dates : Dated(serviceHolidays, d) = {}
               /\ serviceHolidays' = serviceHolidays \cup {[by |-> r, date |-> d] : d \in dates}
      <3>1. serviceHolidays' \subseteq HolidayRows
        BY <1>0, <2>3 DEF HolidayRows
      <3>2. ASSUME NEW g \in serviceHolidays', NEW h \in serviceHolidays', g.date = h.date
            PROVE  g = h
        BY <1>0, <2>3, <3>2 DEF Dated
      <3> QED
        BY <1>0, <2>1, <3>1, <3>2
    <2> QED
      BY <1>3, <2>2, <2>3 DEF AddServiceHolidays
  <1>4. ASSUME NEW rows \in SUBSET serviceHolidays, DeleteServiceHolidays(r, rows)
        PROVE  CalendarTypeOK'
    BY <1>0, <1>4 DEF DeleteServiceHolidays
  <1>5. ASSUME NEW form, UpdateHours(r, form) \/ UpdateSchedule(r, form) PROVE CalendarTypeOK'
    BY <1>1, <1>5 DEF UpdateHours, UpdateSchedule
  <1>6. CASE InsertHoliday(r)
    <2>1. job[r].date \in Dates
      <3>1. PICK d \in Dates : job[r] = [handler |-> "addHoliday", date |-> d]
        BY <1>0, <1>6 DEF Flow, InsertHoliday
      <3> QED
        BY <3>1
    <2>2. holidays' \subseteq HolidayRows
      BY <1>0, <1>6, <2>1 DEF InsertHoliday, HolidayRows
    <2>3. ASSUME NEW g \in holidays', NEW h \in holidays', g.date = h.date PROVE g = h
      BY <1>0, <1>6, <2>3 DEF InsertHoliday, DateTaken, Dated
    <2> QED
      BY <1>0, <1>6, <2>2, <2>3 DEF InsertHoliday
  <1>7. CASE RemoveHoliday(r)
    BY <1>0, <1>7 DEF RemoveHoliday
  <1>8. ASSUME NEW row, Saving(r), Saved(r, row), IsRow(Key(r), row)
        PROVE  CalendarTypeOK'
    <2>1. Key(r) \in Keys
      BY <1>0, <1>8, KeyLeft
    <2> QED
      BY <1>0, <1>8, <2>1 DEF Saved
  <1>9. CASE Write(r)
    <2>1. Key(r) \in DOMAIN config /\ IsRow(Key(r), entity[r]) /\ dirty[r] \subseteq DOMAIN entity[r]
      BY <1>0, <1>9 DEF Write, Flow
    <2>2. IsRow(Key(r), config[Key(r)])
      BY <1>0, <2>1
    <2>3. IsRow(Key(r), Merge(config[Key(r)], entity[r], dirty[r]))
      BY <2>1, <2>2, MergedIsRow DEF IsRow
    <2> QED
      BY <1>8, <1>9, <2>3 DEF Write, Saving
  <1>10. CASE Create(r)
    BY <1>0, <1>8, <1>10 DEF Create, Flow, Saving
  <1>11. CASE HolidayConflict(r) \/ Find(r) \/ Load(r) \/ CreateConflict(r) \/ Reply(r) \/ Fail(r)
    BY <1>1, <1>11 DEF HolidayConflict, Find, Load, CreateConflict, Reply, Fail
  <1> QED
    BY <1>2, <1>3, <1>4, <1>5, <1>6, <1>7, <1>9, <1>10, <1>11
    DEF CalendarStep, CalendarArrive, CalendarHandlerStep

\* One request moves, as its phase allows; the others are where they were.
LEMMA FlowKept ==
    ASSUME IInv, NEW r \in Requests, CalendarStep(r), NEW q \in Requests PROVE Flow(q)'
  <1>0. Shape /\ Shape' /\ Aside(r) /\ Flow(r) /\ Flow(q)
    BY OneMoves DEF IInv
  <1>1. CASE q # r
    BY <1>0, <1>1 DEF Aside, Flow, Saving, Key, FormsLeft
  <1>2. Flow(r)'
    <2> USE DEF Shape, Goto, Answer, Begin, tables, unmoved
    <2>0. Flow(r)
      BY <1>0
    <2>1. ASSUME pc'[r] \in {"reply", "answered"}, answer'[r] = "ok" => pc'[r] = "answered"
          PROVE  Flow(r)'
      BY <2>1 DEF Flow, Saving
    <2>2. ASSUME NEW d \in Dates, AddHoliday(r, d) PROVE Flow(r)'
      BY <1>0, <2>0, <2>1, <2>2 DEF AddHoliday, Flow, Saving
    <2>3. ASSUME NEW d \in Dates, DeleteHoliday(r, d) PROVE Flow(r)'
      BY <1>0, <2>0, <2>1, <2>3 DEF DeleteHoliday, Flow, Saving
    <2>4. ASSUME NEW x, AddServiceHolidays(r, x) \/ DeleteServiceHolidays(r, x) PROVE Flow(r)'
      BY <1>0, <2>1, <2>4 DEF AddServiceHolidays, DeleteServiceHolidays
    <2>5. ASSUME pc'[r] = "find", answer'[r] # "ok", todo'[r] \in KeysLeft, FormsLeft(r)',
                 job'[r].handler \in {"updateHours", "updateSchedule"}
          PROVE  Flow(r)'
      BY <2>5 DEF Flow, Saving
    <2>6. ASSUME NEW form \in HoursForms, UpdateHours(r, form) PROVE Flow(r)'
      <3>1. /\ pc'[r] = "find" /\ answer'[r] = answer[r] /\ answer[r] # "ok"
            /\ todo'[r] = <<"estimate", "construction">>
            /\ job'[r] = [handler |-> "updateHours", form |-> form]
        BY <1>0, <2>0, <2>6 DEF UpdateHours, Flow
      <3>2. \A k \in Types : IsForm(k, form[k])
        BY CalendarConstants
      <3> QED
        BY <2>5, <3>1, <3>2 DEF FormsLeft, KeysLeft
    <2>7. ASSUME NEW form \in ScheduleForms, UpdateSchedule(r, form) PROVE Flow(r)'
      <3>1. /\ pc'[r] = "find" /\ answer'[r] = answer[r] /\ answer[r] # "ok"
            /\ todo'[r] = <<"schedule">>
            /\ job'[r] = [handler |-> "updateSchedule", form |-> [schedule |-> form]]
        BY <1>0, <2>0, <2>7 DEF UpdateSchedule, Flow
      <3>2. IsForm("schedule", form)
        BY CalendarConstants
      <3> QED
        BY <2>5, <3>1, <3>2 DEF FormsLeft, KeysLeft
    <2>8. CASE InsertHoliday(r) \/ RemoveHoliday(r)
      <3>1. pc'[r] = "reply" /\ answer'[r] = answer[r] /\ answer[r] # "ok"
        BY <1>0, <2>0, <2>8 DEF InsertHoliday, RemoveHoliday, Flow
      <3> QED
        BY <2>1, <3>1
    <2>9. CASE Find(r)
      <3>1. /\ Saving(r) /\ answer'[r] = answer[r] /\ UNCHANGED <<job, todo, config>>
            /\ pc'[r] = (IF Key(r) \in DOMAIN config THEN "load" ELSE "create")
            /\ entity'[r] = Assigned(Key(r), job[r].form[Key(r)])
        BY <1>0, <2>9 DEF Find, Saving
      <3>2. Key(r)' = Key(r) /\ (FormsLeft(r) => FormsLeft(r)')
        BY <3>1 DEF Key, FormsLeft
      <3>3. IsRow(Key(r), entity'[r])
        <4>1. Key(r) \in Keys /\ IsForm(Key(r), job[r].form[Key(r)])
          BY <2>0, <3>1, KeyLeft
        <4>2. CASE Key(r) \in DOMAIN config
          <5>1. IsRow(Key(r), config[Key(r)])
            BY <4>2 DEF IInv, CalendarTypeOK
          <5> QED
            BY <3>1, <4>1, <4>2, <5>1, MergedIsRow DEF Assigned, IsForm
        <4>3. CASE Key(r) \notin DOMAIN config
          <5>1. CASE Key(r) = "schedule"
            <6>1. entity'[r] = NewSchedule(job[r].form[Key(r)])
              BY <3>1, <4>3, <5>1 DEF Assigned
            <6> QED
              BY <4>1, <5>1, <6>1, NewIsRow
          <5>2. CASE Key(r) # "schedule"
            <6>1. entity'[r] = NewSetting(job[r].form[Key(r)])
              BY <3>1, <4>3, <5>2 DEF Assigned
            <6>2. Key(r) \in Types
              BY <4>1, <5>2 DEF Keys
            <6> QED
              BY <4>1, <6>1, <6>2, NewIsRow
          <5> QED
            BY <5>1, <5>2
        <4> QED
          BY <4>2, <4>3
      <3> QED
        BY <2>0, <3>1, <3>2, <3>3 DEF Flow, Saving
    <2>10. CASE Load(r)
      <3>1. /\ pc[r] = "load" /\ pc'[r] = "write" /\ UNCHANGED <<job, todo, config, answer>>
            /\ entity'[r] = entity[r] /\ dirty'[r] = Dirty(entity[r], config[Key(r)])
        BY <1>0, <2>10 DEF Load
      <3>2. Key(r)' = Key(r) /\ (FormsLeft(r) => FormsLeft(r)')
        BY <3>1 DEF Key, FormsLeft
      <3>3. dirty'[r] \subseteq DOMAIN entity[r]
        BY <3>1 DEF Dirty
      <3> QED
        BY <2>0, <3>1, <3>2, <3>3 DEF Flow, Saving
    <2>11. CASE Write(r) \/ Create(r)
      <3>1. /\ Saving(r) /\ answer'[r] = answer[r] /\ answer[r] # "ok" /\ job'[r] = job[r]
            /\ todo'[r] = Tail(todo[r])
            /\ pc'[r] = IF Len(todo[r]) = 1 THEN "reply" ELSE "find"
        BY <1>0, <2>0, <2>11 DEF Write, Create, Saved, Saving, Flow
      <3>2. CASE Len(todo[r]) = 1
        BY <2>1, <3>1, <3>2
      <3>3. CASE Len(todo[r]) # 1
        <4>1. todo[r] = <<"estimate", "construction">> /\ FormsLeft(r)
          BY <2>0, <3>1, <3>3 DEF Flow, KeysLeft
        <4>2. Tail(<<"estimate", "construction">>) = <<"construction">>
          OBVIOUS
        <4>3. todo'[r] \in KeysLeft /\ FormsLeft(r)'
          BY <3>1, <4>1, <4>2 DEF KeysLeft, FormsLeft
        <4> QED
          BY <2>0, <2>5, <3>1, <3>3, <4>3 DEF Flow
      <3> QED
        BY <3>2, <3>3
    <2>12. CASE HolidayConflict(r) \/ CreateConflict(r) \/ Reply(r) \/ Fail(r)
      <3>1. pc'[r] = "answered"
        BY <1>0, <2>12 DEF HolidayConflict, CreateConflict, Reply, Fail
      <3> QED
        BY <2>1, <3>1
    <2> QED
      BY <2>2, <2>3, <2>4, <2>6, <2>7, <2>8, <2>9, <2>10, <2>11, <2>12
      DEF CalendarStep, CalendarArrive, CalendarHandlerStep
  <1> QED
    BY <1>1, <1>2
-----------------------------------------------------------------------------
(* Holidays: the five kinds of step. *)

Inserts(r) ==
    /\ pc[r] = "insert" /\ pc'[r] = "reply"
    /\ holidays' = holidays \cup {AddedRow(r)}
    /\ UNCHANGED <<job, entity, answer>>

Removes(r) ==
    /\ pc[r] = "remove" /\ pc'[r] = "reply"
    /\ holidays' = holidays \ {entity[r]}
    /\ UNCHANGED <<job, entity, answer>>

Finds(r) ==
    /\ pc[r] = "idle" /\ pc'[r] = "remove"
    /\ entity'[r] \in holidays
    /\ UNCHANGED <<holidays, answer>>

Replies(r) ==
    /\ pc[r] = "reply" /\ pc'[r] = "answered"
    /\ UNCHANGED <<holidays, job, entity>>

\* Nothing that a holiday depends on.
Passes(r) ==
    /\ PastInsert(r) => PastInsert(r)'
    /\ job[r].handler = "deleteHoliday" => UNCHANGED <<job, entity>>
    /\ pc'[r] # "remove" /\ ~HasDeleted(r)' /\ ~HasAdded(r)'
    /\ UNCHANGED holidays

Moves(r) == Inserts(r) \/ Removes(r) \/ Finds(r) \/ Replies(r) \/ Passes(r)

\* Every step of a request is of one of these kinds.
LEMMA StepKinds ==
    ASSUME IInv, NEW r \in Requests, CalendarStep(r)
    PROVE  Moves(r)
  <1> USE DEF Moves, Shape, Goto, Answer, Begin, tables, unmoved, PastInsert, HasDeleted,
              HasAdded
  <1>0. Shape /\ Flow(r) /\ Flow(r)'
    BY FlowKept DEF IInv
  <1>1. ASSUME NEW d \in Dates, AddHoliday(r, d) PROVE Passes(r)
    BY <1>0, <1>1 DEF AddHoliday, Passes, Flow
  <1>2. ASSUME NEW d \in Dates, DeleteHoliday(r, d) PROVE Finds(r) \/ Passes(r)
    <2>1. CASE Dated(holidays, d) = {} /\ pc'[r] = "answered"
      BY <1>0, <1>2, <2>1 DEF DeleteHoliday, Passes, Flow
    <2>2. CASE pc'[r] = "remove"
      BY <1>0, <1>2, <2>2 DEF DeleteHoliday, Finds, Dated
    <2> QED
      BY <1>0, <1>2, <2>1, <2>2 DEF DeleteHoliday
  <1>3. ASSUME NEW x, AddServiceHolidays(r, x) \/ DeleteServiceHolidays(r, x) PROVE Passes(r)
    BY <1>0, <1>3 DEF AddServiceHolidays, DeleteServiceHolidays, Passes, Flow
  <1>4. ASSUME NEW form, UpdateHours(r, form) \/ UpdateSchedule(r, form) PROVE Passes(r)
    BY <1>0, <1>4 DEF UpdateHours, UpdateSchedule, Passes, Flow
  <1>5. CASE InsertHoliday(r)
    BY <1>0, <1>5 DEF InsertHoliday, Inserts, AddedRow
  <1>6. CASE RemoveHoliday(r)
    BY <1>0, <1>6 DEF RemoveHoliday, Removes
  <1>7. CASE Find(r) \/ Load(r) \/ Write(r) \/ Create(r)
    <2>1. /\ Saving(r) /\ UNCHANGED <<holidays, job, answer>>
          /\ pc'[r] \in {"load", "create", "write", "reply", "find"}
      BY <1>0, <1>7 DEF Find, Load, Write, Create, Saved, Saving
    <2> QED
      BY <1>0, <2>1 DEF Flow, Passes
  <1>8. CASE Reply(r)
    BY <1>0, <1>8 DEF Reply, Replies
  <1>9. CASE HolidayConflict(r) \/ CreateConflict(r) \/ Fail(r)
    BY <1>0, <1>9 DEF HolidayConflict, CreateConflict, Fail, Passes
  <1> QED
    BY <1>1, <1>2, <1>3, <1>4, <1>5, <1>6, <1>7, <1>8, <1>9
    DEF CalendarStep, CalendarArrive, CalendarHandlerStep

\* What is known of a row stays known.
LEMMA KnowledgeStays ==
    ASSUME NEW r \in Requests, Shape, Aside(r), Flow(r), Moves(r), NEW row
    PROVE  /\ Settled(row) => Settled(row)'
           /\ Kept(row) => Kept(row)'
  <1>1. \A q \in Requests : PastInsert(q) => PastInsert(q)'
    <2>1. PastInsert(r) => PastInsert(r)'
      BY DEF Moves, PastInsert, Inserts, Removes, Finds, Replies, Passes
    <2> QED
      BY <2>1 DEF Shape, Aside, PastInsert
  <1>2. ASSUME NEW q \in Requests, HasFound(q, row) PROVE HasFound(q, row)'
    <2>1. CASE q # r
      BY <1>2, <2>1 DEF Aside, HasFound
    <2>2. CASE q = r
      <3>1. ~Finds(r)
        BY <1>2, <2>2 DEF Finds, HasFound, Flow
      <3>2. UNCHANGED <<job, entity>>
        BY <1>2, <2>2, <3>1 DEF Moves, HasFound, Inserts, Removes, Replies, Passes
      <3> QED
        BY <1>2, <3>2 DEF HasFound
    <2> QED
      BY <2>1, <2>2
  <1>3. ASSUME row \in holidays, row \notin holidays' PROVE HasFound(r, row)'
    <2>1. Removes(r) /\ row = entity[r]
      BY <1>3 DEF Moves, Inserts, Removes, Finds, Replies, Passes
    <2> QED
      BY <2>1 DEF Removes, Flow, HasFound
  <1> QED
    BY <1>1, <1>2, <1>3 DEF Settled, Kept

\* No row found by a delete comes back: only its own request could insert it.
LEMMA HolidaysKept ==
    ASSUME NEW r \in Requests, Shape, Aside(r), Flow(r), Moves(r), HolidayInv
    PROVE  HolidayInv'
  <1>0. /\ Shape /\ Aside(r) /\ Flow(r) /\ HolidayInv /\ Moves(r)
        /\ Inserts(r) \/ Removes(r) \/ Finds(r) \/ Replies(r) \/ Passes(r)
    BY DEF Moves
  <1>a. ASSUME pc[r] = "insert" PROVE job[r].handler = "addHoliday"
    <2>1. PICK d \in Dates : job[r] = [handler |-> "addHoliday", date |-> d]
      BY <1>0, <1>a DEF Flow
    <2> QED
      BY <2>1
  <1>1. ASSUME NEW h \in holidays' PROVE Settled(h)'
    <2>1. CASE h \in holidays
      BY <1>0, <2>1, KnowledgeStays DEF HolidayInv
    <2>2. CASE h \notin holidays
      <3>1. Inserts(r) /\ h = AddedRow(r)
        BY <1>0, <1>1, <2>2 DEF Inserts, Removes, Finds, Replies, Passes
      <3> QED
        BY <3>1 DEF Inserts, AddedRow, Settled, PastInsert
    <2> QED
      BY <2>1, <2>2
  <1>2. ASSUME NEW q \in Requests PROVE FoundSettled(q)'
    <2>1. CASE q # r
      BY <1>0, <2>1, KnowledgeStays DEF HolidayInv, Aside, HasDeleted, FoundSettled
    <2>2. CASE q = r /\ Finds(r)
      BY <1>0, <2>2, KnowledgeStays DEF HolidayInv, Finds, FoundSettled
    <2>3. CASE q = r /\ ~Finds(r)
      <3>1. (pc'[r] = "remove" \/ HasDeleted(r)') =>
                entity'[r] = entity[r] /\ (pc[r] = "remove" \/ HasDeleted(r))
        BY <1>0, <1>a, <2>3 DEF Inserts, Removes, Replies, Passes, HasDeleted
      <3> QED
        BY <1>0, <2>3, <3>1, KnowledgeStays DEF HolidayInv, FoundSettled
    <2> QED
      BY <2>1, <2>2, <2>3
  <1>3. ASSUME NEW q \in Requests, HasDeleted(q)' PROVE entity'[q] \notin holidays'
    <2>1. CASE q = r /\ Removes(r)
      BY <2>1 DEF Removes
    <2>2. CASE ~(q = r /\ Removes(r))
      <3>1. HasDeleted(q) /\ entity'[q] = entity[q]
        BY <1>0, <1>a, <1>3, <2>2 DEF Aside, Inserts, Finds, Replies, Passes, HasDeleted, Flow
      <3>2. entity[q] \notin holidays /\ Settled(entity[q])
        BY <1>0, <3>1 DEF HolidayInv, FoundSettled
      <3>3. Inserts(r) => entity[q] # AddedRow(r)
        BY <3>2, CalendarConstants DEF Inserts, AddedRow, Settled, PastInsert
      <3> QED
        BY <1>0, <3>1, <3>2, <3>3 DEF Inserts, Removes, Finds, Replies, Passes
    <2> QED
      BY <2>1, <2>2
  <1>4. ASSUME NEW q \in Requests, HasAdded(q)' PROVE Kept(AddedRow(q))'
    <2>1. CASE q = r /\ Inserts(r)
      BY <2>1 DEF Inserts, AddedRow, Kept
    <2>2. CASE ~(q = r /\ Inserts(r))
      <3>1. HasAdded(q) /\ AddedRow(q)' = AddedRow(q)
        BY <1>0, <1>4, <2>2
        DEF Aside, Removes, Finds, Replies, Passes, HasAdded, AddedRow, Flow
      <3> QED
        BY <1>0, <3>1, KnowledgeStays DEF HolidayInv
    <2> QED
      BY <2>1, <2>2
  <1> QED
    BY <1>1, <1>2, <1>3, <1>4 DEF HolidayInv
-----------------------------------------------------------------------------
\* The invariant is inductive.
LEMMA Inductive == IInv /\ [CalendarNext]_calendarVars => IInv'
  <1> SUFFICES ASSUME IInv, [CalendarNext]_calendarVars PROVE IInv'
    OBVIOUS
  <1>1. ASSUME NEW r \in Requests, CalendarStep(r) PROVE IInv'
    <2>1. CalendarTypeOK'
      BY <1>1, TypeKept
    <2>2. Shape'
      BY <1>1, OneMoves DEF IInv
    <2>3. \A q \in Requests : Flow(q)'
      BY <1>1, FlowKept
    <2>4. HolidayInv'
      BY <1>1, OneMoves, StepKinds, HolidaysKept DEF IInv
    <2> QED
      BY <2>1, <2>2, <2>3, <2>4 DEF IInv
  <1>2. CASE UNCHANGED calendarVars
    BY <1>2 DEF calendarVars, tables, IInv, CalendarTypeOK, Shape, Flow, Saving, Key, FormsLeft,
                HolidayInv, Settled, PastInsert, FoundSettled, HasDeleted, HasAdded,
                AddedRow, Kept, HasFound
  <1> QED
    BY <1>1, <1>2 DEF CalendarNext

\* It holds in every behaviour.
LEMMA Always == CalendarSpec => []IInv
  BY Initially, Inductive, PTL DEF CalendarSpec

\* The tables keep their shape, with one holiday for a date, however many requests
\* check and insert at once (settings.service.ts:128, holiday.entity.ts:11).
THEOREM TypeCorrect == CalendarSpec => []CalendarTypeOK
  <1>1. IInv => CalendarTypeOK
    BY DEF IInv
  <1> QED
    BY <1>1, Always, PTL

\* What an administrator is told of a holiday is true of the table, whatever other
\* requests do to the same date (settings.service.ts:124-177).
THEOREM AnswersTrue == CalendarSpec => []AnswersAreTrue
  <1>1. IInv => AnswersAreTrue
    <2> SUFFICES ASSUME IInv, NEW r \in Requests, answer[r] = "ok"
                 PROVE  /\ job[r].handler = "addHoliday" => Kept(AddedRow(r))
                        /\ job[r].handler = "deleteHoliday" => entity[r] \notin holidays
      BY DEF AnswersAreTrue, Kept, AddedRow
    <2> QED
      BY DEF IInv, HolidayInv, HasAdded, HasDeleted
  <1> QED
    BY <1>1, Always, PTL

\* A holiday is removed only by the request that found that very row, so one added
\* after a delete has looked survives it (settings.service.ts:160-168).
THEOREM LeavesByFinder == CalendarSpec => LeavesByItsFinder
  <1> DEFINE ByFinder ==
        \A h \in holidays \ holidays' :
           \E r \in Requests : pc[r] = "remove" /\ pc'[r] = "reply" /\ entity[r] = h
  <1>1. IInv /\ [CalendarNext]_calendarVars => [ByFinder]_calendarVars
    <2> SUFFICES ASSUME IInv, NEW r \in Requests, CalendarStep(r), NEW h \in holidays \ holidays'
                 PROVE  pc[r] = "remove" /\ pc'[r] = "reply" /\ entity[r] = h
      BY DEF CalendarNext
    <2> QED
      BY StepKinds DEF Moves, Inserts, Removes, Finds, Replies, Passes
  <1> QED
    BY <1>1, Always, PTL DEF CalendarSpec, LeavesByItsFinder
-----------------------------------------------------------------------------
(* Availability: the queries beside the handlers above. *)

QueryPhases ==
    {"readSchedule", "readHolidays", "readServiceHolidays", "readSetting", "readBookings"}

QueryShape ==
    /\ today \in Nat
    /\ DOMAIN stood = Requests /\ DOMAIN seen = Requests /\ DOMAIN open = Requests
    /\ DOMAIN free = Requests /\ DOMAIN bookedBefore = Requests
    /\ \A r \in Requests : DOMAIN seen[r] = DOMAIN NothingSeen

Queries(r) ==
    \/ \E d \in Dates, type \in Types :
          job[r] = [handler |-> "times", dates |-> {d}, type |-> type]
    \/ \E type \in Types : job[r] = [handler |-> "dates", dates |-> Dates, type |-> type]

\* What a phase says of what has been read, and of the answer.
ReadSoFar(r) ==
    /\ pc[r] \in QueryPhases => Queries(r)
    /\ pc[r] = "readBookings" => ForTimes(r)
    /\ pc[r] # "answered" => open[r] = {} /\ free[r] = {}
    /\ pc[r] \in {"idle", "readSchedule", "readHolidays"} => seen[r].closed = {}
    /\ pc[r] \in QueryPhases /\ ForTimes(r) => TheDate(r) \notin seen[r].closed
    /\ open[r] # {} => open[r] \subseteq Asked(r)
    /\ free[r] # {} => open[r] = Asked(r)

\* What has stood since the query came is in the tables, and is seen by the time
\* its table has been read.
Standing(r) ==
    /\ stood[r] \subseteq holidays \cup serviceHolidays
    /\ pc[r] = "readServiceHolidays" =>
          \A h \in stood[r] \ serviceHolidays : h.date \in seen[r].closed
    /\ pc[r] \in {"readSetting", "readBookings"} => DatesOf(stood[r]) \subseteq seen[r].closed
    /\ DatesOf(stood[r]) \cap open[r] = {}

BookingsSeen(r) ==
    /\ bookedBefore[r] \subseteq reservations
    /\ free[r] # {} /\ job[r].type = "estimate" =>
          \A b \in bookedBefore[r] : b.date \in open[r] => b.time \notin free[r]

AInv ==
    /\ IInv /\ QueryShape
    /\ \A r \in Requests : ReadSoFar(r) /\ Standing(r) /\ BookingsSeen(r)

\* The tables and requests a behaviour starts from satisfy the invariant.
LEMMA AvailabilityInitially == Init => AInv
  <1> SUFFICES ASSUME Init PROVE AInv
    OBVIOUS
  <1>1. IInv
    BY Initially DEF Init
  <1>2. QueryShape
    BY DaysAreCounted DEF Init, CalendarInit, QueryShape
  <1>3. ASSUME NEW r \in Requests PROVE ReadSoFar(r) /\ Standing(r) /\ BookingsSeen(r)
    <2>1. /\ pc[r] = "idle" /\ open[r] = {} /\ free[r] = {} /\ seen[r].closed = {}
          /\ stood[r] = {} /\ bookedBefore[r] = {}
      BY DEF Init, CalendarInit, NothingSeen
    <2> QED
      BY <2>1 DEF ReadSoFar, Standing, BookingsSeen, DatesOf, QueryPhases
  <1> QED
    BY <1>1, <1>2, <1>3 DEF AInv
-----------------------------------------------------------------------------
(* Steps of the calendar, seen from the queries. *)

\* What has stood can only shrink, together with the tables, and starts from them.
StoodFollows(r) ==
    /\ \A q \in Requests \ {r} : stood'[q] \subseteq stood[q]
    /\ pc[r] # "idle" => stood'[r] \subseteq stood[r]
    /\ \A q \in Requests : stood'[q] \subseteq holidays' \cup serviceHolidays'
    /\ \A q \in Requests \ {r} : stood'[q] \cap serviceHolidays \subseteq serviceHolidays'

CalendarFrame(r) ==
    /\ pc[r] # "answered" /\ pc'[r] \notin QueryPhases \cup {"idle"}
    /\ DOMAIN stood' = Requests
    /\ StoodFollows(r)

\* No handler that writes the calendar is a query, and a row it removes has not stood.
LEMMA CalendarBesideQueries ==
    ASSUME AInv, NEW r \in Requests, CalendarStep(r) PROVE CalendarFrame(r)
  <1> USE DEF Shape, Goto, Answer, Begin, tables, unmoved, QueryPhases, CalendarFrame,
              StoodFollows, Removed
  <1>0. /\ Shape /\ DOMAIN stood = Requests
        /\ \A q \in Requests : stood[q] \subseteq holidays \cup serviceHolidays
    BY DEF AInv, IInv, QueryShape, Standing
  <1>1. ASSUME NEW d \in Dates, AddHoliday(r, d) PROVE CalendarFrame(r)
    BY <1>0, <1>1 DEF AddHoliday
  <1>2. ASSUME NEW d \in Dates, DeleteHoliday(r, d) PROVE CalendarFrame(r)
    BY <1>0, <1>2 DEF DeleteHoliday
  <1>3. ASSUME NEW dates, AddServiceHolidays(r, dates) PROVE CalendarFrame(r)
    BY <1>0, <1>3 DEF AddServiceHolidays
  <1>4. ASSUME NEW rows, DeleteServiceHolidays(r, rows) PROVE CalendarFrame(r)
    BY <1>0, <1>4 DEF DeleteServiceHolidays
  <1>5. ASSUME NEW form, UpdateHours(r, form) \/ UpdateSchedule(r, form)
        PROVE  CalendarFrame(r)
    BY <1>0, <1>5 DEF UpdateHours, UpdateSchedule
  <1>6. CASE InsertHoliday(r) \/ HolidayConflict(r)
    BY <1>0, <1>6 DEF InsertHoliday, HolidayConflict
  <1>7. CASE RemoveHoliday(r)
    BY <1>0, <1>7 DEF RemoveHoliday
  <1>8. CASE Find(r) \/ Load(r)
    BY <1>0, <1>8 DEF Find, Load
  <1>9. CASE Write(r) \/ Create(r)
    BY <1>0, <1>9 DEF Write, Create, Saved
  <1>10. CASE CreateConflict(r) \/ Reply(r) \/ Fail(r)
    BY <1>0, <1>10 DEF CreateConflict, Reply, Fail, InProgress
  <1> QED
    BY <1>1, <1>2, <1>3, <1>4, <1>5, <1>6, <1>7, <1>8, <1>9, <1>10
    DEF CalendarStep, CalendarArrive, CalendarHandlerStep

\* A step of the calendar keeps what is known of every query.
LEMMA CalendarKeeps ==
    ASSUME AInv, NEW r \in Requests, CalendarStep(r), UNCHANGED queryVars PROVE AInv'
  <1>0. /\ CalendarFrame(r) /\ Shape /\ Shape' /\ Aside(r) /\ QueryShape
    BY CalendarBesideQueries, OneMoves DEF AInv, IInv
  <1>1. IInv'
    BY Inductive DEF AInv, CalendarNext
  <1>2. QueryShape'
    BY <1>0 DEF QueryShape, queryVars, CalendarFrame, NothingSeen
  <1>3. ASSUME NEW q \in Requests PROVE ReadSoFar(q)' /\ Standing(q)' /\ BookingsSeen(q)'
    <2>0. ReadSoFar(q) /\ Standing(q) /\ BookingsSeen(q)
      BY DEF AInv
    <2>1. CASE q # r
      <3>1. /\ pc'[q] = pc[q] /\ job'[q] = job[q] /\ seen' = seen /\ open' = open
            /\ free' = free /\ bookedBefore' = bookedBefore /\ reservations' = reservations
            /\ stood'[q] \subseteq stood[q]
            /\ stood'[q] \subseteq holidays' \cup serviceHolidays'
            /\ stood'[q] \cap serviceHolidays \subseteq serviceHolidays'
        BY <1>0, <2>1 DEF Aside, CalendarFrame, StoodFollows, queryVars
      <3>2. ReadSoFar(q)'
        BY <2>0, <3>1 DEF ReadSoFar, Queries, ForTimes, TheDate, Asked
      <3>3. Standing(q)'
        BY <2>0, <3>1 DEF Standing, DatesOf
      <3>4. BookingsSeen(q)'
        BY <2>0, <3>1 DEF BookingsSeen
      <3> QED
        BY <3>2, <3>3, <3>4
    <2>2. CASE q = r
      <3>1. /\ open'[q] = {} /\ free'[q] = {} /\ pc'[q] \notin QueryPhases
            /\ seen' = seen /\ bookedBefore' = bookedBefore /\ reservations' = reservations
            /\ stood'[q] \subseteq holidays' \cup serviceHolidays'
        BY <1>0, <2>0, <2>2 DEF CalendarFrame, StoodFollows, ReadSoFar, queryVars
      <3>2. pc'[q] # "idle"
        BY <1>0, <2>2 DEF CalendarFrame
      <3> QED
        BY <2>0, <3>1, <3>2 DEF ReadSoFar, Standing, BookingsSeen, QueryPhases
    <2> QED
      BY <2>1, <2>2
  <1> QED
    BY <1>1, <1>2, <1>3 DEF AInv
-----------------------------------------------------------------------------
(* Steps of the queries. *)

QueryFrame(r) ==
    /\ UNCHANGED <<tables, todo, entity, dirty, today, reservations>>
    /\ \A q \in Requests \ {r} :
          /\ pc'[q] = pc[q] /\ answer'[q] = answer[q] /\ job'[q] = job[q]
          /\ stood'[q] = stood[q] /\ seen'[q] = seen[q] /\ open'[q] = open[q]
          /\ free'[q] = free[q] /\ bookedBefore'[q] = bookedBefore[q]
    /\ Shape' /\ QueryShape'
    /\ pc'[r] \in QueryPhases \cup {"answered"}
    /\ answer'[r] = "ok" => pc'[r] = "answered"
    /\ pc[r] = "idle" \/ (pc[r] \in QueryPhases /\ job'[r] = job[r])

\* The kinds of step a query makes, each with what it reads.
Asks(r) ==
    /\ pc[r] = "idle" /\ pc'[r] = "readSchedule" /\ Queries(r)'
    /\ stood'[r] = holidays \cup serviceHolidays
    /\ bookedBefore'[r] = reservations
    /\ UNCHANGED <<seen, open, free>>

Stays(r) == UNCHANGED <<job, stood, bookedBefore, reservations>>

Shuts(r) ==
    /\ pc[r] \in QueryPhases /\ pc'[r] = "answered"
    /\ Stays(r) /\ UNCHANGED <<seen, open, free>>

ReadsRules(r, from, to) ==
    /\ pc[r] = from /\ pc'[r] = to
    /\ seen'[r].closed = seen[r].closed
    /\ Stays(r) /\ UNCHANGED <<open, free>>

ReadsRows(r, from, rows, to) ==
    /\ pc[r] = from /\ pc'[r] = to
    /\ seen'[r].closed = seen[r].closed \cup DatesOf(rows)
    /\ ForTimes(r) => TheDate(r) \notin DatesOf(rows)
    /\ Stays(r) /\ UNCHANGED <<open, free>>

TellsDates(r) ==
    /\ pc[r] = "readSetting" /\ pc'[r] = "answered"
    /\ open'[r] \subseteq Asked(r) \ seen[r].closed
    /\ Stays(r) /\ UNCHANGED <<seen, free>>

TellsTimes(r) ==
    /\ pc[r] = "readBookings" /\ pc'[r] = "answered"
    /\ open'[r] = Asked(r)
    /\ job[r].type = "estimate" =>
          \A b \in reservations : b.date = TheDate(r) => b.time \notin free'[r]
    /\ Stays(r) /\ UNCHANGED seen

QueryMoves(r) ==
    \/ Asks(r)
    \/ Shuts(r)
    \/ ReadsRules(r, "readSchedule", "readHolidays")
    \/ ReadsRows(r, "readHolidays", holidays, "readServiceHolidays")
    \/ ReadsRows(r, "readServiceHolidays", serviceHolidays, "readSetting")
    \/ ReadsRules(r, "readSetting", "readBookings") /\ ForTimes(r)
    \/ TellsDates(r)
    \/ TellsTimes(r)

\* Every step of a query is of one of these kinds.
LEMMA QueryKinds ==
    ASSUME AInv, NEW r \in Requests, QueryStep(r) PROVE QueryFrame(r) /\ QueryMoves(r)
  <1> USE DEF Goto, Answer, Begin, SeeNow, closedTables, tables, QueryPhases, NothingSeen
  <1>0. Shape /\ QueryShape
    BY DEF AInv, IInv
  <1>a. answer[r] = "ok" => pc[r] = "answered"
    BY DEF AInv, IInv, Flow
  <1>1. ASSUME NEW h, NEW ds, NEW type, Ask(r, h, ds, type)
        PROVE  /\ QueryFrame(r)
               /\ job'[r] = [handler |-> h, dates |-> ds, type |-> type]
               /\ Queries(r)' => Asks(r)
    <2>1. Shape' /\ QueryShape'
      BY <1>0, <1>1 DEF Ask, Shape, QueryShape
    <2>2. /\ pc' = [pc EXCEPT ![r] = "readSchedule"] /\ pc[r] = "idle"
          /\ job' = [job EXCEPT ![r] = [handler |-> h, dates |-> ds, type |-> type]]
          /\ stood' = [stood EXCEPT ![r] = holidays \cup serviceHolidays]
          /\ bookedBefore' = [bookedBefore EXCEPT ![r] = reservations]
          /\ UNCHANGED <<tables, todo, entity, dirty, answer, today, reservations, seen, open, free>>
      BY <1>1 DEF Ask
    <2>3. answer[r] # "ok"
      BY <2>2 DEF AInv, IInv, Flow
    <2>4. QueryFrame(r)
      BY <1>0, <2>1, <2>2, <2>3 DEF QueryFrame, Shape, QueryShape
    <2> QED
      BY <1>0, <2>2, <2>4 DEF Asks, Shape, QueryShape
  <1>2. ASSUME NEW d \in Dates, NEW type \in Types, Ask(r, "times", {d}, type)
        PROVE  QueryFrame(r) /\ Asks(r)
    <2>1. job'[r] = [handler |-> "times", dates |-> {d}, type |-> type]
      BY <1>1, <1>2
    <2>2. Queries(r)'
      BY <2>1 DEF Queries
    <2> QED
      BY <1>1, <1>2, <2>2
  <1>3. ASSUME NEW type \in Types, Ask(r, "dates", Dates, type)
        PROVE  QueryFrame(r) /\ Asks(r)
    <2>1. job'[r] = [handler |-> "dates", dates |-> Dates, type |-> type]
      BY <1>1, <1>3
    <2>2. Queries(r)'
      BY <2>1 DEF Queries
    <2> QED
      BY <1>1, <1>3, <2>2
  <1>4. ASSUME pc[r] \in QueryPhases, Shut(r), UNCHANGED closedTables
        PROVE  QueryFrame(r) /\ Shuts(r)
    BY <1>0, <1>4 DEF Shut, QueryFrame, Shuts, Stays, Shape, QueryShape
  <1>5. CASE ReadSchedule(r)
    <2>1. CASE Shut(r)
      BY <1>4, <1>5, <2>1 DEF ReadSchedule, QueryMoves
    <2>2. CASE ~Shut(r)
      <3>1. QueryFrame(r)
        <4>1. Shape' /\ QueryShape'
          BY <1>0, <1>5, <2>2 DEF ReadSchedule, Shape, QueryShape
        <4> QED
          BY <1>0, <1>a, <1>5, <2>2, <4>1 DEF ReadSchedule, QueryFrame, Shape, QueryShape
      <3>2. ReadsRules(r, "readSchedule", "readHolidays")
        BY <1>0, <1>5, <2>2 DEF ReadSchedule, ReadsRules, Stays, Shape, QueryShape
      <3> QED
        BY <3>1, <3>2 DEF QueryMoves
    <2> QED
      BY <2>1, <2>2
  <1>6. ASSUME NEW from \in QueryPhases, NEW to \in QueryPhases, NEW rows,
               ReadRows(r, from, rows, to)
        PROVE  QueryFrame(r) /\ (Shuts(r) \/ ReadsRows(r, from, rows, to))
    <2>1. CASE Shut(r)
      BY <1>4, <1>6, <2>1 DEF ReadRows
    <2>2. CASE ~Shut(r)
      <3>1. QueryFrame(r)
        <4>1. Shape' /\ QueryShape'
          BY <1>0, <1>6, <2>2 DEF ReadRows, Shape, QueryShape
        <4> QED
          BY <1>0, <1>a, <1>6, <2>2, <4>1 DEF ReadRows, QueryFrame, Shape, QueryShape
      <3>2. ReadsRows(r, from, rows, to)
        BY <1>0, <1>6, <2>2 DEF ReadRows, ReadsRows, Stays, Shape, QueryShape
      <3> QED
        BY <3>1, <3>2
    <2> QED
      BY <2>1, <2>2
  <1>7. CASE ReadHolidays(r)
    BY <1>6, <1>7 DEF ReadHolidays, QueryMoves
  <1>8. CASE ReadServiceHolidays(r)
    BY <1>6, <1>8 DEF ReadServiceHolidays, QueryMoves
  <1>9. CASE ReadSetting(r)
    <2>1. CASE Shut(r)
      BY <1>4, <1>9, <2>1 DEF ReadSetting, QueryMoves
    <2>2. CASE ~Shut(r) /\ ForTimes(r)
      <3>1. QueryFrame(r)
        <4>1. Shape' /\ QueryShape'
          BY <1>0, <1>9, <2>2 DEF ReadSetting, Shape, QueryShape
        <4> QED
          BY <1>0, <1>a, <1>9, <2>2, <4>1 DEF ReadSetting, QueryFrame, Shape, QueryShape
      <3>2. ReadsRules(r, "readSetting", "readBookings")
        BY <1>0, <1>9, <2>2 DEF ReadSetting, ReadsRules, Stays, Shape, QueryShape
      <3> QED
        BY <2>2, <3>1, <3>2 DEF QueryMoves
    <2>3. CASE ~ForTimes(r)
      <3>1. QueryFrame(r)
        BY <1>0, <1>9, <2>3 DEF ReadSetting, QueryFrame, Shape, QueryShape
      <3>2. TellsDates(r)
        BY <1>0, <1>9, <2>3 DEF ReadSetting, TellsDates, Stays, Shape, QueryShape, Bookable
      <3> QED
        BY <3>1, <3>2 DEF QueryMoves
    <2> QED
      BY <2>1, <2>2, <2>3
  <1>10. CASE ReadBookings(r)
    <2>1. QueryFrame(r)
      BY <1>0, <1>10 DEF ReadBookings, QueryFrame, Shape, QueryShape
    <2>2. TellsTimes(r)
      BY <1>0, <1>10 DEF ReadBookings, TellsTimes, Stays, Shape, QueryShape, Booked
    <2> QED
      BY <2>1, <2>2 DEF QueryMoves
  <1> QED
    BY <1>2, <1>3, <1>5, <1>7, <1>8, <1>9, <1>10 DEF QueryStep, QueryMoves

\* A request that has come with a query stays one.
LEMMA StaysAQuery ==
    ASSUME AInv, NEW r \in Requests, QueryFrame(r), QueryMoves(r)
    PROVE  Queries(r)' /\ job'[r].handler \in {"times", "dates"}
  <1>1. Queries(r)'
    <2>1. CASE Asks(r)
      BY <2>1 DEF Asks
    <2>2. CASE ~Asks(r)
      <3>1. pc[r] \in QueryPhases /\ job'[r] = job[r]
        BY <2>2 DEF QueryMoves, QueryFrame, QueryPhases, Shuts, ReadsRules, ReadsRows,
                    TellsDates, TellsTimes
      <3>2. Queries(r)
        BY <3>1 DEF AInv, ReadSoFar
      <3> QED
        BY <3>1, <3>2 DEF Queries
    <2> QED
      BY <2>1, <2>2
  <1>2. CASE \E d \in Dates, type \in Types :
                job'[r] = [handler |-> "times", dates |-> {d}, type |-> type]
    BY <1>1, <1>2
  <1>3. CASE \E type \in Types :
                job'[r] = [handler |-> "dates", dates |-> Dates, type |-> type]
    BY <1>1, <1>3
  <1> QED
    BY <1>1, <1>2, <1>3 DEF Queries

\* The calendar's own invariant is not disturbed by a query.
LEMMA CalendarUndisturbed ==
    ASSUME AInv, NEW r \in Requests, QueryFrame(r), QueryMoves(r) PROVE IInv'
  <1>0. /\ CalendarTypeOK /\ Shape /\ Shape' /\ HolidayInv /\ UNCHANGED tables
        /\ \A q \in Requests : Flow(q)
    BY DEF AInv, IInv, QueryFrame
  <1>1. CalendarTypeOK'
    BY <1>0 DEF CalendarTypeOK, tables
  <1>2. Aside(r)
    BY <1>0 DEF QueryFrame, Aside, tables
  <1>3. ASSUME NEW q \in Requests PROVE Flow(q)'
    <2>1. CASE q # r
      BY <1>0, <1>2, <2>1 DEF Aside, Flow, Saving, Key, FormsLeft, tables
    <2>2. CASE q = r
      BY <2>2 DEF QueryFrame, QueryPhases, Flow, Saving
    <2> QED
      BY <2>1, <2>2
  <1>4. Passes(r)
    <2>1. PastInsert(r)' /\ pc'[r] # "remove"
      BY DEF QueryFrame, QueryPhases, PastInsert
    <2>2. ~HasDeleted(r)' /\ ~HasAdded(r)'
      BY StaysAQuery DEF HasDeleted, HasAdded
    <2>3. job[r].handler # "deleteHoliday"
      <3>1. CASE pc[r] = "idle"
        BY <1>0, <3>1 DEF Flow
      <3>2. CASE pc[r] # "idle"
        BY <3>2, StaysAQuery DEF QueryFrame
      <3> QED
        BY <3>1, <3>2
    <2> QED
      BY <1>0, <2>1, <2>2, <2>3 DEF Passes, tables
  <1>5. HolidayInv'
    BY <1>0, <1>2, <1>4, HolidaysKept DEF Moves
  <1> QED
    BY <1>0, <1>1, <1>3, <1>5 DEF IInv

\* The date of a query of times.
LEMMA OneDate ==
    ASSUME NEW r, Queries(r), ForTimes(r)
    PROVE  Asked(r) = {TheDate(r)}
  <1>0. ASSUME NEW type, job[r] = [handler |-> "dates", dates |-> Dates, type |-> type]
        PROVE  FALSE
    BY <1>0 DEF ForTimes
  <1>1. PICK d \in Dates, type \in Types :
            job[r] = [handler |-> "times", dates |-> {d}, type |-> type]
    BY <1>0 DEF Queries
  <1> QED
    BY <1>1 DEF Asked, TheDate

\* A step of a query keeps what is known of every query.
LEMMA QueryKeeps ==
    ASSUME AInv, NEW r \in Requests, QueryStep(r) PROVE AInv'
  <1>0. QueryFrame(r) /\ QueryMoves(r)
    BY QueryKinds
  <1>1. IInv' /\ QueryShape'
    BY <1>0, CalendarUndisturbed DEF QueryFrame
  <1>2. ASSUME NEW q \in Requests, q # r PROVE ReadSoFar(q)' /\ Standing(q)' /\ BookingsSeen(q)'
    <2>1. ReadSoFar(q) /\ Standing(q) /\ BookingsSeen(q)
      BY DEF AInv
    <2>2. /\ pc'[q] = pc[q] /\ job'[q] = job[q] /\ stood'[q] = stood[q] /\ seen'[q] = seen[q]
          /\ open'[q] = open[q] /\ free'[q] = free[q] /\ bookedBefore'[q] = bookedBefore[q]
          /\ UNCHANGED <<holidays, serviceHolidays, reservations>>
      BY <1>0, <1>2 DEF QueryFrame, tables
    <2> QED
      BY <2>1, <2>2 DEF ReadSoFar, Standing, BookingsSeen, DatesOf, Queries, ForTimes, TheDate,
                        Asked
  <1>3. ReadSoFar(r)' /\ Standing(r)' /\ BookingsSeen(r)'
    <2> USE DEF QueryPhases
    <2>0. /\ ReadSoFar(r) /\ Standing(r) /\ BookingsSeen(r) /\ Queries(r)'
          /\ UNCHANGED <<holidays, serviceHolidays, reservations>>
      BY <1>0, StaysAQuery DEF AInv, QueryFrame, tables
    <2>1. CASE Asks(r)
      BY <2>0, <2>1 DEF Asks, ReadSoFar, Standing, BookingsSeen, DatesOf
    <2>2. ASSUME Stays(r), pc[r] \in QueryPhases
          PROVE  /\ Queries(r) /\ Asked(r)' = Asked(r) /\ TheDate(r)' = TheDate(r)
                 /\ ForTimes(r)' = ForTimes(r) /\ DatesOf(stood[r])' = DatesOf(stood[r])
      BY <2>0, <2>2 DEF Stays, ReadSoFar, Asked, TheDate, ForTimes, DatesOf
    <2>3. CASE Shuts(r)
      BY <2>0, <2>2, <2>3 DEF Shuts, Stays, ReadSoFar, Standing, BookingsSeen
    <2>4. ASSUME NEW from \in QueryPhases, NEW to \in QueryPhases, ReadsRules(r, from, to),
                 \/ from = "readSchedule" /\ to = "readHolidays"
                 \/ from = "readSetting" /\ to = "readBookings" /\ ForTimes(r)
          PROVE  ReadSoFar(r)' /\ Standing(r)' /\ BookingsSeen(r)'
      BY <2>0, <2>2, <2>4 DEF ReadsRules, Stays, ReadSoFar, Standing, BookingsSeen
    <2>5. CASE ReadsRows(r, "readHolidays", holidays, "readServiceHolidays")
      <3>1. \A h \in stood[r] \ serviceHolidays : h.date \in DatesOf(holidays)
        BY <2>0 DEF Standing, DatesOf
      <3> QED
        BY <2>0, <2>2, <2>5, <3>1 DEF ReadsRows, Stays, ReadSoFar, Standing, BookingsSeen
    <2>6. CASE ReadsRows(r, "readServiceHolidays", serviceHolidays, "readSetting")
      <3>1. \A h \in stood[r] : h.date \in seen[r].closed \cup DatesOf(serviceHolidays)
        BY <2>0, <2>6 DEF Standing, DatesOf, ReadsRows
      <3>2. DatesOf(stood[r]) \subseteq seen'[r].closed
        BY <2>6, <3>1 DEF DatesOf, ReadsRows
      <3> QED
        BY <2>0, <2>2, <2>6, <3>2 DEF ReadsRows, Stays, ReadSoFar, Standing, BookingsSeen
    <2>7. CASE TellsDates(r)
      BY <2>0, <2>2, <2>7 DEF TellsDates, Stays, ReadSoFar, Standing, BookingsSeen
    <2>8. CASE TellsTimes(r)
      <3>1. Asked(r) = {TheDate(r)} /\ TheDate(r) \notin seen[r].closed
        BY <2>0, <2>2, <2>8, OneDate DEF TellsTimes, ReadSoFar
      <3> QED
        BY <2>0, <2>2, <2>8, <3>1 DEF TellsTimes, Stays, ReadSoFar, Standing, BookingsSeen
    <2> QED
      BY <1>0, <2>1, <2>3, <2>4, <2>5, <2>6, <2>7, <2>8 DEF QueryMoves
  <1> QED
    BY <1>1, <1>2, <1>3 DEF AInv

\* Bookings and midnight only add to what has stood, and move the clock.
LEMMA OutsideKeeps ==
    ASSUME AInv, (\E d \in Dates, t \in Times : Book(d, t)) \/ Midnight PROVE AInv'
  <1>1. /\ UNCHANGED <<calendarVars, seen, open, free, bookedBefore>>
        /\ reservations \subseteq reservations' /\ (today' = today \/ today' = today + 1)
    BY DEF Book, Midnight
  <1>2. IInv'
    BY <1>1, Inductive DEF AInv
  <1>3. QueryShape'
    BY <1>1 DEF AInv, QueryShape, calendarVars
  <1>4. ASSUME NEW q \in Requests PROVE ReadSoFar(q)' /\ Standing(q)' /\ BookingsSeen(q)'
    BY <1>1 DEF AInv, ReadSoFar, Standing, BookingsSeen, DatesOf, Queries, ForTimes, TheDate,
                Asked, calendarVars, tables
  <1> QED
    BY <1>2, <1>3, <1>4 DEF AInv

LEMMA AvailabilityInductive == AInv /\ [Next]_vars => AInv'
  <1> SUFFICES ASSUME AInv, [Next]_vars PROVE AInv'
    OBVIOUS
  <1>1. CASE UNCHANGED vars
    <2>1. IInv'
      BY <1>1, Inductive DEF AInv, vars
    <2> QED
      BY <1>1, <2>1 DEF vars, queryVars, calendarVars, tables, AInv, QueryShape, ReadSoFar,
                        Standing, BookingsSeen, DatesOf, Queries, ForTimes, TheDate, Asked
  <1> QED
    BY <1>1, CalendarKeeps, QueryKeeps, OutsideKeeps DEF Next

\* It holds in every behaviour.
LEMMA AvailabilityAlways == Spec => []AInv
  BY AvailabilityInitially, AvailabilityInductive, PTL DEF Spec

\* A query is answered with dates it asked about, and times only on an open one
\* (reservations.service.ts:241-440, 561-709).
THEOREM AvailabilityTypeCorrect == Spec => []TypeOK
  <1>1. AInv => TypeOK
    BY DEF AInv, IInv, ReadSoFar, TypeOK
  <1> QED
    BY <1>1, AvailabilityAlways, PTL

\* A holiday that stood while a query ran is not overlooked, and a time booked before
\* it came is not offered, whatever changes between its five reads
\* (reservations.service.ts:268-297, 411-430).
THEOREM StandingIsAlwaysSeen == Spec => []StandingIsSeen
  <1>1. AInv => StandingIsSeen
    BY DEF AInv, Standing, BookingsSeen, StandingIsSeen
  <1> QED
    BY <1>1, AvailabilityAlways, PTL
-----------------------------------------------------------------------------
(* The rules: what the two queries compute from typed rows. *)

\* The two ways to the days of a type agree on every schedule and setting.
LEMMA SameDays ==
    ASSUME NEW schedule, NEW setting, NEW type
    PROVE  TimesConfig(schedule, setting, type).days = DatesDays(schedule, setting, type)
  <1>1. CASE Follows(schedule, type)
    BY <1>1 DEF TimesConfig, DatesDays
  <1>2. CASE ~Follows(schedule, type)
    <2>1. TimesConfig(schedule, setting, type).days =
             TimesDays(Own(schedule, type).mode, Own(schedule, type).days,
                       Base(setting, type).days)
      BY <1>2 DEF TimesConfig
    <2> DEFINE mode == Own(schedule, type).mode
               days == Own(schedule, type).days
               base == Base(setting, type).days
    <2>2. DatesDays(schedule, setting, type) = TimesDays(mode, days, base)
      <3>1. DatesDays(schedule, setting, type) =
               CASE mode = "weekdays"        -> Weekdays
                 [] mode = "weekends"        -> {Saturday, Sunday}
                 [] mode = "everyday"        -> Days
                 [] mode = "custom"          -> Or(days, base)
                 [] mode = "everyday_except" -> Days \ Or(days, {})
        BY <1>2 DEF DatesDays
      <3> HIDE DEF mode, days, base
      <3> QED
        BY <3>1 DEF TimesDays
    <2> QED
      BY <2>1, <2>2
  <1> QED
    BY <1>1, <1>2

\* The table's rows are typed.
LEMMA RowsAreTyped ==
    ASSUME CalendarTypeOK, NEW k \in Keys, Row(k) # Null
    PROVE  IsRow(k, Row(k))
  BY DEF CalendarTypeOK, Row

\* On every typed calendar the month view and the day view open the same dates.
LEMMA QueriesAgreeWhenTyped == CalendarTypeOK /\ today \in Nat => QueriesAgree
  <1> SUFFICES ASSUME CalendarTypeOK, today \in Nat, NEW type \in Types, NEW date \in Dates,
                      date >= today, Row("schedule") # Null \/ date <= today + DefaultPeriod,
                      NEW closed
               PROVE  TimesOpen(date, today, closed, Row("schedule"), Row(type), type)
                        <=> DatesOpen(date, today, closed, Row("schedule"), Row(type), type)
    BY DEF QueriesAgree
  <1> DEFINE s == Row("schedule")
             days == DatesDays(s, Row(type), type)
  <1>1. TimesOpen(date, today, closed, s, Row(type), type)
          <=> ~TimesBeyond(s, date, today) /\ date \notin closed /\ DayOf(date) \in days
    BY SameDays DEF TimesOpen, Operates
  <1>2. DatesOpen(date, today, closed, s, Row(type), type)
          <=> date <= MaxDate(s, today) /\ date \notin closed /\ DayOf(date) \in days
    BY DEF DatesOpen, Bookable
  <1>3. ~TimesBeyond(s, date, today) <=> date <= MaxDate(s, today)
    <2>1. date \in Nat
      BY DaysAreCounted
    <2>2. CASE s = Null
      BY <2>1, <2>2 DEF TimesBeyond, MaxDate
    <2>3. CASE s # Null
      <3>1. IsRow("schedule", s)
        BY <2>3, RowsAreTyped DEF Keys
      <3>2. s.bookingPeriodMonths \in Nat
        BY <3>1 DEF IsRow, Filled, Columns, ScheduleColumns, ColumnValues, ModeColumns,
                    DaysColumns, TimeColumns, SlotColumns
      <3> HIDE DEF s
      <3> QED
        BY <2>1, <2>3, <3>2 DEF TimesBeyond, MaxDate
    <2> QED
      BY <2>2, <2>3
  <1> QED
    BY <1>1, <1>2, <1>3

\* The month view and the day view open the same dates, on every calendar the handlers
\* can produce (reservations.service.ts:252-297, 354-402, 570-701).
THEOREM QueriesAlwaysAgree == Spec => []QueriesAgree
  <1>1. AInv => QueriesAgree
    BY QueriesAgreeWhenTyped DEF AInv, IInv, QueryShape
  <1> QED
    BY <1>1, AvailabilityAlways, PTL
-----------------------------------------------------------------------------
(* generateTimeSlots. *)

\* A set of numbers has a least one.
LEMMA LeastNumber ==
    ASSUME NEW S \in SUBSET Nat, S # {}
    PROVE  \E m \in S : \A n \in S : m <= n
  <1> DEFINE Less == {ss \in Nat \X Nat : ss[1] < ss[2]}
  <1>1. IsWellFoundedOn(Less, Nat)
    BY NatLessThanWellFounded DEF OpToRel
  <1>2. ASSUME NEW m \in Nat, NEW n \in Nat, n < m PROVE <<n, m>> \in Less
    BY <1>2
  <1> HIDE DEF Less
  <1>3. PICK m \in S : \A n \in S : ~(<<n, m>> \in Less)
    BY <1>1, WFMin
  <1>4. ASSUME NEW n \in S PROVE ~(n < m)
    BY <1>2, <1>3
  <1> QED
    BY <1>4

\* The times from t on that a loop with this step visits before the end.
Visits(t, step, end) == {u \in Nat : u < end /\ \E k \in Nat : u = t + k * step}

\* One turn of the loop.
LEMMA OneTurn ==
    ASSUME NEW end \in Nat, NEW step \in Nat \ {0}, NEW t \in Nat
    PROVE  Visits(t, step, end) =
              IF t < end THEN {t} \cup Visits(t + step, step, end) ELSE {}
  <1>1. ASSUME NEW u \in Visits(t, step, end), u # t PROVE u \in Visits(t + step, step, end)
    <2>1. PICK k \in Nat : u = t + k * step
      BY <1>1 DEF Visits
    <2>2. k - 1 \in Nat
      BY <1>1, <2>1
    <2>3. k * step = step + (k - 1) * step
      BY <2>2
    <2> QED
      BY <1>1, <2>1, <2>2, <2>3 DEF Visits
  <1>2. ASSUME NEW u \in Visits(t + step, step, end) PROVE u \in Visits(t, step, end)
    <2>1. PICK k \in Nat : u = (t + step) + k * step
      BY <1>2 DEF Visits
    <2>2. (k + 1) * step = step + k * step
      BY <2>1
    <2>3. u = t + (k + 1) * step
      BY <2>1, <2>2
    <2> QED
      BY <1>2, <2>3 DEF Visits
  <1>3. t < end => t \in Visits(t, step, end)
    <2>1. t = t + 0 * step
      OBVIOUS
    <2> QED
      BY <2>1 DEF Visits
  <1>4. ASSUME NEW u \in Visits(t, step, end) PROVE t <= u /\ t < end
    <2>1. PICK k \in Nat : u = t + k * step
      BY <1>4 DEF Visits
    <2>2. k * step \in Nat
      BY <2>1
    <2> QED
      BY <1>4, <2>1, <2>2 DEF Visits
  <1> QED
    BY <1>1, <1>2, <1>3, <1>4

\* The loop of generateTimeSlots terminates with the times it visits: a first time
\* before closing at which it went wrong would be followed by another.
LEMMA SlotsAreVisited ==
    ASSUME NEW c, c.end \in Nat, c.slot \in Nat \ {0}, c.start \in Nat
    PROVE  SlotsOf(c) = Visits(c.start, c.slot, c.end)
  <1> DEFINE Loops(g) ==
               g = [t \in Nat |-> IF t < c.end THEN {t} \cup g[t + c.slot] ELSE {}]
             from == CHOOSE g : Loops(g)
             visits == [t \in Nat |-> Visits(t, c.slot, c.end)]
  <1>1. \A t \in Nat : t + c.slot \in Nat
    OBVIOUS
  <1>2. Loops(visits)
    <2>1. ASSUME NEW t \in Nat
          PROVE  Visits(t, c.slot, c.end) =
                    IF t < c.end THEN {t} \cup visits[t + c.slot] ELSE {}
      <3>1. visits[t + c.slot] = Visits(t + c.slot, c.slot, c.end)
        BY <1>1
      <3> QED
        BY <3>1, OneTurn
    <2> QED
      BY <2>1
  <1>3. Loops(from)
    <2> HIDE DEF Loops
    <2> QED
      BY <1>2
  <1>4. SlotsOf(c) = from[c.start]
    BY DEF SlotsOf
  <1> HIDE DEF from
  <1>5. \A t \in Nat : from[t] = IF t < c.end THEN {t} \cup from[t + c.slot] ELSE {}
    BY <1>3
  <1>6. \A t \in Nat : from[t] = Visits(t, c.slot, c.end)
    <2> DEFINE Wrong == {d \in Nat : \E t \in Nat :
                            t + d = c.end /\ from[t] # Visits(t, c.slot, c.end)}
    <2>1. CASE Wrong = {}
      <3>1. ASSUME NEW t \in Nat, t < c.end PROVE from[t] = Visits(t, c.slot, c.end)
        <4>1. c.end - t \in Nat /\ t + (c.end - t) = c.end
          BY <3>1
        <4> QED
          BY <2>1, <4>1
      <3>2. ASSUME NEW t \in Nat, ~(t < c.end) PROVE from[t] = Visits(t, c.slot, c.end)
        BY <1>5, <3>2, OneTurn
      <3> QED
        BY <3>1, <3>2
    <2>2. CASE Wrong # {}
      <3>1. PICK d \in Wrong : \A e \in Wrong : d <= e
        BY <2>2, LeastNumber
      <3>2. PICK t \in Nat : t + d = c.end /\ from[t] # Visits(t, c.slot, c.end)
        BY <3>1
      <3>3. t < c.end
        BY <1>5, <3>2, OneTurn
      <3>4. from[t + c.slot] # Visits(t + c.slot, c.slot, c.end)
        <4>1. from[t] = {t} \cup from[t + c.slot]
          BY <1>5, <3>3
        <4>2. Visits(t, c.slot, c.end) = {t} \cup Visits(t + c.slot, c.slot, c.end)
          BY <3>3, OneTurn
        <4> QED
          BY <3>2, <4>1, <4>2
      <3>5. t + c.slot < c.end
        BY <1>1, <1>5, <3>4, OneTurn
      <3>6. d - c.slot \in Wrong
        BY <3>2, <3>4, <3>5
      <3> QED
        BY <3>1, <3>2, <3>6
    <2> QED
      BY <2>1, <2>2
  <1> QED
    BY <1>4, <1>6

\* The times a loop visits tile the interval.
LEMMA VisitsTile ==
    ASSUME NEW c, c.start \in Nat, c.slot \in Nat \ {0}, c.end \in Nat
    PROVE  Tile(Visits(c.start, c.slot, c.end), c)
  <1> DEFINE slots == Visits(c.start, c.slot, c.end)
  <1>1. ASSUME NEW t \in slots PROVE t \in Nat /\ t >= c.start /\ t < c.end
    <2>1. PICK k \in Nat : t = c.start + k * c.slot
      BY DEF Visits
    <2>2. k * c.slot \in Nat
      OBVIOUS
    <2> QED
      BY <2>1, <2>2 DEF Visits
  <1>2. slots # {} => c.start < c.end
    BY <1>1
  <1>3. slots # {} => c.start \in slots
    BY <1>2, OneTurn
  <1>4. ASSUME NEW t \in slots PROVE t + c.slot \in slots \/ t + c.slot >= c.end
    <2>1. PICK k \in Nat : t = c.start + k * c.slot
      BY DEF Visits
    <2>2. (k + 1) * c.slot = c.slot + k * c.slot
      OBVIOUS
    <2>3. t + c.slot = c.start + (k + 1) * c.slot
      BY <2>1, <2>2
    <2>4. t + c.slot \in Nat /\ k + 1 \in Nat
      BY <1>1
    <2>5. ASSUME t + c.slot < c.end PROVE t + c.slot \in slots
      BY <2>3, <2>4, <2>5 DEF Visits
    <2> QED
      BY <2>4, <2>5
  <1>5. ASSUME NEW t \in slots, NEW u \in slots, t < u PROVE t + c.slot <= u
    <2>1. PICK k \in Nat : t = c.start + k * c.slot
      BY DEF Visits
    <2>2. PICK j \in Nat : u = c.start + j * c.slot
      BY DEF Visits
    <2>3. CASE j <= k
      <3>1. k - j \in Nat /\ k * c.slot = j * c.slot + (k - j) * c.slot
        BY <2>3
      <3>2. (k - j) * c.slot \in Nat
        BY <3>1
      <3> QED
        BY <1>5, <2>1, <2>2, <3>1, <3>2
    <2>4. CASE k < j
      <3>1. /\ j - (k + 1) \in Nat
            /\ j * c.slot = (k * c.slot + c.slot) + (j - (k + 1)) * c.slot
        BY <2>4
      <3>2. (j - (k + 1)) * c.slot \in Nat
        BY <3>1
      <3> QED
        BY <2>1, <2>2, <3>1, <3>2
    <2> QED
      BY <2>3, <2>4
  <1>6. Tile(slots, c)
    <2> HIDE DEF slots
    <2> QED
      BY <1>1, <1>2, <1>3, <1>4, <1>5 DEF Tile
  <1> QED
    BY <1>6

\* Hours and length of slots are numbers, wherever they come from.
LEMMA HoursAreTyped ==
    ASSUME CalendarTypeOK, NEW type \in Types
    PROVE  LET c == TimesConfig(Row("schedule"), Row(type), type)
           IN  c.start \in Nat /\ c.end \in Nat /\ c.slot \in Nat \ {0}
  <1> DEFINE s == Row("schedule")
             base == Base(Row(type), type)
             own == Own(s, type)
  <1> USE DEF Columns, ColumnValues, ModeColumns, DaysColumns, TimeColumns, SlotColumns
  <1>1. base.start \in Nat /\ base.end \in Nat /\ base.slot \in Nat \ {0}
    <2>1. CASE Row(type) = Null
      BY <2>1 DEF Base, Or, DefaultSetting
    <2>2. CASE Row(type) # Null
      <3>1. IsRow(type, Row(type)) /\ type # "schedule"
        BY <2>2, RowsAreTyped DEF Keys, Types
      <3> QED
        BY <2>2, <3>1 DEF Base, Or, IsRow, Filled, SettingColumns
    <2> QED
      BY <2>1, <2>2
  <1>2. CASE Follows(s, type)
    BY <1>1, <1>2 DEF TimesConfig
  <1>3. CASE ~Follows(s, type)
    <2>1. IsRow("schedule", s)
      BY <1>3, RowsAreTyped DEF Keys, Follows
    <2>2. /\ own.start \in {Null} \cup Nat /\ own.end \in {Null} \cup Nat
          /\ own.slot \in {Null} \cup (Nat \ {0})
      <3> HIDE DEF s
      <3> QED
        BY <2>1 DEF Own, IsRow, Filled, ScheduleColumns
    <2>3. TimesConfig(s, Row(type), type) =
             [days  |-> TimesDays(own.mode, own.days, base.days),
              start |-> Or(own.start, base.start),
              end   |-> Or(own.end, base.end),
              slot  |-> Or(own.slot, base.slot)]
      BY <1>3 DEF TimesConfig
    <2> HIDE DEF s, base, own
    <2> QED
      BY <1>1, <2>2, <2>3 DEF Or, s
  <1> QED
    BY <1>2, <1>3

\* The slots offered tile the hours of every calendar the handlers can produce
\* (reservations.service.ts:445-460).
THEOREM SlotsAlwaysTile == Spec => []SlotsTile
  <1>1. ASSUME CalendarTypeOK PROVE SlotsTile
    <2> DEFINE Config(type) == TimesConfig(Row("schedule"), Row(type), type)
    <2>1. ASSUME NEW type \in Types PROVE Tile(SlotsOf(Config(type)), Config(type))
      <3> DEFINE c == Config(type)
      <3>1. c.start \in Nat /\ c.end \in Nat /\ c.slot \in Nat \ {0}
        BY <1>1, HoursAreTyped
      <3> HIDE DEF Config
      <3> QED
        BY <3>1, SlotsAreVisited, VisitsTile
    <2> QED
      BY <2>1 DEF SlotsTile
  <1>2. AInv => SlotsTile
    BY <1>1 DEF AInv, IInv
  <1> QED
    BY <1>2, AvailabilityAlways, PTL
=============================================================================
