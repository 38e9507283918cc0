----------------------------- MODULE OpeningRules -----------------------------
(***************************************************************************)
(* When a service can be booked: the rules that getAvailableTimes and      *)
(* getAvailableDates of ReservationsService compute from what they read.   *)
(* The two methods are written separately, and so are their rules here.    *)
(*                                                                         *)
(* A date is a day number, a time is in minutes, and a booking period is   *)
(* counted in dates.                                                       *)
(***************************************************************************)
EXTENDS Naturals

CONSTANTS
    DefaultPeriod,  \* of a service without a schedule, in getAvailableDates
    Null

ASSUME PeriodIsPositive == DefaultPeriod \in Nat \ {0}

Types == {"estimate", "construction"}
Modes == {"global", "weekdays", "weekends", "everyday", "custom", "everyday_except"}

Sunday == 0
Saturday == 6
Days == Sunday .. Saturday
Weekdays == 1 .. 5

DayOf(date) == date % 7

\* The settings used when the table has none.
DefaultSetting(type) ==
    IF type = "estimate"
    THEN [days |-> Weekdays, start |-> 18 * 60, end |-> 22 * 60, slot |-> 60]
    ELSE [days |-> Weekdays \cup {Saturday}, start |-> 9 * 60, end |-> 18 * 60, slot |-> 60]

\* ServiceSchedule: a column of each kind for either type, and one for both.
ModeColumns == {"estimateScheduleMode", "constructionScheduleMode"}
DaysColumns == {"estimateAvailableDays", "constructionAvailableDays"}
TimeColumns == {"estimateStartTime", "estimateEndTime", "constructionStartTime",
                "constructionEndTime"}
SlotColumns == {"estimateSlotDuration", "constructionSlotDuration"}
ScheduleColumns ==
    ModeColumns \cup DaysColumns \cup TimeColumns \cup SlotColumns \cup {"bookingPeriodMonths"}

SettingColumns == {"days", "start", "end", "slot"}

\* The columns of a setting ("estimate" or "construction") or of the schedule.
Columns(k) == IF k = "schedule" THEN ScheduleColumns ELSE SettingColumns

\* What the entities' column types and the validation of the bodies let into a
\* column: a schedule leaves unset what the general settings decide.  A length of
\* slots is never zero.
ColumnValues(column) ==
    CASE column \in ModeColumns                        -> Modes
      [] column \in DaysColumns                        -> {Null} \cup SUBSET Days
      [] column \in TimeColumns                        -> {Null} \cup Nat
      [] column \in SlotColumns                        -> {Null} \cup (Nat \ {0})
      [] column = "days"                               -> SUBSET Days
      [] column \in {"start", "end"}                   -> Nat
      [] column \in {"slot", "bookingPeriodMonths"}    -> Nat \ {0}

Filled(row) == \A c \in DOMAIN row : row[c] \in ColumnValues(c)

IsRow(k, row) == DOMAIN row = Columns(k) /\ Filled(row)

\* A body names both modes, or the days and hours of a type.
Required(k) == IF k = "schedule" THEN ModeColumns ELSE {"days", "start", "end"}

IsForm(k, form) ==
    Required(k) \subseteq DOMAIN form /\ DOMAIN form \subseteq Columns(k) /\ Filled(form)

\* The columns of one type.
Own(schedule, type) ==
    IF type = "estimate"
    THEN [mode  |-> schedule.estimateScheduleMode,
          days  |-> schedule.estimateAvailableDays,
          start |-> schedule.estimateStartTime,
          end   |-> schedule.estimateEndTime,
          slot  |-> schedule.estimateSlotDuration]
    ELSE [mode  |-> schedule.constructionScheduleMode,
          days  |-> schedule.constructionAvailableDays,
          start |-> schedule.constructionStartTime,
          end   |-> schedule.constructionEndTime,
          slot  |-> schedule.constructionSlotDuration]

\* The operator || on a column that is null when unset.
Or(value, default) == IF value # Null THEN value ELSE default

Base(setting, type) == Or(setting, DefaultSetting(type))

\* The service goes by the general settings.
Follows(schedule, type) == schedule = Null \/ Own(schedule, type).mode = "global"
-----------------------------------------------------------------------------
(* getAvailableTimes *)

TimesBeyond(schedule, date, today) ==
    schedule # Null /\ date > today + schedule.bookingPeriodMonths

\* Mutation: the days listed are the ones left out in either mode.
TimesDays_CustomExcludes(mode, own, base) ==
    CASE mode = "weekdays"        -> Weekdays
      [] mode = "weekends"        -> {Saturday, Sunday}
      [] mode = "everyday"        -> Days
      [] mode = "custom"          -> IF own = Null THEN base ELSE Days \ own
      [] mode = "everyday_except" -> Days \ Or(own, {})

TimesDays(mode, own, base) ==
    CASE mode = "weekdays"        -> Weekdays
      [] mode = "weekends"        -> {Saturday, Sunday}
      [] mode = "everyday"        -> Days
      [] mode = "custom"          -> Or(own, base)
      [] mode = "everyday_except" -> Days \ Or(own, {})

TimesConfig(schedule, setting, type) ==
    LET base == Base(setting, type)
        own  == Own(schedule, type)
    IN  IF Follows(schedule, type)
        THEN base
        ELSE [days  |-> TimesDays(own.mode, own.days, base.days),
              start |-> Or(own.start, base.start),
              end   |-> Or(own.end, base.end),
              slot  |-> Or(own.slot, base.slot)]

Operates(config, date) == DayOf(date) \in config.days

\* Mutation: a slot may start at closing time.
SlotsOf_AtClosing(config) ==
    LET from[t \in Nat] == IF t <= config.end THEN {t} \cup from[t + config.slot] ELSE {}
    IN  from[config.start]

\* generateTimeSlots: the while loop.
SlotsOf(config) ==
    LET from[t \in Nat] == IF t < config.end THEN {t} \cup from[t + config.slot] ELSE {}
    IN  from[config.start]
-----------------------------------------------------------------------------
(* getAvailableDates *)

DatesDays(schedule, setting, type) ==
    LET base == Base(setting, type).days
        mode == Own(schedule, type).mode
        own  == Own(schedule, type).days
    IN  IF Follows(schedule, type)
        THEN base
        ELSE CASE mode = "weekdays"        -> Weekdays
               [] mode = "weekends"        -> {Saturday, Sunday}
               [] mode = "everyday"        -> Days
               [] mode = "custom"          -> Or(own, base)
               [] mode = "everyday_except" -> Days \ Or(own, {})

MaxDate(schedule, today) ==
    today + (IF schedule = Null THEN DefaultPeriod ELSE schedule.bookingPeriodMonths)

Bookable(date, today, maxDate, closed, days) ==
    /\ date >= today
    /\ date <= maxDate
    /\ date \notin closed
    /\ DayOf(date) \in days
-----------------------------------------------------------------------------
(* What each query says of one date, read all at once. *)

TimesOpen(date, today, closed, schedule, setting, type) ==
    /\ ~TimesBeyond(schedule, date, today)
    /\ date \notin closed
    /\ Operates(TimesConfig(schedule, setting, type), date)

DatesOpen(date, today, closed, schedule, setting, type) ==
    Bookable(date, today, MaxDate(schedule, today), closed,
             DatesDays(schedule, setting, type))
=============================================================================
