---------------------------- MODULE MCAvailability ----------------------------
(* A finite instance of Availability for TLC. *)
EXTENDS Availability, TLC

CONSTANTS r1, r2

MCRequests == {r1, r2}
Symmetry == Permutations(Requests)

\* Dates 5 and 6 are a Friday and a Saturday.
Friday == 5
MCDates == {Friday, Friday + 1}
MCFriday == {Friday}
MCTimes == {18 * 60}

\* The last slot of these hours ends after closing.
MCHoursForms ==
    {[estimate     |-> [days |-> {Saturday}, start |-> 18 * 60, end |-> 19 * 60 + 30],
      construction |-> [days |-> Weekdays, start |-> 9 * 60, end |-> 9 * 60]]}

Schedule(mode, days) ==
    [c \in ScheduleColumns |->
        CASE c = "estimateScheduleMode"     -> mode
          [] c = "constructionScheduleMode" -> "everyday"
          [] c = "estimateAvailableDays"    -> days
          [] c = "estimateSlotDuration"     -> 90
          [] c = "bookingPeriodMonths"      -> 1
          [] OTHER -> Null]

MCSeedSchedules ==
    {Null, Schedule("custom", {Saturday}), Schedule("everyday_except", {Saturday})}

MCScheduleForms ==
    {[estimateScheduleMode |-> "global", constructionScheduleMode |-> "weekends"],
     [estimateScheduleMode |-> "custom", constructionScheduleMode |-> "weekdays",
      estimateAvailableDays |-> {5}, bookingPeriodMonths |-> 2]}
=============================================================================
