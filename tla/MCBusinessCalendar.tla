-------------------------- MODULE MCBusinessCalendar --------------------------
(* A finite instance of BusinessCalendar for TLC. *)
EXTENDS BusinessCalendar, TLC

CONSTANTS r1, r2, r3

MCRequests == {r1, r2, r3}
Symmetry == Permutations(Requests)

MCDates == {5, 6}
MCSeedHolidays == {5}
MCSeedSchedules == {Null}

MCHoursForms ==
    {[estimate     |-> [days |-> {Saturday}, start |-> 18 * 60, end |-> 22 * 60],
      construction |-> [days |-> Weekdays, start |-> 9 * 60, end |-> 18 * 60]]}

MCScheduleForms ==
    {[estimateScheduleMode |-> "global", constructionScheduleMode |-> "weekends"]}
=============================================================================
