----------------------------- MODULE MCSchedules -----------------------------
(* Small instance of Schedules.  A day has two hours of two minutes, a     *)
(* month two days and a week three; the clocks go back or forward one      *)
(* minute within the time the model runs, at a midnight or during a day.   *)
EXTENDS Schedules

CONSTANTS sch1, sch2, r1, r2

MCMinutes == {0, 1}
MCHours == {0, 1}
MCDaysOfMonth == {1, 2}
MCMonths == {1, 2}
MCDaysOfWeek == {0, 1, 2}
MCDayOfMonth(d) == 1 + (d % 2)
MCMonth(d) == 1 + ((d \div 2) % 2)
MCDayOfWeek(d) == d % 3

MCIds == {sch1, sch2}
MCRequests == {r1, r2}

Wild == << >>
Item(a, b, s) == << [first |-> a, last |-> b, step |-> s] >>
Every == [f \in Fields |-> Wild]

OnTheHour == [Every EXCEPT !["minute"] = Item(0, 0, 1)]
MCExprs == {OnTheHour, [Every EXCEPT !["hour"] = Item(2, 2, 1)]}
MCZones == {[change |-> 2, before |-> 0, after |-> 1]}

MCSamples ==
  {Every, OnTheHour,
   [Every EXCEPT !["minute"] = Item(1, 1, 1), !["day_of_month"] = Item(1, 1, 1)],
   [Every EXCEPT !["hour"] = Item(1, 1, 1), !["day_of_month"] = Item(2, 2, 1),
                 !["day_of_week"] = Item(0, 2, 2)],
   [Every EXCEPT !["month"] = Item(2, 2, 1)]}

MCSampleZones ==
  {[change |-> t, before |-> 0, after |-> a] : t \in {1, 4}, a \in {-1, 1}}
=============================================================================
