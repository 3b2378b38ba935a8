-------------------------------- MODULE Cron --------------------------------
(***************************************************************************)
(* Five-field cron (cron.py): what an expression parses to, and the first  *)
(* instant after a given one at which it fires in a time zone.  An instant *)
(* and a label of local time are numbers of minutes; the text of a field   *)
(* is a sequence of items "first-last/step".                               *)
(***************************************************************************)
EXTENDS Integers, Sequences, FiniteSets

CONSTANTS
  Minutes, Hours, DaysOfMonth, Months, DaysOfWeek,  \* the values each field ranges over
  DayOfMonth(_), Month(_), DayOfWeek(_),            \* the calendar: the fields of a day
  MaxSearchDays,  \* days next_after looks at (_MAX_SEARCH_DAYS)
  NoTime          \* the ValueError of next_after

Fields == {"minute", "hour", "day_of_month", "month", "day_of_week"}

RangeOf == [minute |-> Minutes, hour |-> Hours, day_of_month |-> DaysOfMonth,
            month |-> Months, day_of_week |-> DaysOfWeek]

(* A parsed field is never empty, so the empty set stands for "*".         *)
Star == {}

ItemValues(item) == {v \in item.first..item.last : (v - item.first) % item.step = 0}

ItemInRange(item, range) ==
  /\ item.step > 0 /\ item.first <= item.last
  /\ item.first..item.last \subseteq range

FieldParses(items, range) == \A i \in DOMAIN items : ItemInRange(items[i], range)

ParseField(items) == UNION {ItemValues(items[i]) : i \in DOMAIN items}

(* An expression is a function from fields to sequences of items, the      *)
(* empty one for "*".                                                      *)
Parses(expr) == \A f \in Fields : FieldParses(expr[f], RangeOf[f])
Parse(expr)  == [f \in Fields |-> ParseField(expr[f])]

-----------------------------------------------------------------------------
(* A zone with one change of its offset, at the instant zone.change.       *)
DayLength == Cardinality(Hours) * Cardinality(Minutes)

Offset(zone, t) == IF t < zone.change THEN zone.before ELSE zone.after

UTC == [change |-> 0, before |-> 0, after |-> 0]

DateAt(zone, t) == (t + Offset(zone, t)) \div DayLength

Latest(zone) == IF zone.before > zone.after THEN zone.before ELSE zone.after

(* The instant of a label under fold=0: a label that occurs twice is the   *)
(* first of the two, and one that the clocks skip is counted from the      *)
(* offset before the change.                                               *)
Timestamp(zone, label) ==
  label - (IF label < zone.change + Latest(zone) THEN zone.before ELSE zone.after)

Unrestricted(field, value) == field = Star \/ value \in field

(* Days of the month and of the week are alternatives when both are given. *)
DayMatches(cron, d) ==
  /\ Unrestricted(cron.month, Month(d))
  /\ LET dom == Unrestricted(cron.day_of_month, DayOfMonth(d))
         dow == Unrestricted(cron.day_of_week, DayOfWeek(d))
     IN IF Star \in {cron.day_of_month, cron.day_of_week} THEN dom /\ dow ELSE dom \/ dow

Times(cron, zone, d) ==
  {Timestamp(zone, d * DayLength + h * Cardinality(Minutes) + m) :
     h \in IF cron.hour = Star THEN Hours ELSE cron.hour,
     m \in IF cron.minute = Star THEN Minutes ELSE cron.minute}

Least(S) == CHOOSE x \in S : \A y \in S : x <= y

\* Mutant of Candidates: keeps the times of the starting day that are past.
CandidatesAll(cron, zone, d, after) == Times(cron, zone, d)

(* Only the starting day has times that are already past.                  *)
Candidates(cron, zone, d, after) ==
  IF d = DateAt(zone, after)
    THEN {t \in Times(cron, zone, d) : t > after}
    ELSE Times(cron, zone, d)

NextAfter(cron, zone, after) ==
  LET start == DateAt(zone, after)
      days  == {d \in start..(start + MaxSearchDays - 1) :
                  DayMatches(cron, d) /\ Candidates(cron, zone, d, after) # {}}
  IN IF days = {} THEN NoTime ELSE Least(Candidates(cron, zone, Least(days), after))

-----------------------------------------------------------------------------
(* All the instants an expression names on the days that are searched, and *)
(* what "fires next" means: the least of them that is still to come.       *)
Occurrences(cron, zone, after) ==
  UNION {Times(cron, zone, d) :
           d \in {e \in DateAt(zone, after)..(DateAt(zone, after) + MaxSearchDays - 1) :
                    DayMatches(cron, e)}}

FirstComing(cron, zone, after) ==
  LET coming == {t \in Occurrences(cron, zone, after) : t > after}
  IN IF coming = {} THEN NoTime ELSE Least(coming)
=============================================================================
