--------------------------------- MODULE Cron ---------------------------------
(***************************************************************************)
(* The times of a cron expression (agent/cron.py): its fields are parsed,  *)
(* and next_fire searches the local time of a zone for the first minute    *)
(* that matches, jumping over months, days and hours that do not.          *)
(*                                                                         *)
(* The calendar is a small one.  Local time and the clock count minutes    *)
(* from its start.  The zone changes its offset once, on the hour: local   *)
(* clocks are put forward, or back, by shift, which is an hour.            *)
(***************************************************************************)
EXTENDS Integers, Sequences

CONSTANTS
  Minutes, Hours, Weekdays, Months,    \* of an hour, a day, a week, a year
  MonthStarts, \* the day on which each month begins, of all years; where they end
  SearchDays,  \* _MAX_SEARCH_DAYS
  Change,      \* when the zone changes its offset
  Shifts,      \* by how much it may
  Texts,       \* name of a field -> texts of it, each a set of items
  LastAfter    \* bound on the time after which one searches

VARIABLES
  expr,   \* the expression: name of a field -> text
  shift,
  after,
  local,  \* the minute that is looked at
  stage   \* of the search: "none", "search", "found", "never"

vars == <<expr, shift, after, local, stage>>

-----------------------------------------------------------------------------
(* The calendar and the zone.                                               *)

DayMinutes == Minutes * Hours
Month == 1..Len(MonthStarts) - 1
Length(m) == MonthStarts[m + 1] - MonthStarts[m]
LongestMonth == CHOOSE d \in {Length(m) : m \in Month} : \A m \in Month : Length(m) <= d
LastDay == MonthStarts[Len(MonthStarts)]

Day(t) == t \div DayMinutes
MonthIndex(t) ==
  CHOOSE m \in Month : MonthStarts[m] <= Day(t) /\ Day(t) < MonthStarts[m + 1]
Get(name, t) ==
  CASE name = "minute" -> t % Minutes
    [] name = "hour" -> (t % DayMinutes) \div Minutes
    [] name = "day" -> Day(t) - MonthStarts[MonthIndex(t)] + 1
    [] name = "month" -> ((MonthIndex(t) - 1) % Months) + 1
    [] name = "weekday" -> Day(t) % Weekdays

\* A local time that the zone has twice, or not at all, is read with the old offset.
Local(clock) == IF clock < Change THEN clock ELSE clock + shift
Clock(t) == IF t < Change + (IF shift > 0 THEN shift ELSE 0) THEN t ELSE t - shift

-----------------------------------------------------------------------------
(* The expression.                                                          *)

FieldName == {"minute", "hour", "day", "month", "weekday"}

\* Months follow each other from the first day on, and the range of every search is
\* within them; the zone changes its offset, if at all, on the hour and by an hour.
Settings ==
  /\ {Minutes, Hours, Weekdays, Months} \subseteq Nat \ {0}
  /\ MonthStarts \in Seq(Nat) /\ Len(MonthStarts) > 1 /\ MonthStarts[1] = 0
  /\ \A m, n \in DOMAIN MonthStarts : m < n => MonthStarts[m] < MonthStarts[n]
  /\ {SearchDays, LastAfter} \subseteq Nat
  /\ LastAfter + Minutes + 1 + SearchDays * DayMinutes < LastDay * DayMinutes
  /\ 0 \in Shifts /\ Shifts \subseteq {-Minutes, 0, Minutes}
  /\ Change \in Nat /\ Change >= Minutes /\ Change % Minutes = 0
  /\ \A name \in FieldName : Texts[name] # {}

Lowest(name) == IF name \in {"day", "month"} THEN 1 ELSE 0
Highest(name) ==
  CASE name = "minute" -> Minutes - 1
    [] name = "hour" -> Hours - 1
    [] name = "day" -> LongestMonth
    [] name = "month" -> Months
    [] name = "weekday" -> Weekdays    \* the first day again

\* An item is a star, a number or a range, with a step; without one the step is 0.
First(item, name) == IF item.base = "star" THEN Lowest(name) ELSE item.from
Last(item, name) ==
  IF item.base = "star" \/ (item.base = "number" /\ item.step > 0) THEN Highest(name)
  ELSE item.to
InRange(item, name) ==
  /\ Lowest(name) <= First(item, name) /\ Last(item, name) <= Highest(name)
  /\ First(item, name) <= Last(item, name)
Values(item, name) ==
  {v \in First(item, name)..Last(item, name) :
     item.step > 0 => (v - First(item, name)) % item.step = 0}

\* _parse_field and parse; a field is "*" only without a step.
IsAny(name) == expr[name] = {[base |-> "star", from |-> 0, to |-> 0, step |-> 0]}
Parsed(name) ==
  LET values == UNION {Values(i, name) : i \in expr[name]} IN
  IF name = "weekday" THEN {v % Weekdays : v \in values} ELSE values

Matches(name, t) == Get(name, t) \in Parsed(name)
DayMatches(t) ==
  IF IsAny("day") \/ IsAny("weekday") THEN Matches("day", t) /\ Matches("weekday", t)
  ELSE Matches("day", t) \/ Matches("weekday", t)

-----------------------------------------------------------------------------
(* The search.                                                              *)

TypeOK ==
  /\ \A name \in FieldName : expr[name] \in Texts[name]
  /\ shift \in Shifts
  /\ after \in 0..LastAfter
  /\ local \in 0..(LastDay + 1) * DayMinutes
  /\ stage \in {"none", "search", "found", "never"}

Init ==
  /\ expr = [name \in FieldName |-> CHOOSE text \in Texts[name] : TRUE]
  /\ shift = 0 /\ after = 0 /\ local = 0
  /\ stage = "none"

\* An expression that parses is asked for.
Begin ==
  /\ stage = "none"
  /\ expr' \in [FieldName -> UNION {Texts[name] : name \in FieldName}]
  /\ \A name \in FieldName :
       expr'[name] \in Texts[name] /\ \A i \in expr'[name] : InRange(i, name)
  /\ shift' \in Shifts
  /\ after' \in 0..LastAfter
  /\ local' = (IF after' < Change THEN after' ELSE after' + shift') + 1
  /\ stage' = "search"

Start == Local(after) + 1
Limit == Start + SearchDays * DayMinutes
NextMonth(t) == MonthStarts[MonthIndex(t) + 1] * DayMinutes
NextDay(t) == (Day(t) + 1) * DayMinutes
HourLater(t) == t + Minutes    \* mutant: not to the first minute of the hour
NextHour(t) == (t \div Minutes + 1) * Minutes

\* One round of the loop.
Skip(to) == local' = to /\ UNCHANGED stage
Look ==
  /\ stage = "search" /\ local <= Limit
  /\ \/ ~Matches("month", local) /\ Skip(NextMonth(local))
     \/ /\ Matches("month", local)
        /\ ~DayMatches(local) /\ Skip(NextDay(local))
     \/ /\ Matches("month", local) /\ DayMatches(local)
        /\ ~Matches("hour", local) /\ Skip(NextHour(local))
     \/ /\ Matches("month", local) /\ DayMatches(local) /\ Matches("hour", local)
        /\ \/ /\ Matches("minute", local) /\ Clock(local) > after
              /\ stage' = "found" /\ UNCHANGED local
           \/ /\ ~(Matches("minute", local) /\ Clock(local) > after)
              /\ Skip(local + 1)
  /\ UNCHANGED <<expr, shift, after>>

GiveUp ==
  /\ stage = "search" /\ local > Limit
  /\ stage' = "never"
  /\ UNCHANGED <<expr, shift, after, local>>

Next == Begin \/ Look \/ GiveUp
Spec == Init /\ [][Next]_vars

-----------------------------------------------------------------------------
(* Properties.                                                             *)

\* When an expression fires: when local clocks show a minute of it for the first time; or,
\* for one who asks before clocks go forward, when they would have, had they not.
Passed == IF after < Change THEN Change..Change + shift - 1 ELSE {}
Shows(t) == (\A name \in {"month", "hour", "minute"} : Matches(name, t)) /\ DayMatches(t)
Fires(clock) ==
  \E t \in {Local(clock)} \cup (Passed \cap {clock}) : Shows(t) /\ Clock(t) = clock

\* The time found is after the given one, the expression fires then, and not earlier.  If
\* there is none, the expression does not fire in the range of local times.
FiresNext ==
  /\ stage = "found" =>
       /\ Clock(local) > after /\ Fires(Clock(local))
       /\ \A c \in after + 1..Clock(local) - 1 : ~Fires(c)
  /\ stage = "never" => \A c \in after + 1..Limit + Minutes : Local(c) <= Limit => ~Fires(c)
=============================================================================
