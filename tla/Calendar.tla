-------------------------------- MODULE Calendar --------------------------------
(***************************************************************************)
(* The calendar of Recurring Bookings (domain/facility/recurring.py): the  *)
(* periods and the windows in which a Series may be created, and the       *)
(* deadline of a payment hold.                                             *)
(*                                                                         *)
(* Instants are hours from midnight, standard time, of the first day.  In  *)
(* summer the clock on the wall is one hour ahead.  A wall time is a day   *)
(* number times 24 plus the hour on the clock.                             *)
(***************************************************************************)
EXTENDS Integers, FiniteSets

CONSTANTS FirstYear,  \* the year that starts on day 0
          LastYear,   \* the last year with a date
          Summer,     \* spans <<from, to>> of daylight saving time
          HoldDays,   \* settings pending_payment_hold_days to consider
          Windows,    \* settings recurring_booking_availability_window
          FirstHour,  \* where the clock starts: two years after the first
          LastHour    \* and where it stops

ASSUME CalendarAssumption ==
  /\ FirstYear \in Nat /\ LastYear \in Nat /\ FirstHour \in Nat /\ LastHour \in Nat
  /\ \A s \in Summer : s \in Nat \X Nat /\ s[1] < s[2]
  /\ \A s \in Summer : s[1] % 24 = 2 /\ s[2] % 24 = 1   \* the clock changes at two in the morning
  /\ HoldDays \subseteq Nat \ {0}

\* What the setting may hold (_parse_recurring_booking_availability_window).
ASSUME WindowsAssumption ==
  \A w \in Windows : w.amount \in Nat \ {0} /\ w.unit \in {"days", "weeks", "months"}

VARIABLE now   \* the current instant

-----------------------------------------------------------------------------
(* Dates.                                                                  *)

Leap(y) == y % 4 = 0 /\ (y % 100 = 0 => y % 400 = 0)

\* date(y, m, d) as a day number.
DayNumber(y, m, d) ==
  365 * (y - FirstYear) + Cardinality({x \in FirstYear .. y - 1 : Leap(x)})
    + <<0, 31, 59, 90, 120, 151, 181, 212, 243, 273, 304, 334>>[m]
    + (IF m > 2 /\ Leap(y) THEN 1 ELSE 0) + d - 1

YearOf(n) == CHOOSE y \in FirstYear .. LastYear : DayNumber(y, 1, 1) <= n /\ n < DayNumber(y + 1, 1, 1)

\* Every date up to a year after the clock stops has a year.
ASSUME YearsAssumption == FirstYear <= LastYear /\ LastHour + 24 * 361 < 24 * DayNumber(LastYear + 1, 1, 1)

-----------------------------------------------------------------------------
(* The clock on the wall.                                                  *)

Wall(h) == IF \E s \in Summer : s[1] <= h /\ h < s[2] THEN h + 1 ELSE h
LocalDay(h) == Wall(h) \div 24
LocalHour(h) == Wall(h) % 24

\* An hour that occurs twice is its first occurrence; the hour the clock skips
\* does not exist.
localize_wall_time(w) == CHOOSE h \in {w - 1, w} : Wall(h) = w /\ (h = w => Wall(w - 1) # w)

-----------------------------------------------------------------------------
(* Periods and windows.                                                    *)

use_period_for_date(n) == IF n < DayNumber(YearOf(n), 7, 1) THEN "jan_jun" ELSE "jul_dec"

opening_date_for_period(period, year) ==
  IF period = "jan_jun" THEN DayNumber(year - 1, 12, 1) ELSE DayNumber(year, 6, 1)

\* Openings are the first of December and of June.
MonthsLater(y, m, amount) ==
  LET k == m - 1 + amount IN DayNumber(y + (k \div 12), (k % 12) + 1, 1)

add_availability_duration(period, year, w) ==
  LET start == opening_date_for_period(period, year) IN
  CASE w.unit = "days" -> start + w.amount
    [] w.unit = "weeks" -> start + 7 * w.amount
    [] w.unit = "months" -> IF period = "jan_jun" THEN MonthsLater(year - 1, 12, w.amount)
                                                  ELSE MonthsLater(year, 6, w.amount)

\* Both ends are midnights on the wall.
is_within_availability_window(h, period, year, w) ==
  /\ 24 * opening_date_for_period(period, year) <= Wall(h)
  /\ Wall(h) < 24 * add_availability_duration(period, year, w)

is_first_occurrence_in_availability_window(h, first, w) ==
  is_within_availability_window(h, use_period_for_date(first), YearOf(first), w)

Nearby(h) == LET y == YearOf(LocalDay(h)) IN {"jan_jun", "jul_dec"} \X (y - 1 .. y + 2)

is_any_recurring_period_open(h, w) ==
  \E c \in Nearby(h) : is_within_availability_window(h, c[1], c[2], w)

\* Mutation: an opening less than a day away is passed over.
next_recurring_opening_dateFar(h) ==
  LET later == {d \in {opening_date_for_period(c[1], c[2]) : c \in Nearby(h)} : 24 * d > Wall(h) + 24} IN
  CHOOSE d \in later : \A e \in later : d <= e

next_recurring_opening_date(h) ==
  LET later == {d \in {opening_date_for_period(c[1], c[2]) : c \in Nearby(h)} : 24 * d > Wall(h)} IN
  CHOOSE d \in later : \A e \in later : d <= e

-----------------------------------------------------------------------------
(* The payment hold.                                                       *)

\* Mutation: after noon the hold ends at the midnight before the last day.
hold_deadlineEarly(h, days) ==
  LET target == LocalDay(h) + days IN
  IF LocalHour(h) < 12 THEN localize_wall_time(24 * target + 12) ELSE localize_wall_time(24 * target)

\* calendar_day_payment_hold_expires_at
hold_deadline(h, days) ==
  LET target == LocalDay(h) + days IN
  IF LocalHour(h) < 12 THEN localize_wall_time(24 * target + 12)
  ELSE localize_wall_time(24 * (target + 1))

-----------------------------------------------------------------------------
CalendarInit == now = FirstHour
Tick == now < LastHour /\ now' = now + 1
calendarVars == <<now>>
CalendarSpec == CalendarInit /\ [][Tick]_now

-----------------------------------------------------------------------------
(* Properties.                                                             *)

\* A hold lasts the days of the setting and at most half a day longer, give or
\* take the hour a clock change adds or takes, and nobody who creates a Series
\* later has to pay earlier (calendar_day_payment_hold_expires_at).
HoldLastsAsPromised ==
  [][now' # now =>
       \A days \in HoldDays :
         LET end == hold_deadline(now, days) IN
         /\ end > now + 24 * days - 2
         /\ end <= now + 24 * days + 13
         /\ hold_deadline(now', days) >= end]_now

\* A date that can be booked is never reported as closed, and the moment a
\* closed window opens is midnight of the date that was announced while it was
\* closed (get_window_status: is_any_recurring_period_open,
\* next_recurring_opening_date).
OpeningIsAnnounced ==
  [][now' # now => \A w \in Windows :
       /\ (~is_any_recurring_period_open(now, w) /\ is_any_recurring_period_open(now', w))
            => (LocalDay(now') = next_recurring_opening_date(now) /\ LocalHour(now') = 0)
       /\ (\E months \in 0 .. 12 : is_first_occurrence_in_availability_window(now, LocalDay(now) + 30 * months, w))
            => is_any_recurring_period_open(now, w)]_now
=============================================================================
