----------------------------- MODULE OfferProofs -----------------------------
(***************************************************************************)
(* What members are offered: the timetable promises nothing a create would *)
(* refuse, a quote is made from rates in force and adds up, and a payment  *)
(* hold lasts as long as the setting says, and windows open as announced.  *)
(* For every day, room, template, Blackout and Booking, every amount, and  *)
(* every hour of any year.                                                 *)
(*                                                                         *)
(* The invariants are small, since what is shown is computed from the rows *)
(* alone; the content is in the computations.                              *)
(***************************************************************************)
EXTENDS Timetable, Pricing, Calendar, TLAPS, WellFoundedInduction, FiniteSetTheorems

-----------------------------------------------------------------------------
(* Least and greatest elements.                                            *)

\* A set of numbers that is not empty has a least one.
LEMMA LeastOf ==
  ASSUME NEW S, S \subseteq Nat, S # {}
  PROVE  \E n \in S : \A k \in S : n <= k
<1>1. PICK n \in S : \A k \in S : ~(<<k, n>> \in OpToRel(<, Nat))
    BY NatLessThanWellFounded, WFMin, Zenon
<1>2. \A k \in S : ~(k < n)
  <2> TAKE k \in S
  <2>1. k \in Nat /\ n \in Nat
      OBVIOUS
  <2>2. k < n => <<k, n>> \in OpToRel(<, Nat)
      BY <2>1, Zenon DEF OpToRel
  <2> QED
      BY <1>1, <2>2
<1> QED
    BY <1>2

\* A bounded one has a greatest.
LEMMA GreatestOf ==
  ASSUME NEW b \in Nat, NEW S, S \subseteq 0 .. b, S # {}
  PROVE  \E n \in S : \A k \in S : k <= n
<1> DEFINE T == {b - x : x \in S}
<1>1. T \subseteq Nat /\ T # {}
  <2>1. \A x \in S : b - x \in Nat
      OBVIOUS
  <2>2. PICK x \in S : TRUE
      OBVIOUS
  <2> QED
      BY <2>1, <2>2
<1>2. PICK m \in T : \A k \in T : m <= k
  <2> HIDE DEF T
  <2> QED
      BY <1>1, LeastOf
<1>3. PICK n \in S : m = b - n
    BY <1>2
<1>4. \A k \in S : b - n <= b - k
    BY <1>2, <1>3
<1>5. \A k \in S : k <= n
  <2> TAKE k \in S
  <2> QED
      BY <1>4
<1> QED
    BY <1>5

\* Multiples are ordered as their factors.
LEMMA MultiplesGrow ==
  ASSUME NEW c \in Nat, NEW j \in Nat, NEW k \in Nat, j <= k
  PROVE  j * c <= k * c
<1>1. (k - j) * c >= 0
    BY Z3
<1>2. (k - j) * c = k * c - j * c
    BY Z3
<1> QED
    BY <1>1, <1>2

\* Every tick of a run of cells lies in one of its cells.
LEMMA TickHasCell ==
  ASSUME TimetableAssumption, NEW a \in 1 .. Cells, NEW b \in 1 .. Cells, NEW x \in Nat,
         (a - 1) * CellTicks <= x, x < b * CellTicks
  PROVE  \E k \in a .. b : (k - 1) * CellTicks <= x /\ x < k * CellTicks
<1> DEFINE S == {k \in 0 .. b : x < k * CellTicks}
<1>1. S \subseteq Nat /\ S # {} /\ CellTicks \in Nat /\ Cells \in Nat
  <2>1. CellTicks \in Nat /\ Cells \in Nat
      BY DEF TimetableAssumption
  <2>2. b \in 0 .. b /\ 0 .. b \subseteq Nat
      BY <2>1
  <2>3. b \in S
      BY <2>2
  <2> QED
      BY <2>1, <2>2, <2>3
<1>2. PICK k \in S : \A j \in S : k <= j
  <2> HIDE DEF S
  <2> QED
      BY <1>1, LeastOf
<1>3. k \in 0 .. b /\ x < k * CellTicks
    BY <1>2
<1>4. k >= a
  <2> SUFFICES ASSUME k <= a - 1 PROVE FALSE
      BY <1>3
  <2>1. k * CellTicks <= (a - 1) * CellTicks
      BY <1>1, <1>3, MultiplesGrow
  <2> QED
      BY <1>1, <1>3, <2>1
<1>5. (k - 1) * CellTicks <= x
  <2>1. k - 1 \in 0 .. b /\ k - 1 \notin S
      BY <1>2, <1>3, <1>4
  <2>2. (k - 1) * CellTicks \in Int
      BY <1>1, <1>3
  <2> QED
      BY <2>1, <2>2
<1> QED
    BY <1>3, <1>4, <1>5

-----------------------------------------------------------------------------
(* The invariant.                                                          *)

\* A Booking was accepted inside opening hours: its lines are spans of the day.
LinesAreSpans(p) == \A l \in p.lines : l.start \in Ticks /\ l.end \in Ticks /\ l.start < l.end

TimetableInv ==
  /\ closed \subseteq Closings
  /\ booked \subseteq Plans
  /\ \A p \in booked : LinesAreSpans(p)

\* A span that a create accepts lies in the day, since opening hours do.
LEMMA AcceptedIsSpan ==
  ASSUME TimetableAssumption, NEW room, NEW i, i.start \in Nat, i.end \in Nat,
         member_interval_within_opening_hours(room, i)
  PROVE  i.start \in Ticks /\ i.end \in Ticks /\ i.start < i.end
<1> DEFINE day == Cells * CellTicks
<1>1. day \in Nat /\ i.start < i.end
    BY DEF TimetableAssumption, member_interval_within_opening_hours
<1>2. \A x \in Covered(i) : x < day
  <2> TAKE x \in Covered(i)
  <2>1. x \in merge_open_windows(room)
      BY DEF member_interval_within_opening_hours
  <2>2. PICK t \in Templates : x \in Covered(TemplateOf[t])
      BY <2>1 DEF merge_open_windows, list_active_for_day
  <2>3. TemplateOf[t].start \in 0 .. day /\ TemplateOf[t].end \in 0 .. day
      BY DEF TimetableAssumption, Ticks
  <2> QED
      BY <1>1, <2>2, <2>3 DEF Covered
<1>3. i.end - 1 \in Covered(i)
    BY <1>1 DEF Covered
<1>4. i.end - 1 < day
    BY <1>2, <1>3
<1> QED
    BY <1>1, <1>4 DEF Ticks

\* The rows are those of the constants, and what is booked was accepted.
LEMMA NextTimetable ==
  ASSUME TimetableAssumption, TimetableInv, [TimetableNext]_timetableVars
  PROVE  TimetableInv'
<1> USE DEF TimetableInv
<1>1. ASSUME NEW p \in Plans, NEW priority \in BOOLEAN, create_booking(p, priority) PROVE TimetableInv'
  <2>1. booked' \subseteq booked \cup {p} /\ closed' = closed
      BY <1>1 DEF create_booking
  <2>2. LinesAreSpans(p)
    <3> SUFFICES ASSUME NEW l \in p.lines PROVE l.start \in Ticks /\ l.end \in Ticks /\ l.start < l.end
        BY DEF LinesAreSpans
    <3>1. l.start \in Nat /\ l.end \in Nat
        BY DEF TimetableAssumption
    <3>2. member_interval_within_opening_hours(l.room, l)
        BY <1>1 DEF create_booking, LineAccepted
    <3> QED
        BY <3>1, <3>2, AcceptedIsSpan
  <2>3. \A q \in booked' : q \in Plans /\ LinesAreSpans(q)
      BY <2>1, <2>2
  <2> QED
      BY <2>1, <2>3
<1>2. ASSUME NEW p \in Plans, cancel_booking(p) PROVE TimetableInv'
    BY <1>2 DEF cancel_booking
<1>3. ASSUME NEW c \in Closings, save_blackout(c) \/ lift_blackout(c) PROVE TimetableInv'
    BY <1>3 DEF save_blackout, lift_blackout
<1>4. ASSUME UNCHANGED <<closed, booked>> PROVE TimetableInv'
    BY <1>4
<1>5. ASSUME NEW t \in Templates, NEW yes \in BOOLEAN,
             create_template(t, yes) \/ update_template(t, yes) \/ delete_template(t, yes) \/ restore_template(t)
      PROVE  TimetableInv'
    BY <1>4, <1>5 DEF create_template, update_template, delete_template, restore_template
<1>6. CASE ClockTick
    BY <1>4, <1>6 DEF ClockTick
<1>7. CASE UNCHANGED timetableVars
    BY <1>4, <1>7 DEF timetableVars
<1> QED
    BY <1>1, <1>2, <1>3, <1>5, <1>6, <1>7 DEF TimetableNext

-----------------------------------------------------------------------------
(* What is shown can be booked.                                            *)

\* Two spans that overlap have a tick in common.
LEMMA OverlapHasTick ==
  ASSUME NEW a, NEW b, a.start \in Nat, a.end \in Nat, b.start \in Nat, b.end \in Nat,
         a.start < a.end, b.start < b.end, intervals_overlap(a, b)
  PROVE  \E x \in Nat : x \in Covered(a) /\ x \in Covered(b)
<1>1. CASE a.start <= b.start
  <2>1. b.start \in Covered(a) /\ b.start \in Covered(b)
      BY <1>1 DEF Covered, intervals_overlap
  <2> QED
      BY <2>1
<1>2. CASE b.start <= a.start
  <2>1. a.start \in Covered(a) /\ a.start \in Covered(b)
      BY <1>2 DEF Covered, intervals_overlap
  <2> QED
      BY <2>1
<1> QED
    BY <1>1, <1>2

\* The header of a Booking covers all its lines.
LEMMA EnvelopeCovers ==
  ASSUME TimetableAssumption, TimetableInv, NEW p \in booked, NEW l \in p.lines
  PROVE  Covered(l) \subseteq Covered(Envelope(p))
<1> DEFINE Starts == {m.start : m \in p.lines}
           Ends == {m.end : m \in p.lines}
           day == Cells * CellTicks
<1>1. LinesAreSpans(p) /\ day \in Nat
    BY DEF TimetableInv, TimetableAssumption
<1>2. /\ l.start \in Starts /\ Starts \subseteq Nat /\ l.end \in Ends /\ Ends \subseteq 0 .. day
      /\ \A m \in p.lines : m.start \in Nat /\ m.end \in Nat
    BY <1>1 DEF LinesAreSpans, Ticks
<1>3. \E s \in Starts : \A k \in Starts : s <= k
  <2> HIDE DEF Starts
  <2> QED
      BY <1>2, LeastOf
<1>4. \E e \in Ends : \A k \in Ends : k <= e
  <2> HIDE DEF Ends, day
  <2> QED
      BY <1>1, <1>2, GreatestOf
<1>5. \E s \in Starts : \A m \in p.lines : s <= m.start
    BY <1>3
<1>6. \E e \in Ends : \A m \in p.lines : m.end <= e
    BY <1>4
<1>7. Envelope(p).start \in Starts /\ Envelope(p).start <= l.start
  <2> DEFINE s == CHOOSE x \in Starts : \A m \in p.lines : x <= m.start
  <2>1. s \in Starts /\ s <= l.start
      BY <1>5
  <2>2. Envelope(p).start = s
      BY DEF Envelope
  <2> QED
      BY <2>1, <2>2
<1>8. Envelope(p).end \in Ends /\ l.end <= Envelope(p).end
  <2> DEFINE e == CHOOSE x \in Ends : \A m \in p.lines : m.end <= x
  <2>1. e \in Ends /\ l.end <= e
      BY <1>6
  <2>2. Envelope(p).end = e
      BY DEF Envelope
  <2> QED
      BY <2>1, <2>2
<1>9. Envelope(p).start \in Nat /\ Envelope(p).end \in Nat /\ l.start \in Nat /\ l.end \in Nat
    BY <1>2, <1>7, <1>8
<1> HIDE DEF Starts, Ends
<1> QED
    BY <1>7, <1>8, <1>9 DEF Covered

\* Opening hours have a first template at every open tick.
LEMMA OpenHasTemplate ==
  ASSUME TimetableAssumption, NEW room, NEW x \in Nat, x \in merge_open_windows(room)
  PROVE  \E t \in Templates : t \in _template_containing_start(room, x)
<1> DEFINE At(t) == TemplateOf[t].start <= x /\ x < TemplateOf[t].end
           S == {t \in list_active_for_day(room) : At(t)}
<1>1. S \subseteq Nat /\ S \subseteq Templates
    BY DEF list_active_for_day, TimetableAssumption
<1>2. S # {}
  <2>1. PICK t \in list_active_for_day(room) : x \in Covered(TemplateOf[t])
      BY DEF merge_open_windows
  <2>2. TemplateOf[t].start \in 0 .. Cells * CellTicks /\ TemplateOf[t].end \in 0 .. Cells * CellTicks
        /\ Cells * CellTicks \in Nat
      BY <2>1 DEF list_active_for_day, TimetableAssumption, Ticks
  <2>3. At(t)
      BY <2>1, <2>2 DEF Covered
  <2> QED
      BY <2>1, <2>3
<1>3. PICK t \in S : \A u \in S : t <= u
  <2> HIDE DEF S
  <2> QED
      BY <1>1, <1>2, LeastOf
<1>4. \A u \in list_active_for_day(room) : u < t => ~At(u)
  <2> TAKE u \in list_active_for_day(room)
  <2>1. At(u) => u \in S /\ t <= u
      BY <1>3
  <2>2. u \in Nat /\ t \in Nat
      BY <1>1, <1>3 DEF list_active_for_day, TimetableAssumption
  <2> QED
      BY <2>1, <2>2
<1>5. t \in list_active_for_day(room) /\ At(t) /\ t \in Templates
    BY <1>1, <1>3
<1> QED
    BY <1>4, <1>5 DEF _template_containing_start
\* A Booking that a span inside shown cells would meet is one that may be
\* displaced: the cell it meets it in shows it, and is not shown as taken.
LEMMA ShownHasNoConflict ==
  ASSUME TimetableAssumption, TimetableInv, NEW room, NEW priority \in BOOLEAN,
         NEW a \in 1 .. Cells, NEW b \in 1 .. Cells,
         \A k \in a .. b : classify_cell(room, day_cell_bounds[k], priority) \in {"available", "override"},
         NEW i, i.start \in Nat, i.end \in Nat, i.start < i.end,
         (a - 1) * CellTicks <= i.start, i.end <= b * CellTicks,
         Covered(i) \subseteq _build_open_windows(room),
         NEW p \in list_occupying_slots(room, i)
  PROVE  p \in Targets(room, i, priority)
<1> DEFINE day == [start |-> 0, end |-> Cells * CellTicks]
           o == [span |-> Envelope(p), ministry |-> p.ministry]
<1>1. Cells \in Nat /\ CellTicks \in Nat /\ Cells * CellTicks \in Nat /\ b * CellTicks \in Nat
    BY DEF TimetableAssumption
<1>2. PICK l \in p.lines : l.room = room /\ intervals_overlap(l, i)
    BY DEF list_occupying_slots
<1>3. p \in booked /\ l.start \in Nat /\ l.end \in Nat /\ l.start < l.end
    BY <1>1 DEF list_occupying_slots, TimetableInv, LinesAreSpans, Ticks
<1>4. PICK x \in Nat : x \in Covered(l) /\ x \in Covered(i)
    BY <1>2, <1>3, OverlapHasTick
<1>5. l.start <= x /\ x < l.end /\ i.start <= x /\ x < i.end
    BY <1>3, <1>4 DEF Covered
<1>6. (a - 1) * CellTicks <= x /\ x < b * CellTicks
  <2>1. (a - 1) * CellTicks \in Int
      BY <1>1
  <2> QED
      BY <1>1, <1>5, <2>1
<1>7. PICK k \in a .. b : (k - 1) * CellTicks <= x /\ x < k * CellTicks
    BY <1>6, TickHasCell
<1> DEFINE cell == day_cell_bounds[k]
           parts == Covered(cell) \cap _build_open_windows(room)
           overlapping == {q \in OccupyingSpans(room) : Covered(q.span) \cap parts # {}}
           overridable == {q \in overlapping : q.ministry = NoMinistry /\ priority /\ q.span.start > clock}
<1>8. x \in parts
  <2>1. k \in 1 .. Cells /\ (k - 1) * CellTicks \in Int /\ k * CellTicks \in Int
      BY <1>1, <1>7
  <2>2. cell = [start |-> (k - 1) * CellTicks, end |-> k * CellTicks]
      BY <2>1 DEF day_cell_bounds
  <2>3. x \in Covered(cell)
      BY <1>7, <2>1, <2>2 DEF Covered
  <2> QED
      BY <1>4, <2>3
<1>9. o \in overlapping
  <2>1. x < Cells * CellTicks
    <3>1. b * CellTicks <= Cells * CellTicks
        BY <1>1, MultiplesGrow
    <3> QED
        BY <1>1, <1>6, <3>1
  <2>2. intervals_overlap(l, day)
      BY <1>1, <1>3, <1>5, <2>1 DEF intervals_overlap
  <2>3. p \in list_occupying_slots(room, day)
      BY <1>2, <1>3, <2>2 DEF list_occupying_slots
  <2>4. o \in OccupyingSpans(room)
      BY <2>3 DEF OccupyingSpans
  <2>5. x \in Covered(o.span)
      BY <1>3, <1>4, EnvelopeCovers
  <2> HIDE DEF o, parts
  <2> QED
      BY <1>8, <2>4, <2>5
<1>10. classify_cell(room, cell, priority) =
         IF parts = {} THEN "closed"
         ELSE IF overlapping = {} THEN "available"
         ELSE IF overridable = overlapping THEN "override" ELSE "unavailable"
    BY DEF classify_cell
<1>11. overridable = overlapping
  <2>1. classify_cell(room, cell, priority) \in {"available", "override"}
      BY <1>7
  <2> HIDE DEF parts, overlapping, overridable, cell
  <2> QED
      BY <1>8, <1>9, <1>10, <2>1
<1>12. o.ministry = NoMinistry /\ priority /\ o.span.start > clock
  <2> HIDE DEF o, overlapping
  <2> QED
      BY <1>9, <1>11
<1> QED
    BY <1>12 DEF Targets

\* A span in open time meets no Blackout: open time is what they leave.
LEMMA OpenMeetsNoBlackout ==
  ASSUME TimetableAssumption, TimetableInv, NEW room, NEW i, i.start \in Nat, i.end \in Nat, i.start < i.end,
         Covered(i) \subseteq _build_open_windows(room)
  PROVE  ~has_blackout_overlap(room, i)
<1> SUFFICES ASSUME NEW c \in list_active_for_room_day(room), intervals_overlap(i, c) PROVE FALSE
    BY DEF has_blackout_overlap
<1>1. c \in Closings /\ Cells * CellTicks \in Nat
    BY DEF list_active_for_room_day, TimetableInv, TimetableAssumption
<1>2. c.start \in Nat /\ c.end \in Nat /\ c.start < c.end
    BY <1>1 DEF TimetableAssumption, Ticks
<1>3. PICK x \in Nat : x \in Covered(i) /\ x \in Covered(c)
    BY <1>2, OverlapHasTick
<1> QED
    BY <1>3 DEF _build_open_windows

\* In a state of the invariant the offer holds.
LEMMA InvIsBookable == ASSUME TimetableAssumption, TimetableInv PROVE OfferedIsBookable
<1> SUFFICES ASSUME NEW room \in ShownRooms, NEW priority \in BOOLEAN,
                    NEW run \in merge_contiguous_free_slots(room, {"available", "override"}, priority),
                    NEW i \in [start : run.start .. run.end, end : run.start .. run.end],
                    i.start < i.end, Covered(i) \subseteq _build_open_windows(room),
                    \A t \in _template_containing_start(room, i.start) :
                      i.end - i.start >= TemplateOf[t].slot_duration
             PROVE  LineAccepted(room, i, priority)
    BY DEF OfferedIsBookable
<1>1. PICK a \in 1 .. Cells, b \in 1 .. Cells :
        /\ a <= b
        /\ \A k \in a .. b : classify_cell(room, day_cell_bounds[k], priority) \in {"available", "override"}
        /\ run = [start |-> day_cell_bounds[a].start, end |-> day_cell_bounds[b].end]
    BY DEF merge_contiguous_free_slots
<1>2. Cells \in Nat /\ CellTicks \in Nat
    BY DEF TimetableAssumption
<1>3. run.start = (a - 1) * CellTicks /\ run.end = b * CellTicks
    BY <1>1, <1>2 DEF day_cell_bounds
<1>4. (a - 1) * CellTicks \in Nat /\ b * CellTicks \in Nat
    BY <1>1, <1>2
<1>5. i.start \in Nat /\ i.end \in Nat /\ (a - 1) * CellTicks <= i.start /\ i.end <= b * CellTicks
    BY <1>3, <1>4
<1>6. Conflicts(room, i, priority) = {}
  <2>1. \A p \in list_occupying_slots(room, i) : p \in Targets(room, i, priority)
      BY <1>1, <1>5, ShownHasNoConflict
  <2> QED
      BY <2>1 DEF Conflicts
<1>7. ~has_blackout_overlap(room, i)
    BY <1>5, OpenMeetsNoBlackout
<1>8. member_interval_within_opening_hours(room, i)
  <2>1. Covered(i) \subseteq merge_open_windows(room)
      BY DEF _build_open_windows
  <2>2. i.start \in merge_open_windows(room)
      BY <1>5, <2>1 DEF Covered
  <2>3. PICK t \in _template_containing_start(room, i.start) : TRUE
      BY <1>5, <2>2, OpenHasTemplate
  <2> QED
      BY <2>1, <2>3 DEF member_interval_within_opening_hours
<1> QED
    BY <1>6, <1>7, <1>8 DEF LineAccepted

\* Time shown as free, or as displaceable to a priority Ministry, is accepted by
\* create_booking.  The timetable is computed cell by cell from merged windows
\* and the headers of Bookings; a create looks at templates, Blackouts and the
\* slots of Bookings, and at no cell.
THEOREM OfferIsHonest == TimetableSpec => []OfferedIsBookable
<1>1. TimetableInit => TimetableInv
    BY DEF TimetableInit, TimetableInv
<1>2. TimetableInv => OfferedIsBookable
    BY TimetableAssumption, InvIsBookable
<1>3. TimetableInv /\ [TimetableNext]_timetableVars => TimetableInv'
    BY TimetableAssumption, NextTimetable
<1> QED
    BY <1>1, <1>2, <1>3, PTL DEF TimetableSpec

-----------------------------------------------------------------------------
(* The price.                                                              *)

\* The rows are what administrators entered.
PricingInv == form \in [TemplateIds -> Forms \cup {NoRow}]

\* The rows keep their type.
LEMMA NextPricing ==
  ASSUME PricingInv, [PricingNext]_pricingVars
  PROVE  PricingInv'
<1> USE DEF PricingInv
<1>1. ASSUME NEW t \in TemplateIds, NEW f \in Forms, create_rate_template(t, f) \/ update_rate_template(t, f)
      PROVE  PricingInv'
    BY <1>1 DEF create_rate_template, update_rate_template
<1>2. ASSUME UNCHANGED form PROVE PricingInv'
    BY <1>2
<1>3. ASSUME NEW t \in TemplateIds,
             delete_rate_template_check(t) \/ delete_rate_template_soft(t) \/ restore_rate_template(t)
      PROVE  PricingInv'
    BY <1>2, <1>3 DEF delete_rate_template_check, delete_rate_template_soft, restore_rate_template
<1>4. ASSUME NEW k \in Keys, NEW yes \in BOOLEAN,
             \/ bind_check(k) \/ restore_rate(k)
             \/ create_rate(k, yes) \/ update_rate(k, yes) \/ delete_rate(k, yes)
      PROVE  PricingInv'
    BY <1>2, <1>4 DEF bind_check, restore_rate, create_rate, update_rate, delete_rate
<1>5. CASE UNCHANGED pricingVars
    BY <1>2, <1>5 DEF pricingVars
<1> QED
    BY <1>1, <1>3, <1>4, <1>5 DEF PricingNext

\* pick_rate_for_line returns one of the rates it is given.
LEMMA PickIsGiven ==
  ASSUME NEW rates, NEW hours, NEW first
  PROVE  pick_rate_for_line(rates, hours, first) \subseteq rates
BY DEF pick_rate_for_line

\* With allow_first_active it returns one if there is any.
LEMMA PickFindsOne ==
  ASSUME NEW rates, rates \subseteq Nat, rates # {}, NEW hours
  PROVE  pick_rate_for_line(rates, hours, TRUE) # {}
<1> DEFINE eligible == {t \in rates : matches_applicability(t, hours)}
           rank(t) == (IF form[t].has_rule THEN 0 ELSE 2) + (IF form[t].is_default THEN 0 ELSE 1)
           defaults == {t \in rates : form[t].is_default}
           best == {t \in eligible : \A u \in eligible : rank(t) <= rank(u)}
           lowest == {t \in rates : \A u \in rates : t <= u}
<1>1. pick_rate_for_line(rates, hours, TRUE) =
        IF eligible # {} THEN best ELSE IF defaults # {} THEN defaults ELSE lowest
    BY DEF pick_rate_for_line
<1>2. ASSUME eligible # {} PROVE best # {}
  <2> DEFINE ranks == {rank(t) : t \in eligible}
  <2>1. \A t : rank(t) \in Nat
      OBVIOUS
  <2> HIDE DEF rank, eligible
  <2>2. ranks \subseteq Nat /\ ranks # {}
      BY <1>2, <2>1
  <2>3. PICK n \in ranks : \A k \in ranks : n <= k
    <3> HIDE DEF ranks
    <3> QED
        BY <2>2, LeastOf
  <2>4. PICK t \in eligible : n = rank(t)
      BY <2>3
  <2>5. t \in best
      BY <2>3, <2>4
  <2> QED
      BY <2>5
<1>3. lowest # {}
  <2>1. PICK n \in rates : \A k \in rates : n <= k
      BY LeastOf
  <2> QED
      BY <2>1
<1> HIDE DEF eligible, best, defaults, lowest
<1> QED
    BY <1>1, <1>2, <1>3

\* A line is priced by a template in force, and has a price if there is one.
LEMMA LiveTemplates == ASSUME PricingAssumption PROVE PricedByLiveTemplate
<1> SUFFICES ASSUME NEW room \in PricedRooms, NEW hours \in Hours
             PROVE  LET picked == _resolve_rate_for_room(room, hours) IN
                    /\ \A t \in picked : Visible(t) /\ form[t].is_active
                    /\ (\E t \in TemplateIds : Visible(t) /\ form[t].is_active) => picked # {}
    BY DEF PricedByLiveTemplate
<1> DEFINE bound == pick_rate_for_line(list_active_rates_for_facility(room), hours, FALSE)
           other == pick_rate_for_line(list_templates, hours, TRUE)
<1>1. _resolve_rate_for_room(room, hours) = IF bound # {} THEN bound ELSE other
    BY DEF _resolve_rate_for_room
<1>2. bound \subseteq list_active_rates_for_facility(room) /\ other \subseteq list_templates
    BY PickIsGiven
<1>3. bound \subseteq list_templates
    BY <1>2 DEF list_active_rates_for_facility, list_templates
<1>4. list_templates # {} => other # {}
  <2>1. list_templates \subseteq Nat
      BY DEF list_templates, PricingAssumption
  <2> QED
      BY <2>1, PickFindsOne
<1> HIDE DEF bound, other
<1>5. \A t \in _resolve_rate_for_room(room, hours) : t \in list_templates
    BY <1>1, <1>2, <1>3
<1>6. list_templates # {} => _resolve_rate_for_room(room, hours) # {}
    BY <1>1, <1>4
<1> QED
    BY <1>5, <1>6 DEF list_templates

\* A sum of two lines is the sum of two numbers.
LEMMA SubtotalOfTwo ==
  ASSUME NEW a \in Int, NEW b \in Int
  PROVE  Subtotal(<<a, b>>) = a + b
<1> DEFINE S == {1, 2}
           body(f, s) == IF s = {} THEN 0 ELSE f[s \ {Max(s)}] + <<a, b>>[Max(s)]
           iter == CHOOSE f : f = [s \in SUBSET S |-> body(f, s)]
           g == [s \in SUBSET S |-> IF s = {} THEN 0 ELSE IF s = {1} THEN a ELSE IF s = {2} THEN b ELSE a + b]
<1>1. DOMAIN <<a, b>> = S
    OBVIOUS
<1>2. Subtotal(<<a, b>>) = iter[S]
    BY <1>1 DEF Subtotal, FoldLeft, MapThenFoldSet
<1>3. Max({1}) = 1 /\ Max({2}) = 2 /\ Max(S) = 2
    BY DEF Max
<1>4. \A s \in SUBSET S : s \in {{}, {1}, {2}, S}
    OBVIOUS
<1>5. {1} \ {1} = {} /\ {2} \ {2} = {} /\ S \ {2} = {1} /\ {1} # {2} /\ {1} # S /\ {2} # S
    OBVIOUS
<1>6. g = [s \in SUBSET S |-> body(g, s)]
  <2> SUFFICES ASSUME NEW s \in SUBSET S PROVE g[s] = body(g, s)
      OBVIOUS
  <2>1. g[{}] = 0 /\ g[{1}] = a /\ g[{2}] = b /\ g[S] = a + b
      BY <1>5
  <2> HIDE DEF g
  <2>2. body(g, {}) = 0 /\ body(g, {1}) = a /\ body(g, {2}) = b /\ body(g, S) = a + b
      BY <1>3, <1>5, <2>1
  <2> HIDE DEF body
  <2> QED
      BY <1>4, <2>1, <2>2
<1>7. iter = [s \in SUBSET S |-> body(iter, s)]
  <2>1. \E f : f = [s \in SUBSET S |-> body(f, s)]
      BY <1>6
  <2> HIDE DEF body, S
  <2> QED
      BY <2>1, Zenon
<1>8. \A s \in SUBSET S : iter[s] = body(iter, s)
  <2> HIDE DEF iter, body
  <2> QED
      BY <1>7
<1>9. iter[{}] = 0 /\ iter[{1}] = body(iter, {1}) /\ iter[S] = body(iter, S)
    <2> HIDE DEF iter
    <2> QED
        BY <1>8
<1> HIDE DEF iter
<1>10. iter[{1}] = a
    BY <1>3, <1>5, <1>9
<1>11. iter[S] = a + b
    BY <1>3, <1>5, <1>9, <1>10
<1> QED
    BY <1>2, <1>11

\* Rounding moves an amount by half a cent at most.
LEMMA QuantizeIsNear ==
  ASSUME NEW x \in Int
  PROVE  /\ \E n \in Int : _quantize(x) = 100 * n
         /\ _quantize(x) \in Int /\ _quantize(x) - x \in -50 .. 50
<1>1. CASE x >= 0
  <2> DEFINE n == (x + 50) \div 100
  <2>1. n \in Int /\ 100 * n <= x + 50 /\ x + 50 < 100 * n + 100
      BY <1>1
  <2>2. _quantize(x) = 100 * n
      BY <1>1 DEF _quantize
  <2> HIDE DEF n
  <2> QED
      BY <2>1, <2>2
<1>2. CASE x < 0
  <2> DEFINE n == (50 - x) \div 100
  <2>1. n \in Int /\ 100 * n <= 50 - x /\ 50 - x < 100 * n + 100
      BY <1>2
  <2>2. _quantize(x) = 100 * (0 - n)
      BY <1>2, <2>1 DEF _quantize
  <2> HIDE DEF n
  <2> QED
      BY <2>1, <2>2
<1> QED
    BY <1>1, <1>2

\* A discount is whole cents, at most the rounded subtotal, and all of it at 100.
LEMMA DiscountIsBounded ==
  ASSUME NEW s \in Nat, NEW percent \in 0 .. 100
  PROVE  /\ \E n \in Nat : discount_amount(s, percent) = 100 * n
         /\ discount_amount(s, percent) <= _quantize(s)
         /\ percent = 100 => discount_amount(s, percent) = _quantize(s)
         /\ percent = 0 => discount_amount(s, percent) = 0
<1> DEFINE n == (s * percent + 5000) \div 10000
           m == (s + 50) \div 100
<1>1. s * percent \in Nat /\ s * percent <= s * 100
    BY MultiplesGrow
<1>2. n \in Nat /\ 10000 * n <= s * percent + 5000 /\ s * percent + 5000 < 10000 * n + 10000
    BY <1>1
<1>3. m \in Nat /\ 100 * m <= s + 50 /\ s + 50 < 100 * m + 100
    OBVIOUS
<1>4. _quantize(s) = 100 * m /\ discount_amount(s, percent) = 100 * n
    BY DEF _quantize, discount_amount
<1> HIDE DEF n, m
<1>5. n <= m
    BY <1>1, <1>2, <1>3
<1>6. percent = 100 => n = m
    BY <1>1, <1>2, <1>3
<1>7. percent = 0 => n = 0
    BY <1>1, <1>2
<1> QED
    BY <1>2, <1>3, <1>4, <1>5, <1>6, <1>7

\* What a line costs is a natural number of hundredths of a cent.
LEMMA LineCosts ==
  ASSUME PricingAssumption, PricingInv, NEW t \in list_templates, NEW h \in Hours
  PROVE  _compute_line_subtotal(t, h) \in Nat
<1>1. form[t] \in Forms /\ h \in Nat
    BY DEF list_templates, Visible, PricingInv, PricingAssumption
<1>2. form[t].unit_amount \in Nat
    BY <1>1 DEF PricingAssumption
<1>3. form[t].unit_amount * h \in Nat /\ 100 * form[t].unit_amount \in Nat
    BY <1>1, <1>2
<1> QED
    BY <1>3 DEF _compute_line_subtotal

\* What a quote of two lines shows adds up.
LEMMA AmountsAddUp == ASSUME PricingAssumption, PricingInv PROVE QuoteAddsUp
<1> SUFFICES ASSUME NEW t \in list_templates, NEW u \in list_templates, NEW h \in Hours, NEW k \in Hours,
                    NEW percent \in Percents, NEW surcharge \in Surcharges,
                    NEW kind \in {"one_time", "recurring", "ministry"}
             PROVE  LET q == preview_quote(<<<<t, h>>, <<u, k>>>>, kind, percent, surcharge)
                        sum == q.subtotal_amount - q.discount_amount + q.surcharge_amount IN
                    /\ sum - q.quoted_amount \in {-100, 0, 100}
                    /\ q.line_subtotals[1] + q.line_subtotals[2] - q.subtotal_amount \in {-100, 0, 100}
                    /\ q.discount_amount <= q.subtotal_amount
                    /\ (kind = "recurring" /\ percent = 100) => q.discount_amount = q.subtotal_amount
    BY DEF QuoteAddsUp
<1> DEFINE lines == <<<<t, h>>, <<u, k>>>>
           each == [i \in DOMAIN lines |-> _compute_line_subtotal(lines[i][1], lines[i][2])]
           q == preview_quote(lines, kind, percent, surcharge)
<1> SUFFICES /\ (q.subtotal_amount - q.discount_amount + q.surcharge_amount) - q.quoted_amount \in {-100, 0, 100}
             /\ q.line_subtotals[1] + q.line_subtotals[2] - q.subtotal_amount \in {-100, 0, 100}
             /\ q.discount_amount <= q.subtotal_amount
             /\ (kind = "recurring" /\ percent = 100) => q.discount_amount = q.subtotal_amount
    OBVIOUS
<1>1. PICK a \in Nat, b \in Nat : a = _compute_line_subtotal(t, h) /\ b = _compute_line_subtotal(u, k)
    BY LineCosts
<1>2. each = <<a, b>> /\ DOMAIN lines = 1 .. 2
    BY <1>1
<1>3. PICK c \in Nat : c = surcharge
    BY DEF PricingAssumption
<1>4. CASE kind = "ministry"
  <2>1. q = [line_subtotals |-> [i \in DOMAIN lines |-> 0], subtotal_amount |-> 0, discount_amount |-> 0,
             surcharge_amount |-> 0, quoted_amount |-> 0]
      BY <1>4 DEF preview_quote, evaluate
  <2>2. /\ q.line_subtotals[1] = 0 /\ q.line_subtotals[2] = 0 /\ q.subtotal_amount = 0
        /\ q.discount_amount = 0 /\ q.surcharge_amount = 0 /\ q.quoted_amount = 0
      BY <1>2, <2>1
  <2> QED
      BY <1>4, <2>2
<1>5. CASE kind # "ministry"
  <2>1. PICK off \in 0 .. 100 : off = (IF kind = "recurring" THEN percent ELSE 0)
      BY DEF PricingAssumption
  <2>2. PICK s \in Nat : s = a + b
      OBVIOUS
  <2>3. Subtotal(each) = s
      BY <1>2, <2>2, SubtotalOfTwo
  <2>4. PICK d : d = discount_amount(s, off)
      OBVIOUS
  <2>5. q = [line_subtotals |-> [i \in DOMAIN lines |-> _quantize(each[i])], subtotal_amount |-> _quantize(s),
             discount_amount |-> d, surcharge_amount |-> _quantize(c), quoted_amount |-> _quantize(s - d + c)]
    <3>1. evaluate(kind, percent).free = FALSE /\ evaluate(kind, percent).percent = off
        BY <1>5, <2>1 DEF evaluate
    <3> HIDE DEF lines
    <3> QED
        BY <1>3, <2>3, <2>4, <3>1 DEF preview_quote
  <2>6. /\ q.line_subtotals[1] = _quantize(a) /\ q.line_subtotals[2] = _quantize(b)
        /\ q.subtotal_amount = _quantize(s) /\ q.discount_amount = d
        /\ q.surcharge_amount = _quantize(c) /\ q.quoted_amount = _quantize(s - d + c)
    <3> HIDE DEF q, lines, each
    <3> QED
        BY <1>2, <2>5
  <2>7. PICK n \in Nat : d = 100 * n
      BY <2>4, DiscountIsBounded
  <2>8. PICK w \in Int : w = s - d + c
      BY <2>7
  <2>9. \A x \in Int : \E n1 \in Int : _quantize(x) = 100 * n1 /\ 100 * n1 - x \in -50 .. 50
      BY QuantizeIsNear
  <2>a. PICK A \in Int : _quantize(a) = 100 * A /\ 100 * A - a \in -50 .. 50
      BY <2>9
  <2>b. PICK B \in Int : _quantize(b) = 100 * B /\ 100 * B - b \in -50 .. 50
      BY <2>9
  <2>c. PICK C \in Int : _quantize(c) = 100 * C /\ 100 * C - c \in -50 .. 50
      BY <2>9
  <2>q. PICK Q \in Int : _quantize(s) = 100 * Q /\ 100 * Q - s \in -50 .. 50
      BY <2>9
  <2>w. PICK E \in Int : _quantize(w) = 100 * E /\ 100 * E - w \in -50 .. 50
      BY <2>9
  <2>10. Q - n + C - E \in {-1, 0, 1} /\ A + B - Q \in {-1, 0, 1}
      BY <2>2, <2>7, <2>8, <2>a, <2>b, <2>c, <2>q, <2>w
  <2>11. /\ 100 * Q - 100 * n + 100 * C - 100 * E \in {-100, 0, 100}
         /\ 100 * A + 100 * B - 100 * Q \in {-100, 0, 100}
      BY <2>10
  <2>12. d <= _quantize(s) /\ (off = 100 => d = _quantize(s))
      BY <2>4, DiscountIsBounded
  <2> HIDE DEF q
  <2> QED
      BY <2>1, <2>6, <2>7, <2>8, <2>a, <2>b, <2>c, <2>q, <2>w, <2>11, <2>12
<1> QED
    BY <1>4, <1>5

\* A quote is made from templates in force, whichever bindings slipped in beside
\* a deletion, and its rounded amounts add up to the cent, for all amounts,
\* hours, percentages and surcharges.
THEOREM QuotesStaySound == PricingSpec => []QuotesAreSound
<1>1. PricingInit => PricingInv
    BY DEF PricingInit, PricingInv
<1>2. PricingInv => QuotesAreSound
    BY PricingAssumption, LiveTemplates, AmountsAddUp DEF QuotesAreSound
<1>3. PricingInv /\ [PricingNext]_pricingVars => PricingInv'
    BY NextPricing
<1> QED
    BY <1>1, <1>2, <1>3, PTL DEF PricingSpec

-----------------------------------------------------------------------------
(* The payment deadline.                                                   *)

InSummer(h) == \E s \in Summer : s[1] <= h /\ h < s[2]

\* Where a hold ends on the wall, by the time on the wall when it begins.
WallEnd(v, days) == IF v % 24 < 12 THEN 24 * (v \div 24 + days) + 12 ELSE 24 * (v \div 24 + days + 1)

\* The clock changes at two in the morning: at noon and midnight it is summer
\* time if it was an hour before.
LEMMA NoChangeAtHalfDay ==
  ASSUME CalendarAssumption, NEW w \in Nat, w % 12 = 0, w > 0
  PROVE  InSummer(w) => InSummer(w - 1)
<1> SUFFICES ASSUME NEW s \in Summer, s[1] <= w, w < s[2]
             PROVE  s[1] <= w - 1 /\ w - 1 < s[2]
    BY DEF InSummer
<1>1. s[1] \in Nat /\ s[2] \in Nat /\ s[1] % 24 = 2
    BY DEF CalendarAssumption
<1>2. s[1] # w
    BY <1>1
<1> QED
    BY <1>1, <1>2

\* Noon and midnight exist once a day.
LEMMA HalfDayIsLocal ==
  ASSUME CalendarAssumption, NEW w \in Nat, w % 12 = 0, w > 0
  PROVE  localize_wall_time(w) = IF InSummer(w - 1) THEN w - 1 ELSE w
<1> DEFINE Right(h) == Wall(h) = w /\ (h = w => Wall(w - 1) # w)
           h0 == IF InSummer(w - 1) THEN w - 1 ELSE w
<1>1. \A h \in Int : Wall(h) = IF InSummer(h) THEN h + 1 ELSE h
    BY DEF Wall, InSummer
<1>2. InSummer(w) => InSummer(w - 1)
    BY NoChangeAtHalfDay
<1>3. Wall(w - 1) = (IF InSummer(w - 1) THEN w ELSE w - 1) /\ Wall(w) = (IF InSummer(w) THEN w + 1 ELSE w)
    BY <1>1
<1>4. h0 \in {w - 1, w} /\ Right(h0)
    BY <1>2, <1>3
<1>5. \A h \in {w - 1, w} : Right(h) => h = h0
    BY <1>2, <1>3
<1>6. localize_wall_time(w) = CHOOSE h \in {w - 1, w} : Right(h)
    BY DEF localize_wall_time
<1> HIDE DEF Right, h0
<1>7. (CHOOSE h \in {w - 1, w} : Right(h)) = h0
    BY <1>4, <1>5
<1> QED
    BY <1>6, <1>7 DEF h0

\* The deadline, by the wall.
LEMMA DeadlineByWall ==
  ASSUME CalendarAssumption, NEW h \in Nat, NEW days \in Nat \ {0}
  PROVE  LET v == Wall(h)
             w == WallEnd(v, days) IN
         /\ v \in {h, h + 1} /\ w \in Nat /\ w % 12 = 0 /\ w > 0
         /\ w - v \in 24 * days + 1 .. 24 * days + 12
         /\ hold_deadline(h, days) = IF InSummer(w - 1) THEN w - 1 ELSE w
<1>1. PICK v \in Nat : v = Wall(h) /\ v \in {h, h + 1}
    BY DEF Wall
<1>2. PICK w : w = WallEnd(v, days)
    OBVIOUS
<1>3. PICK q \in Nat, r \in 0 .. 23 : q = v \div 24 /\ r = v % 24 /\ v = 24 * q + r
    OBVIOUS
<1>4. w = (IF r < 12 THEN 24 * (q + days) + 12 ELSE 24 * (q + days + 1))
    BY <1>2, <1>3 DEF WallEnd
<1>5. w \in Nat /\ w > 0 /\ w % 12 = 0
    BY <1>4
<1>6. w - v \in 24 * days + 1 .. 24 * days + 12
    BY <1>3, <1>4
<1>7. hold_deadline(h, days) = localize_wall_time(w)
    BY <1>1, <1>3, <1>4 DEF hold_deadline, LocalDay, LocalHour
<1> QED
    BY <1>1, <1>2, <1>5, <1>6, <1>7, HalfDayIsLocal

\* The clock on the wall is never set back by more than the hour that passes.
LEMMA WallGrows ==
  ASSUME CalendarAssumption, NEW h \in Nat
  PROVE  Wall(h) <= Wall(h + 1)
BY DEF Wall

\* An hour later the hold ends no earlier on the wall.
LEMMA WallEndGrows ==
  ASSUME NEW v \in Nat, NEW u \in Nat, v <= u, NEW days \in Nat
  PROVE  WallEnd(v, days) <= WallEnd(u, days)
<1>1. PICK q \in Nat, r \in 0 .. 23 : q = v \div 24 /\ r = v % 24 /\ v = 24 * q + r
    OBVIOUS
<1>2. PICK p \in Nat, o \in 0 .. 23 : p = u \div 24 /\ o = u % 24 /\ u = 24 * p + o
    OBVIOUS
<1>3. q < p \/ (q = p /\ r <= o)
    BY <1>1, <1>2
<1>4. /\ WallEnd(v, days) = IF r < 12 THEN 24 * (q + days) + 12 ELSE 24 * (q + days + 1)
      /\ WallEnd(u, days) = IF o < 12 THEN 24 * (p + days) + 12 ELSE 24 * (p + days + 1)
    BY <1>1, <1>2 DEF WallEnd
<1> QED
    BY <1>3, <1>4

\* What a hold promises, from one hour to the next.
LEMMA HoldIsFair ==
  ASSUME CalendarAssumption, NEW h \in Nat, NEW days \in HoldDays
  PROVE  LET end == hold_deadline(h, days) IN
         /\ end > h + 24 * days - 2 /\ end <= h + 24 * days + 13
         /\ hold_deadline(h + 1, days) >= end
<1>1. days \in Nat \ {0} /\ h + 1 \in Nat
    BY DEF CalendarAssumption
<1>2. PICK v \in Nat : v = Wall(h) /\ v \in {h, h + 1}
    BY DEF Wall
<1>3. PICK u \in Nat : u = Wall(h + 1)
    BY DEF Wall
<1>4. PICK w : w = WallEnd(v, days)
    OBVIOUS
<1>5. PICK x : x = WallEnd(u, days)
    OBVIOUS
<1>6. /\ w \in Nat /\ w % 12 = 0 /\ w > 0 /\ w - v \in 24 * days + 1 .. 24 * days + 12
      /\ hold_deadline(h, days) = IF InSummer(w - 1) THEN w - 1 ELSE w
    BY <1>1, <1>2, <1>4, DeadlineByWall
<1>7. x \in Nat /\ x % 12 = 0 /\ hold_deadline(h + 1, days) = IF InSummer(x - 1) THEN x - 1 ELSE x
    BY <1>1, <1>3, <1>5, DeadlineByWall
<1>8. w <= x
  <2>1. v <= u
      BY <1>2, <1>3, WallGrows
  <2> QED
      BY <1>1, <1>4, <1>5, <2>1, WallEndGrows
<1>9. w = x \/ w < x - 1
    BY <1>6, <1>7, <1>8
<1>10. hold_deadline(h + 1, days) >= hold_deadline(h, days)
    BY <1>6, <1>7, <1>9
<1>11. hold_deadline(h, days) > h + 24 * days - 2 /\ hold_deadline(h, days) <= h + 24 * days + 13
    BY <1>1, <1>2, <1>6
<1> QED
    BY <1>10, <1>11

\* Whoever creates a Series has the days of the setting to pay, half a day more at
\* most, the changes of the clock included, and nobody who comes later has to
\* pay earlier.
THEOREM HoldsAreFair == CalendarSpec => HoldLastsAsPromised
<1> DEFINE Fair == now' # now =>
                     \A days \in HoldDays :
                       LET end == hold_deadline(now, days) IN
                       /\ end > now + 24 * days - 2
                       /\ end <= now + 24 * days + 13
                       /\ hold_deadline(now', days) >= end
<1>1. CalendarInit => now \in Nat
    BY CalendarAssumption DEF CalendarInit, CalendarAssumption
<1>2. now \in Nat /\ [Tick]_now => (now \in Nat)'
    BY DEF Tick
<1>3. now \in Nat /\ [Tick]_now => [Fair]_now
  <2> SUFFICES ASSUME now \in Nat, Tick PROVE Fair
      OBVIOUS
  <2>1. now' = now + 1
      BY DEF Tick
  <2> QED
      BY <2>1, CalendarAssumption, HoldIsFair
<1> QED
    BY <1>1, <1>2, <1>3, PTL DEF CalendarSpec, HoldLastsAsPromised

-----------------------------------------------------------------------------
(* The periods and windows: years follow one another, and no midnight is   *)
(* skipped.                                                                *)

\* How many leap years begin before year y.
LeapYears(y) == Cardinality({x \in FirstYear .. y - 1 : Leap(x)})

\* The later the year, the more leap years before it.
LEMMA LeapYearsGrow ==
  ASSUME CalendarAssumption, NEW y \in Int, NEW z \in Int, y <= z
  PROVE  LeapYears(y) \in Nat /\ LeapYears(z) \in Nat /\ LeapYears(y) <= LeapYears(z)
<1> DEFINE S(u) == {x \in FirstYear .. u - 1 : Leap(x)}
<1>1. FirstYear \in Int /\ y - 1 \in Int /\ z - 1 \in Int
  BY DEF CalendarAssumption
<1>2. IsFiniteSet(FirstYear .. z - 1)
  BY <1>1, FS_Interval
<1>3. S(z) \subseteq FirstYear .. z - 1
  OBVIOUS
<1>4. S(y) \subseteq S(z)
  BY <1>1
<1> HIDE DEF S
<1>5. IsFiniteSet(S(z))
  BY <1>2, <1>3, FS_Subset
<1>6. IsFiniteSet(S(y)) /\ Cardinality(S(y)) <= Cardinality(S(z))
  BY <1>4, <1>5, FS_Subset
<1>7. Cardinality(S(y)) \in Nat /\ Cardinality(S(z)) \in Nat
  BY <1>5, <1>6, FS_CardinalityType
<1>8. LeapYears(y) = Cardinality(S(y)) /\ LeapYears(z) = Cardinality(S(z))
  BY DEF LeapYears, S
<1> QED
  BY <1>6, <1>7, <1>8

\* The dates the properties are about.
LEMMA DatesAre ==
  ASSUME CalendarAssumption, NEW y \in Int
  PROVE  /\ DayNumber(y, 1, 1) = 365 * (y - FirstYear) + LeapYears(y)
         /\ DayNumber(y, 6, 1) = 365 * (y - FirstYear) + LeapYears(y) + 151 + (IF Leap(y) THEN 1 ELSE 0)
         /\ DayNumber(y, 12, 1) = 365 * (y - FirstYear) + LeapYears(y) + 334 + (IF Leap(y) THEN 1 ELSE 0)
         /\ DayNumber(y, 1, 1) \in Int /\ DayNumber(y, 6, 1) \in Int /\ DayNumber(y, 12, 1) \in Int
<1>1. LeapYears(y) \in Nat
  BY LeapYearsGrow
<1>2. PICK leaps \in Nat : leaps = LeapYears(y)
  BY <1>1
<1>3. Cardinality({x \in FirstYear .. y - 1 : Leap(x)}) = leaps
  BY <1>2 DEF LeapYears
<1>4. FirstYear \in Nat
  BY DEF CalendarAssumption
<1>5. DayNumber(y, 1, 1) = 365 * (y - FirstYear) + leaps
  BY <1>3, <1>4 DEF DayNumber
<1>6. DayNumber(y, 6, 1) = 365 * (y - FirstYear) + leaps + 151 + (IF Leap(y) THEN 1 ELSE 0)
  BY <1>3, <1>4 DEF DayNumber
<1>7. DayNumber(y, 12, 1) = 365 * (y - FirstYear) + leaps + 334 + (IF Leap(y) THEN 1 ELSE 0)
  BY <1>3, <1>4 DEF DayNumber
<1> QED
  BY <1>2, <1>4, <1>5, <1>6, <1>7

\* A year has at least 365 days, and years follow one another.
LEMMA YearsGrow ==
  ASSUME CalendarAssumption, NEW y \in Int, NEW z \in Int, y <= z
  PROVE  DayNumber(y, 1, 1) + 365 * (z - y) <= DayNumber(z, 1, 1)
<1>1. LeapYears(y) \in Nat /\ LeapYears(z) \in Nat /\ LeapYears(y) <= LeapYears(z)
  BY LeapYearsGrow
<1>2. FirstYear \in Nat
  BY DEF CalendarAssumption
<1> QED
  BY <1>1, <1>2, DatesAre

\* YearOf finds the one year a day lies in.
LEMMA YearFound ==
  ASSUME CalendarAssumption, YearsAssumption, NEW n \in Nat, n < DayNumber(LastYear + 1, 1, 1)
  PROVE  /\ YearOf(n) \in FirstYear .. LastYear
         /\ DayNumber(YearOf(n), 1, 1) <= n /\ n < DayNumber(YearOf(n) + 1, 1, 1)
<1> DEFINE S == {y \in FirstYear .. LastYear : DayNumber(y, 1, 1) <= n}
<1>1. FirstYear \in Nat /\ LastYear \in Nat /\ FirstYear <= LastYear
  BY DEF CalendarAssumption, YearsAssumption
<1>2. DayNumber(FirstYear, 1, 1) = 0
  <2>1. {x \in FirstYear .. FirstYear - 1 : Leap(x)} = {}
    BY <1>1
  <2>2. Cardinality({x \in FirstYear .. FirstYear - 1 : Leap(x)}) = 0
    BY <2>1, FS_EmptySet
  <2>3. LeapYears(FirstYear) = 0
    BY <2>2 DEF LeapYears
  <2> QED
    BY <1>1, <2>3, DatesAre
<1>3. FirstYear \in S /\ S \subseteq Nat /\ S \subseteq 0 .. LastYear
  BY <1>1, <1>2
<1>4. PICK y \in S : \A z \in S : z <= y
  BY <1>1, <1>3, GreatestOf
<1>5. y \in FirstYear .. LastYear /\ DayNumber(y, 1, 1) <= n
  BY <1>4
<1>6. n < DayNumber(y + 1, 1, 1)
  <2>1. CASE y = LastYear
    BY <2>1
  <2>2. CASE y < LastYear
    <3>1. y + 1 \in FirstYear .. LastYear /\ y + 1 \notin S
      BY <1>1, <1>4, <1>5, <2>2
    <3>2. DayNumber(y + 1, 1, 1) \in Int
      BY <1>1, <1>5, DatesAre
    <3> QED
      BY <3>1, <3>2
  <2> QED
    BY <1>1, <1>5, <2>1, <2>2
<1> QED
  BY <1>5, <1>6, Zenon DEF YearOf

\* A day lies in one year only.
LEMMA YearOrder ==
  ASSUME CalendarAssumption, NEW y \in Int, NEW z \in Int, NEW m \in Int, NEW n \in Int, m <= n,
         DayNumber(y, 1, 1) <= m, m < DayNumber(y + 1, 1, 1), DayNumber(z, 1, 1) <= n, n < DayNumber(z + 1, 1, 1)
  PROVE  y <= z /\ (n <= m + 364 => z <= y + 1)
<1>1. ~(z < y)
  <2> SUFFICES ASSUME z < y PROVE FALSE
    OBVIOUS
  <2>1. DayNumber(z + 1, 1, 1) + 365 * (y - (z + 1)) <= DayNumber(y, 1, 1)
    <3>1. z + 1 \in Int /\ z + 1 <= y
      OBVIOUS
    <3> QED
      BY <3>1, YearsGrow
  <2>2. DayNumber(z + 1, 1, 1) \in Int /\ DayNumber(y, 1, 1) \in Int
    BY DatesAre
  <2> QED
    BY <2>1, <2>2
<1>2. n <= m + 364 => ~(z > y + 1)
  <2> SUFFICES ASSUME z > y + 1, n <= m + 364 PROVE FALSE
    OBVIOUS
  <2>1. DayNumber(y + 1, 1, 1) + 365 * (z - (y + 1)) <= DayNumber(z, 1, 1)
    <3>1. y + 1 \in Int /\ y + 1 <= z
      OBVIOUS
    <3> QED
      BY <3>1, YearsGrow
  <2>2. DayNumber(y + 1, 1, 1) \in Int /\ DayNumber(z, 1, 1) \in Int
    BY DatesAre
  <2> QED
    BY <2>1, <2>2
<1> QED
  BY <1>1, <1>2

\* A month's first day is a day, whatever the month.
LEMMA FirstsAreDays ==
  ASSUME CalendarAssumption, NEW y \in Int, NEW m \in 1 .. 12
  PROVE  DayNumber(y, m, 1) \in Int
<1>1. LeapYears(y) \in Nat
  BY LeapYearsGrow
<1>2. PICK leaps \in Nat : leaps = LeapYears(y)
  BY <1>1
<1>3. Cardinality({x \in FirstYear .. y - 1 : Leap(x)}) = leaps
  BY <1>2 DEF LeapYears
<1>4. FirstYear \in Nat
  BY DEF CalendarAssumption
<1>5. PICK before \in Nat : before = <<0, 31, 59, 90, 120, 151, 181, 212, 243, 273, 304, 334>>[m]
  <2>1. <<0, 31, 59, 90, 120, 151, 181, 212, 243, 273, 304, 334>> \in [1 .. 12 -> Nat]
    OBVIOUS
  <2> QED
    BY <2>1
<1> DEFINE leapDay == IF m > 2 /\ Leap(y) THEN 1 ELSE 0
<1>6. DayNumber(y, m, 1) = 365 * (y - FirstYear) + leaps + before + leapDay + 1 - 1
  <2>1. DayNumber(y, m, 1) = 365 * (y - FirstYear) + Cardinality({x \in FirstYear .. y - 1 : Leap(x)})
          + <<0, 31, 59, 90, 120, 151, 181, 212, 243, 273, 304, 334>>[m] + leapDay + 1 - 1
    BY DEF DayNumber
  <2> HIDE DEF leapDay
  <2> QED
    BY <2>1, <1>3, <1>5
<1> QED
  BY <1>4, <1>6

\* A period opens on a day.
LEMMA OpeningsAreDays ==
  ASSUME CalendarAssumption, NEW y \in Int, NEW period \in {"jan_jun", "jul_dec"}
  PROVE  opening_date_for_period(period, y) \in Int
<1>1. y - 1 \in Int
  OBVIOUS
<1> QED
  BY <1>1, DatesAre DEF opening_date_for_period

\* A window ends on a day.
LEMMA WindowsEnd ==
  ASSUME CalendarAssumption, NEW y \in Int, NEW period \in {"jan_jun", "jul_dec"}, NEW w,
         w.amount \in Nat \ {0}, w.unit \in {"days", "weeks", "months"}
  PROVE  add_availability_duration(period, y, w) \in Int
<1>1. PICK amount \in Nat : amount = w.amount
  OBVIOUS
<1>2. \A year \in Int, month \in 1 .. 12 : MonthsLater(year, month, amount) \in Int
  <2> TAKE year \in Int, month \in 1 .. 12
  <2>1. PICK k \in Nat : k = month - 1 + amount
    OBVIOUS
  <2>2. year + (k \div 12) \in Int /\ (k % 12) + 1 \in 1 .. 12
    BY Z3
  <2>3. DayNumber(year + (k \div 12), (k % 12) + 1, 1) \in Int
    BY <2>2, FirstsAreDays
  <2> QED
    BY <2>1, <2>3, Zenon DEF MonthsLater
<1>3. opening_date_for_period(period, y) \in Int
  BY OpeningsAreDays
<1>4. MonthsLater(y - 1, 12, w.amount) \in Int /\ MonthsLater(y, 6, w.amount) \in Int
  <2>1. y - 1 \in Int /\ y \in Int /\ 12 \in 1 .. 12 /\ 6 \in 1 .. 12
    OBVIOUS
  <2> QED
    BY <2>1, <1>1, <1>2, Zenon
<1>5. PICK later, latest : later = MonthsLater(y - 1, 12, w.amount) /\ latest = MonthsLater(y, 6, w.amount)
  OBVIOUS
<1>6. PICK start : start = opening_date_for_period(period, y)
  OBVIOUS
<1>7. /\ w.unit = "days" => add_availability_duration(period, y, w) = start + amount
      /\ w.unit = "weeks" => add_availability_duration(period, y, w) = start + 7 * amount
      /\ w.unit = "months" => add_availability_duration(period, y, w) \in {later, latest}
  BY <1>1, <1>5, <1>6 DEF add_availability_duration
<1>8. start \in Int /\ later \in Int /\ latest \in Int
  BY <1>3, <1>4, <1>5, <1>6
<1> QED
  BY <1>7, <1>8

\* From one hour to the next the clock on the wall stands still, moves an hour,
\* or skips the hour after one in the morning.
LEMMA NextWall ==
  ASSUME CalendarAssumption, NEW h \in Nat
  PROVE  /\ Wall(h) \in Nat /\ Wall(h + 1) \in Nat
         /\ \/ Wall(h + 1) \in {Wall(h), Wall(h) + 1}
            \/ Wall(h + 1) = Wall(h) + 2 /\ Wall(h) % 24 = 1
<1>1. Wall(h) \in {h, h + 1} /\ Wall(h + 1) \in {h + 1, h + 2}
  BY DEF Wall
<1>2. Wall(h) = h /\ Wall(h + 1) = h + 2 => h % 24 = 1
  <2> SUFFICES ASSUME Wall(h) = h, Wall(h + 1) = h + 2 PROVE h % 24 = 1
    OBVIOUS
  <2>1. PICK s \in Summer : s[1] <= h + 1 /\ h + 1 < s[2]
    BY DEF Wall
  <2>2. ~(s[1] <= h /\ h < s[2])
    BY DEF Wall
  <2>3. s[1] \in Nat /\ s[2] \in Nat /\ s[1] % 24 = 2
    BY DEF CalendarAssumption
  <2>4. PICK a \in Nat, b \in Nat : a = s[1] /\ b = s[2]
    BY <2>3
  <2>5. a = h + 1
    BY <2>1, <2>2, <2>4
  <2> QED
    BY <2>3, <2>4, <2>5
<1> QED
  BY <1>1, <1>2

\* The wall's day and hour, and the year the day lies in.
LEMMA LocalDays ==
  ASSUME CalendarAssumption, YearsAssumption, NEW h \in Nat, h <= LastHour
  PROVE  /\ LocalDay(h) \in Nat /\ LocalHour(h) \in 0 .. 23 /\ Wall(h) = 24 * LocalDay(h) + LocalHour(h)
         /\ LocalDay(h) + 360 < DayNumber(LastYear + 1, 1, 1)
         /\ YearOf(LocalDay(h)) \in Nat
         /\ DayNumber(YearOf(LocalDay(h)), 1, 1) <= LocalDay(h)
         /\ LocalDay(h) < DayNumber(YearOf(LocalDay(h)) + 1, 1, 1)
<1>1. Wall(h) \in {h, h + 1}
  BY DEF Wall
<1>2. PICK wall \in Nat : wall = Wall(h)
  BY <1>1
<1>3. PICK day \in Nat, hour \in 0 .. 23 : wall = 24 * day + hour /\ day = wall \div 24 /\ hour = wall % 24
  OBVIOUS
<1>4. LocalDay(h) = day /\ LocalHour(h) = hour
  BY <1>2, <1>3 DEF LocalDay, LocalHour
<1>5. day + 360 < DayNumber(LastYear + 1, 1, 1)
  <2>1. LastYear + 1 \in Int /\ LastHour \in Nat
    BY DEF CalendarAssumption
  <2>2. DayNumber(LastYear + 1, 1, 1) \in Int
    BY <2>1, DatesAre
  <2>3. LastHour + 24 * 361 < 24 * DayNumber(LastYear + 1, 1, 1)
    BY DEF YearsAssumption
  <2> QED
    BY <1>1, <1>2, <1>3, <2>1, <2>2, <2>3
<1>6. day < DayNumber(LastYear + 1, 1, 1)
  <2>1. LastYear + 1 \in Int
    BY DEF CalendarAssumption
  <2>2. DayNumber(LastYear + 1, 1, 1) \in Int
    BY <2>1, DatesAre
  <2> QED
    BY <1>5, <2>2
<1>7. YearOf(day) \in FirstYear .. LastYear /\ DayNumber(YearOf(day), 1, 1) <= day /\ day < DayNumber(YearOf(day) + 1, 1, 1)
  BY <1>6, YearFound
<1>8. YearOf(day) \in Nat
  BY <1>7 DEF CalendarAssumption
<1> QED
  BY <1>2, <1>3, <1>4, <1>5, <1>7, <1>8

\* The first days of January, June and December of a year are days in this
\* order.
LEMMA YearParts ==
  ASSUME CalendarAssumption, NEW y \in Int
  PROVE  /\ DayNumber(y, 1, 1) < DayNumber(y, 6, 1) /\ DayNumber(y, 6, 1) < DayNumber(y, 12, 1)
         /\ DayNumber(y, 1, 1) \in Int /\ DayNumber(y, 6, 1) \in Int /\ DayNumber(y, 12, 1) \in Int
<1>1. FirstYear \in Nat /\ LeapYears(y) \in Nat
  BY LeapYearsGrow DEF CalendarAssumption
<1>2. PICK jan \in Int, leapDay \in 0 .. 1 :
        jan = 365 * (y - FirstYear) + LeapYears(y) /\ leapDay = (IF Leap(y) THEN 1 ELSE 0)
  BY <1>1
<1>3. DayNumber(y, 1, 1) = jan /\ DayNumber(y, 6, 1) = jan + 151 + leapDay /\ DayNumber(y, 12, 1) = jan + 334 + leapDay
  BY <1>2, DatesAre
<1> QED
  BY <1>2, <1>3

\* The openings of the third calendar year ahead are more than a year ahead.
LEMMA FarOpening ==
  ASSUME CalendarAssumption, NEW z \in Int, NEW day \in Int, day < DayNumber(z + 1, 1, 1),
         NEW period \in {"jan_jun", "jul_dec"}
  PROVE  day < opening_date_for_period(period, z + 2)
<1>1. z + 1 \in Int /\ z + 2 \in Int /\ z + 1 <= z + 2
  OBVIOUS
<1>2. DayNumber(z + 1, 1, 1) < DayNumber(z + 1, 12, 1)
  <2>1. DayNumber(z + 1, 1, 1) < DayNumber(z + 1, 6, 1) /\ DayNumber(z + 1, 6, 1) < DayNumber(z + 1, 12, 1)
        /\ DayNumber(z + 1, 1, 1) \in Int /\ DayNumber(z + 1, 6, 1) \in Int /\ DayNumber(z + 1, 12, 1) \in Int
    BY <1>1, YearParts
  <2> QED
    BY <2>1
<1>3. DayNumber(z + 1, 1, 1) + 365 * ((z + 2) - (z + 1)) <= DayNumber(z + 2, 1, 1)
  BY <1>1, YearsGrow
<1>4. DayNumber(z + 2, 1, 1) < DayNumber(z + 2, 6, 1)
  BY <1>1, YearParts
<1>5. DayNumber(z + 1, 1, 1) \in Int /\ DayNumber(z + 1, 12, 1) \in Int /\ DayNumber(z + 2, 1, 1) \in Int /\ DayNumber(z + 2, 6, 1) \in Int
  <2>1. DayNumber(z + 1, 1, 1) \in Int /\ DayNumber(z + 1, 12, 1) \in Int
    BY <1>1, YearParts
  <2>2. DayNumber(z + 2, 1, 1) \in Int /\ DayNumber(z + 2, 6, 1) \in Int
    BY <1>1, YearParts
  <2> QED
    BY <2>1, <2>2
<1>6. opening_date_for_period(period, z + 2) \in {DayNumber(z + 1, 12, 1), DayNumber(z + 2, 6, 1)}
  <2>1. z + 2 - 1 = z + 1
    OBVIOUS
  <2> QED
    BY <2>1 DEF opening_date_for_period
<1> QED
  BY <1>2, <1>3, <1>4, <1>5, <1>6

\* The least of the openings still to come is the one announced.
LEMMA AnnouncedIsLeast ==
  ASSUME CalendarAssumption, NEW h \in Nat, Wall(h) \in Nat, YearOf(LocalDay(h)) \in Int,
         NEW c \in Nearby(h), 24 * opening_date_for_period(c[1], c[2]) > Wall(h),
         \A g \in Nearby(h) : 24 * opening_date_for_period(g[1], g[2]) > Wall(h)
           => opening_date_for_period(c[1], c[2]) <= opening_date_for_period(g[1], g[2])
  PROVE  next_recurring_opening_date(h) = opening_date_for_period(c[1], c[2])
<1> DEFINE later == {d \in {opening_date_for_period(g[1], g[2]) : g \in Nearby(h)} : 24 * d > Wall(h)}
           first == opening_date_for_period(c[1], c[2])
<1>1. first \in later
  OBVIOUS
<1>2. \A e \in later : first <= e
  OBVIOUS
<1>3. later \subseteq Int
  <2>1. \A g \in Nearby(h) : opening_date_for_period(g[1], g[2]) \in Int
    <3> TAKE g \in Nearby(h)
    <3>1. g[1] \in {"jan_jun", "jul_dec"} /\ g[2] \in Int
      BY DEF Nearby
    <3> QED
      BY <3>1, OpeningsAreDays
  <2> QED
    BY <2>1
<1>4. \A d \in later : (\A e \in later : d <= e) => d = first
  <2> TAKE d \in later
  <2> HIDE DEF later, first
  <2> QED
    BY <1>1, <1>2, <1>3
<1>5. next_recurring_opening_date(h) = CHOOSE d \in later : \A e \in later : d <= e
  BY DEF next_recurring_opening_date
<1> HIDE DEF later, first
<1>6. (CHOOSE d \in later : \A e \in later : d <= e) = first
  BY <1>1, <1>2, <1>4, Zenon
<1>7. next_recurring_opening_date(h) = first
  BY <1>5, <1>6
<1> QED
  BY <1>7 DEF first

\* When a window opens, it is midnight of the day announced the hour before.
LEMMA OpensAsAnnounced ==
  ASSUME CalendarAssumption, YearsAssumption, WindowsAssumption, NEW h \in Nat, h < LastHour, NEW w \in Windows,
         ~is_any_recurring_period_open(h, w), is_any_recurring_period_open(h + 1, w)
  PROVE  LocalDay(h + 1) = next_recurring_opening_date(h) /\ LocalHour(h + 1) = 0
<1>1. PICK c \in Nearby(h + 1) : is_within_availability_window(h + 1, c[1], c[2], w)
  BY DEF is_any_recurring_period_open
<1>2. \A g \in Nearby(h) : ~is_within_availability_window(h, g[1], g[2], w)
  BY DEF is_any_recurring_period_open
<1>3. LastHour \in Nat /\ h <= LastHour /\ h + 1 <= LastHour /\ h + 1 \in Nat
  BY DEF CalendarAssumption
<1>4. PICK a \in Nat, b \in Nat : a = Wall(h) /\ b = Wall(h + 1) /\ (b \in {a, a + 1} \/ (b = a + 2 /\ a % 24 = 1))
  BY NextWall
<1>5. PICK d \in Nat, y \in Nat : /\ d = LocalDay(h) /\ y = YearOf(d) /\ 24 * d <= a /\ a < 24 * d + 24
                                  /\ DayNumber(y, 1, 1) <= d /\ d < DayNumber(y + 1, 1, 1)
  <2>1. /\ LocalDay(h) \in Nat /\ LocalHour(h) \in 0 .. 23 /\ a = 24 * LocalDay(h) + LocalHour(h)
        /\ YearOf(LocalDay(h)) \in Nat
        /\ DayNumber(YearOf(LocalDay(h)), 1, 1) <= LocalDay(h) /\ LocalDay(h) < DayNumber(YearOf(LocalDay(h)) + 1, 1, 1)
    BY <1>3, <1>4, LocalDays
  <2> QED
    BY <2>1
<1>6. PICK e \in Nat, z \in Nat, hour \in 0 .. 23 :
        /\ e = LocalDay(h + 1) /\ z = YearOf(e) /\ b = 24 * e + hour /\ hour = LocalHour(h + 1)
        /\ DayNumber(z, 1, 1) <= e /\ e < DayNumber(z + 1, 1, 1)
  <2>1. /\ LocalDay(h + 1) \in Nat /\ LocalHour(h + 1) \in 0 .. 23 /\ b = 24 * LocalDay(h + 1) + LocalHour(h + 1)
        /\ YearOf(LocalDay(h + 1)) \in Nat
        /\ DayNumber(YearOf(LocalDay(h + 1)), 1, 1) <= LocalDay(h + 1)
        /\ LocalDay(h + 1) < DayNumber(YearOf(LocalDay(h + 1)) + 1, 1, 1)
    BY <1>3, <1>4, LocalDays
  <2> QED
    BY <2>1
<1>7. y <= z /\ z <= y + 1
  <2>1. d <= e /\ e <= d + 364
    BY <1>4, <1>5, <1>6
  <2> QED
    BY <2>1, <1>5, <1>6, YearOrder
<1>8. c[1] \in {"jan_jun", "jul_dec"} /\ c[2] \in z - 1 .. z + 2 /\ c[2] \in Int
  BY <1>6 DEF Nearby
<1>9. PICK o \in Int : o = opening_date_for_period(c[1], c[2])
  BY <1>8, OpeningsAreDays
<1>10. PICK end \in Int : end = add_availability_duration(c[1], c[2], w)
  BY <1>8, WindowsEnd DEF WindowsAssumption
<1>11. 24 * o <= b /\ b < 24 * end
  BY <1>1, <1>4, <1>9, <1>10 DEF is_within_availability_window
<1>12. c \in Nearby(h)
  <2>1. c[2] # y + 3
    <3> SUFFICES ASSUME c[2] = y + 3 PROVE FALSE
      OBVIOUS
    <3>1. c[2] = z + 2
      BY <1>7, <1>8
    <3>2. e < o
      BY <1>6, <1>8, <1>9, <3>1, FarOpening
    <3> QED
      BY <1>6, <1>11, <3>2
  <2>2. c[2] \in y - 1 .. y + 2
    BY <1>7, <1>8, <2>1
  <2> QED
    BY <1>1, <1>5, <1>8, <2>2 DEF Nearby
<1>13. a < 24 * o
  BY <1>2, <1>4, <1>9, <1>10, <1>11, <1>12 DEF is_within_availability_window
<1>14. b = 24 * o /\ e = o /\ hour = 0
  BY <1>4, <1>5, <1>6, <1>11, <1>13
<1>15. next_recurring_opening_date(h) = opening_date_for_period(c[1], c[2])
  <2>1. ASSUME NEW g \in Nearby(h), 24 * opening_date_for_period(g[1], g[2]) > Wall(h)
        PROVE  opening_date_for_period(c[1], c[2]) <= opening_date_for_period(g[1], g[2])
    <3>1. g[1] \in {"jan_jun", "jul_dec"} /\ g[2] \in Int
      BY <1>5 DEF Nearby
    <3>2. PICK p \in Int : p = opening_date_for_period(g[1], g[2])
      BY <3>1, OpeningsAreDays
    <3>3. 24 * p > a
      BY <1>4, <2>1, <3>2
    <3>4. o <= p
      BY <1>4, <1>14, <3>3
    <3> QED
      BY <3>2, <3>4, <1>9
  <2>2. Wall(h) \in Nat /\ YearOf(LocalDay(h)) \in Int /\ 24 * opening_date_for_period(c[1], c[2]) > Wall(h)
    BY <1>4, <1>5, <1>9, <1>13
  <2> QED
    BY <1>12, <2>1, <2>2, AnnouncedIsLeast
<1> QED
  BY <1>6, <1>9, <1>14, <1>15

\* A date up to a year ahead that can be booked is never reported as closed.
LEMMA BookableIsOpen ==
  ASSUME CalendarAssumption, YearsAssumption, NEW h \in Nat, h < LastHour, NEW w, NEW months \in 0 .. 12,
         is_first_occurrence_in_availability_window(h, LocalDay(h) + 30 * months, w)
  PROVE  is_any_recurring_period_open(h, w)
<1>1. LastHour \in Nat /\ h <= LastHour
  BY DEF CalendarAssumption
<1>2. PICK d \in Nat, y \in Nat : /\ d = LocalDay(h) /\ y = YearOf(d) /\ d + 360 < DayNumber(LastYear + 1, 1, 1)
                                  /\ DayNumber(y, 1, 1) <= d /\ d < DayNumber(y + 1, 1, 1)
  <2>1. /\ LocalDay(h) \in Nat /\ YearOf(LocalDay(h)) \in Nat /\ LocalDay(h) + 360 < DayNumber(LastYear + 1, 1, 1)
        /\ DayNumber(YearOf(LocalDay(h)), 1, 1) <= LocalDay(h) /\ LocalDay(h) < DayNumber(YearOf(LocalDay(h)) + 1, 1, 1)
    BY <1>1, LocalDays
  <2> QED
    BY <2>1
<1>3. PICK first \in Nat : first = d + 30 * months
  BY <1>2
<1>4. first < DayNumber(LastYear + 1, 1, 1) /\ d <= first /\ first <= d + 364
  <2>1. LastYear + 1 \in Int
    BY DEF CalendarAssumption
  <2>2. DayNumber(LastYear + 1, 1, 1) \in Int
    BY <2>1, DatesAre
  <2> QED
    BY <1>2, <1>3, <2>2
<1>5. PICK z \in Int : /\ z = YearOf(first) /\ DayNumber(z, 1, 1) <= first /\ first < DayNumber(z + 1, 1, 1)
  <2>1. YearOf(first) \in FirstYear .. LastYear
    BY <1>4, YearFound
  <2>2. YearOf(first) \in Int
    BY <2>1 DEF CalendarAssumption
  <2> QED
    BY <1>4, <2>2, YearFound
<1>6. y <= z /\ z <= y + 1
  BY <1>2, <1>4, <1>5, YearOrder
<1>7. use_period_for_date(first) \in {"jan_jun", "jul_dec"}
  BY DEF use_period_for_date
<1>8. <<use_period_for_date(first), z>> \in Nearby(h)
  <2>1. z \in y - 1 .. y + 2
    BY <1>6
  <2> QED
    BY <1>2, <1>7, <2>1 DEF Nearby
<1>9. is_within_availability_window(h, use_period_for_date(first), z, w)
  BY <1>2, <1>3, <1>5 DEF is_first_occurrence_in_availability_window
<1> QED
  BY <1>8, <1>9, Zenon DEF is_any_recurring_period_open

\* What the application says of the windows is true and is said in time: what
\* can be booked is not reported as closed, and a window opens at midnight of
\* the day announced.  For every calendar, clock change and window setting
\* (get_window_status, domain/facility/recurring.py).
THEOREM OpeningIsAnnouncedHolds == CalendarSpec => OpeningIsAnnounced
<1> DEFINE Announced == now' # now => \A w \in Windows :
       /\ (~is_any_recurring_period_open(now, w) /\ is_any_recurring_period_open(now', w))
            => (LocalDay(now') = next_recurring_opening_date(now) /\ LocalHour(now') = 0)
       /\ (\E months \in 0 .. 12 : is_first_occurrence_in_availability_window(now, LocalDay(now) + 30 * months, w))
            => is_any_recurring_period_open(now, w)
<1>1. CalendarInit => now \in Nat
  BY CalendarAssumption DEF CalendarInit, CalendarAssumption
<1>2. now \in Nat /\ [Tick]_now => (now \in Nat)'
  BY DEF Tick
<1>3. now \in Nat /\ [Tick]_now => [Announced]_now
  <2> SUFFICES ASSUME now \in Nat, Tick PROVE Announced
    OBVIOUS
  <2>1. now' = now + 1 /\ now < LastHour
    BY DEF Tick
  <2>2. ASSUME NEW w \in Windows, ~is_any_recurring_period_open(now, w), is_any_recurring_period_open(now', w)
        PROVE  LocalDay(now') = next_recurring_opening_date(now) /\ LocalHour(now') = 0
    BY <2>1, <2>2, CalendarAssumption, YearsAssumption, WindowsAssumption, OpensAsAnnounced
  <2>3. ASSUME NEW w \in Windows, NEW months \in 0 .. 12,
               is_first_occurrence_in_availability_window(now, LocalDay(now) + 30 * months, w)
        PROVE  is_any_recurring_period_open(now, w)
    BY <2>1, <2>3, CalendarAssumption, YearsAssumption, BookableIsOpen
  <2> QED
    BY <2>2, <2>3
<1> QED
  BY <1>1, <1>2, <1>3, PTL DEF CalendarSpec, OpeningIsAnnounced
=============================================================================
