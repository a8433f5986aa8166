------------------------------- MODULE Timetable -------------------------------
(***************************************************************************)
(* Rooms' slot templates, Blackouts and Bookings on one facility-local     *)
(* day, and the two computations over them: the timetable a member is      *)
(* shown (availability_service, timetable_projection) and the checks that  *)
(* decide whether a create is accepted (opening_hours,                     *)
(* room_blackout_repository, one_time_override).                           *)
(*                                                                         *)
(* Times are ticks of the day; a cell of the timetable is CellTicks long.  *)
(* The day has no clock change.  Transactions that occupy a room hold its  *)
(* lock, so a create is one step here; their interleavings are             *)
(* BookingCreate's.                                                        *)
(***************************************************************************)
EXTENDS Integers, FiniteSets

CONSTANTS Cells,       \* cells of the day
          CellTicks,   \* ticks of a cell
          Days,        \* weekdays a template may name
          Today,       \* the weekday of the day shown
          Templates,   \* template ids, numbered in the order of start_time
          TemplateOf,  \* room, days, start, end and slot_duration of a template
          Closings,    \* Blackouts: room, start, end; NoRoom is campus-wide
          NoRoom,
          Plans,       \* the Bookings members may ask for: lines and ministry
          NoMinistry

ShownRooms == {TemplateOf[t].room : t \in Templates}
Ticks == 0 .. Cells * CellTicks

ASSUME TimetableAssumption ==
  /\ Cells \in Nat /\ CellTicks \in Nat \ {0} /\ Today \in Days /\ Templates \subseteq Nat
  /\ \A t \in Templates :
       LET x == TemplateOf[t] IN x.start \in Ticks /\ x.end \in Ticks /\ x.days \subseteq Days
  /\ \A s, t \in Templates : s < t /\ TemplateOf[s].room = TemplateOf[t].room => TemplateOf[s].start <= TemplateOf[t].start
  /\ \A c \in Closings : c.start \in Ticks /\ c.end \in Ticks /\ c.start < c.end   \* _validate_command
  /\ \A p \in Plans : p.lines # {} /\ \A l \in p.lines : l.start \in Nat /\ l.end \in Nat

VARIABLES
  template,  \* FacilityRoomSlotTemplate rows: "none", "active", "inactive", "deleted", "off_deleted"
  closed,    \* active FacilityRoomBlackout rows
  booked,    \* the Bookings that occupy their rooms
  clock      \* now_utc

timetableVars == <<template, closed, booked, clock>>

intervals_overlap(a, b) == a.start < b.end /\ a.end > b.start

-----------------------------------------------------------------------------
(* Slot templates.                                                         *)

IsActive(t) == template[t] = "active"

list_active_for_day(room) ==
  {t \in Templates : IsActive(t) /\ TemplateOf[t].room = room /\ Today \in TemplateOf[t].days}

_validate_time_window(t) == TemplateOf[t].start < TemplateOf[t].end /\ TemplateOf[t].slot_duration > 0

\* days_to_mask, masks_share_day: a mask is a set of days.
_assert_no_overlap(t) ==
  \A u \in Templates \ {t} :
    IsActive(u) /\ TemplateOf[u].room = TemplateOf[t].room
      => \/ TemplateOf[u].days \cap TemplateOf[t].days = {}
         \/ ~intervals_overlap(TemplateOf[t], TemplateOf[u])

create_template(t, active) ==
  /\ template[t] = "none"
  /\ _validate_time_window(t) /\ TemplateOf[t].days # {}
  /\ active => _assert_no_overlap(t)
  /\ template' = [template EXCEPT ![t] = IF active THEN "active" ELSE "inactive"]
  /\ UNCHANGED <<closed, booked, clock>>

\* The row keeps its shape here; an edit of the times is another template id.
update_template(t, active) ==
  /\ template[t] \in {"active", "inactive"}
  /\ _validate_time_window(t)
  /\ active => _assert_no_overlap(t)
  /\ template' = [template EXCEPT ![t] = IF active THEN "active" ELSE "inactive"]
  /\ UNCHANGED <<closed, booked, clock>>

\* get_by_id also finds deleted rows, so that a row may be deleted twice.
delete_template(t, permanent) ==
  /\ template[t] # "none"
  /\ template' = [template EXCEPT ![t] =
       IF permanent THEN "none" ELSE IF @ \in {"active", "deleted"} THEN "deleted" ELSE "off_deleted"]
  /\ UNCHANGED <<closed, booked, clock>>

\* No overlap check: the restored template may overlap one created meanwhile.
restore_template(t) ==
  /\ template[t] \in {"deleted", "off_deleted"}
  /\ template' = [template EXCEPT ![t] = IF @ = "deleted" THEN "active" ELSE "inactive"]
  /\ UNCHANGED <<closed, booked, clock>>

-----------------------------------------------------------------------------
(* What is shown.                                                          *)

\* A list of windows is the set of ticks it covers: windows that touch are one.
Covered(i) == i.start .. i.end - 1

merge_open_windows(room) == UNION {Covered(TemplateOf[t]) : t \in list_active_for_day(room)}

list_active_for_room_day(room) == {c \in closed : c.room \in {room, NoRoom}}

\* The merged windows, cut by every Blackout of the room or the campus.
_build_open_windows(room) == merge_open_windows(room) \ UNION {Covered(c) : c \in list_active_for_room_day(room)}

\* envelope_interval: the header of a Booking spans all its lines.
Envelope(plan) ==
  [start |-> CHOOSE s \in {l.start : l \in plan.lines} : \A l \in plan.lines : s <= l.start,
   end |-> CHOOSE e \in {l.end : l \in plan.lines} : \A l \in plan.lines : l.end <= e]

\* The Bookings with a slot in the room that overlaps the span; callers are
\* given the times of the header, not of the slot.
list_occupying_slots(room, span) ==
  {p \in booked : \E l \in p.lines : l.room = room /\ intervals_overlap(l, span)}

OccupyingSpans(room) ==
  LET day == [start |-> 0, end |-> Cells * CellTicks] IN
  {[span |-> Envelope(p), ministry |-> p.ministry] : p \in list_occupying_slots(room, day)}

day_cell_bounds == [i \in 1 .. Cells |-> [start |-> (i - 1) * CellTicks, end |-> i * CellTicks]]

\* Mutation: an occupancy counts in the cell it starts in.
classify_cellByStart(room, cell, priority) ==
  LET parts == Covered(cell) \cap _build_open_windows(room)
      overlapping == {o \in OccupyingSpans(room) : cell.start <= o.span.start /\ o.span.start < cell.end} IN
  IF parts = {} THEN "closed" ELSE IF overlapping = {} THEN "available" ELSE "unavailable"

classify_cell(room, cell, priority) ==
  LET parts == Covered(cell) \cap _build_open_windows(room)   \* open_portion_in_cell, clip_interval
      overlapping == {o \in OccupyingSpans(room) : Covered(o.span) \cap parts # {}}
      overridable == {o \in overlapping : o.ministry = NoMinistry /\ priority /\ o.span.start > clock} IN
  IF parts = {} THEN "closed"
  ELSE IF overlapping = {} THEN "available"
  ELSE IF overridable = overlapping THEN "override" ELSE "unavailable"

\* The runs of cells with one of the given states.
merge_contiguous_free_slots(room, states, priority) ==
  LET shown == {i \in 1 .. Cells : classify_cell(room, day_cell_bounds[i], priority) \in states}
      all(a, b) == a .. b \subseteq shown IN
  {[start |-> day_cell_bounds[r[1]].start, end |-> day_cell_bounds[r[2]].end] :
     r \in {q \in (1 .. Cells) \X (1 .. Cells) :
              q[1] <= q[2] /\ all(q[1], q[2]) /\ ~all(q[1] - 1, q[2]) /\ ~all(q[1], q[2] + 1)}}

-----------------------------------------------------------------------------
(* What is accepted.                                                       *)

\* The template whose slot duration a Booking must last: the first that
\* contains its start.
_template_containing_start(room, at) ==
  {t \in list_active_for_day(room) :
     /\ TemplateOf[t].start <= at /\ at < TemplateOf[t].end
     /\ \A u \in list_active_for_day(room) : u < t => ~(TemplateOf[u].start <= at /\ at < TemplateOf[u].end)}

member_interval_within_opening_hours(room, i) ==
  /\ i.start < i.end
  /\ \E t \in _template_containing_start(room, i.start) : i.end - i.start >= TemplateOf[t].slot_duration
  /\ Covered(i) \subseteq merge_open_windows(room)

has_blackout_overlap(room, i) == \E c \in list_active_for_room_day(room) : intervals_overlap(i, c)

\* evaluate_one_time_occupancy: the Bookings a priority Ministry displaces and
\* those that make a conflict.
Targets(room, i, priority) ==
  {p \in list_occupying_slots(room, i) : p.ministry = NoMinistry /\ priority /\ Envelope(p).start > clock}
Conflicts(room, i, priority) == list_occupying_slots(room, i) \ Targets(room, i, priority)

LineAccepted(room, i, priority) ==
  /\ Conflicts(room, i, priority) = {}
  /\ ~has_blackout_overlap(room, i)
  /\ member_interval_within_opening_hours(room, i)

create_booking(plan, priority) ==
  /\ plan \notin booked
  /\ priority => plan.ministry # NoMinistry
  /\ \A l \in plan.lines : LineAccepted(l.room, l, priority)
  /\ booked' = (booked \ UNION {Targets(l.room, l, priority) : l \in plan.lines}) \cup {plan}
  /\ UNCHANGED <<template, closed, clock>>

cancel_booking(plan) == plan \in booked /\ booked' = booked \ {plan} /\ UNCHANGED <<template, closed, clock>>

\* A Blackout is saved, edited to inactive or deleted.  Its effect on the
\* Series occurrences inside it is RoomBlackout's; One-time Bookings stay.
save_blackout(c) ==
  /\ c \notin closed
  /\ \A d \in closed : (c.room \in {d.room, NoRoom} \/ d.room = NoRoom) => ~intervals_overlap(c, d)
  /\ closed' = closed \cup {c}
  /\ UNCHANGED <<template, booked, clock>>
lift_blackout(c) == c \in closed /\ closed' = closed \ {c} /\ UNCHANGED <<template, booked, clock>>

ClockTick == clock < Cells * CellTicks /\ clock' = clock + CellTicks /\ UNCHANGED <<template, closed, booked>>

TimetableInit ==
  /\ template = [t \in Templates |-> "none"]
  /\ closed = {} /\ booked = {} /\ clock = 0

TimetableNext ==
  \/ \E t \in Templates :
       \/ \E yes \in BOOLEAN : create_template(t, yes) \/ update_template(t, yes) \/ delete_template(t, yes)
       \/ restore_template(t)
  \/ \E c \in Closings : save_blackout(c) \/ lift_blackout(c)
  \/ \E p \in Plans : cancel_booking(p) \/ \E priority \in BOOLEAN : create_booking(p, priority)
  \/ ClockTick

TimetableSpec == TimetableInit /\ [][TimetableNext]_timetableVars

-----------------------------------------------------------------------------
(* Properties.                                                             *)

\* Time shown as free can be booked, and time shown to a priority Ministry as
\* free or displaceable can be booked by it: every span inside a run of such
\* cells that lies in open time and lasts as long as the template at its start
\* demands is accepted by create_booking, whatever templates, Blackouts and
\* Bookings came and went, overlapping restored templates included
\* (get_rooms_availability against _raise_if_room_closed and
\* evaluate_one_time_occupancy).
OfferedIsBookable ==
  \A room \in {r \in ShownRooms : list_active_for_day(r) # {}}, priority \in BOOLEAN :
    LET open == _build_open_windows(room) IN
    \A run \in merge_contiguous_free_slots(room, {"available", "override"}, priority) :
      \A i \in [start : run.start .. run.end, end : run.start .. run.end] :
        /\ i.start < i.end
        /\ Covered(i) \subseteq open
        /\ \A t \in _template_containing_start(room, i.start) : i.end - i.start >= TemplateOf[t].slot_duration
        => LineAccepted(room, i, priority)
=============================================================================
