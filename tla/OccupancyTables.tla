--------------------------- MODULE OccupancyTables ---------------------------
(***************************************************************************)
(* The rows of the facility schema that decide who occupies a room, and    *)
(* the predicates every service evaluates on them.                         *)
(*                                                                         *)
(* A row is identified before it exists: a create request owns the Booking *)
(* ids it would insert, and a Booking that was not inserted yet has status *)
(* "absent".  What an insert fixes for good (the room lines, the Booker,   *)
(* the Ministry, the Series) is therefore a constant; what later           *)
(* transactions rewrite (status, slot status, payment hold) is a variable. *)
(*                                                                         *)
(* The database runs at READ COMMITTED: the variables below hold the       *)
(* committed rows, which is what every other session reads.  A transaction *)
(* that rewrites rows in several statements keeps the rows it has updated  *)
(* and not yet committed in dirty[w]; PostgreSQL's row locks make any      *)
(* other writer of such a row wait for it.                                 *)
(***************************************************************************)
EXTENDS Integers, FiniteSets

CONSTANTS
    Rooms,            \* rooms, numbered in the order lock_rooms sorts them
    OneTimeRequests,  \* One-time Booking create requests
    SeriesRequests,   \* Recurring Series create requests; also the Series ids
    Bookings,         \* ids of Bookings and of Series occurrences
    RequestOf,        \* the request that inserts a Booking
    Lines,            \* the room lines of a Booking: room, start, end
    WeekOf,           \* the facility-local week a Booking starts in
    Booker,           \* the Booker a request books for
    Ministries,
    MinistryOf,       \* the Ministry of a request, or NoMinistry
    NoMinistry,
    Edited,           \* bound: the Ministries that administrators edit
    Blackouts,        \* ids of Blackouts
    Shapes,           \* what a Blackout may close: a scope, days and hours
    Covers,           \* the Bookings with a line inside a Shape
    NoShape,
    NoHold,           \* payment_hold_expires_at IS NULL
    Writers,          \* transactions that rewrite rows in several statements
    MaxTime           \* bound on the clock

\* create_booking and create_series calls
Requests == OneTimeRequests \cup SeriesRequests

Line == [room : Rooms, start : Nat, end : Nat]

Proposed(r) == {b \in Bookings : RequestOf[b] = r}

ASSUME RoomsAssumption == Rooms \subseteq Nat

ASSUME RequestsAssumption ==
    /\ OneTimeRequests \cap SeriesRequests = {}
    /\ RequestOf \in [Bookings -> Requests]
    /\ \A r \in Requests : Proposed(r) # {}
    /\ \A r \in OneTimeRequests : \E b \in Bookings : Proposed(r) = {b}

ASSUME LinesAssumption ==
    /\ Lines \in [Bookings -> SUBSET Line]
    /\ \A b \in Bookings : /\ Lines[b] # {}
                           /\ \A l \in Lines[b] : l.start < l.end

ASSUME NullAssumption == NoHold \notin Nat /\ NoMinistry \notin Ministries

ASSUME MinistriesAssumption ==
    MinistryOf \in [Requests -> Ministries \cup {NoMinistry}] /\ Edited \subseteq Ministries

ASSUME BlackoutsAssumption ==
    Covers \in [Shapes -> SUBSET Bookings] /\ NoShape \notin Shapes

ASSUME RowIdsAssumption == Bookings \cap SeriesRequests = {}

ASSUME ClockAssumption == MaxTime \in Nat

VARIABLES
    booking,      \* facility.booking: status, and whether its slots are confirmed
    series,       \* facility.booking_series: status and payment hold
    ministry,     \* what the Ministry row and its stewards allow a request
    blackout,     \* facility.room_blackout: state, deletion mark and Shape
    now,          \* the one clock shared by the workers and the database
    lapsed,       \* history: the Series whose payment hold has run out
    dirty         \* rows cancelled by a transaction that has not committed

tableVars == <<booking, series, ministry, blackout, now, lapsed, dirty>>

LiveStatus == {"pending_payment", "confirmed"}

BookingStatus == {"absent", "cancelled", "overridden"} \cup LiveStatus

SeriesStatus == {"absent", "cancelled"} \cup LiveStatus

\* inactive: not Active, or the Booker no longer stewards it
MinistryState == {"priority", "plain", "inactive"}

\* is_active, and whether the row exists at all
BlackoutState == {"absent", "active", "inactive"}

BlackoutRow == [state : BlackoutState, deleted : BOOLEAN, shape : Shapes \cup {NoShape}]

NoRow == [state |-> "absent", deleted |-> FALSE, shape |-> NoShape]

TablesTypeOK ==
    /\ booking \in [Bookings -> [status : BookingStatus, slots : BOOLEAN]]
    /\ series \in [SeriesRequests -> [status : SeriesStatus, hold : Nat \cup {NoHold}]]
    /\ ministry \in [Ministries -> MinistryState]
    /\ blackout \in [Blackouts -> BlackoutRow]
    /\ now \in Nat
    /\ lapsed \subseteq SeriesRequests
    /\ dirty \in [Writers -> SUBSET (Bookings \cup SeriesRequests)]

TablesInit ==
    /\ booking = [b \in Bookings |-> [status |-> "absent", slots |-> FALSE]]
    /\ series = [s \in SeriesRequests |-> [status |-> "absent", hold |-> NoHold]]
    /\ ministry \in [Ministries -> {"priority", "plain"}]
    /\ blackout = [k \in Blackouts |-> NoRow]
    /\ now = 0
    /\ lapsed = {}
    /\ dirty = [w \in Writers |-> {}]

-----------------------------------------------------------------------------
(* Rows and clocks.                                                        *)

IsRental(b) == MinistryOf[RequestOf[b]] = NoMinistry

StartOf(b) == CHOOSE t \in {l.start : l \in Lines[b]} :
                 \A u \in {l.start : l \in Lines[b]} : t <= u

\* is_pending_payment_hold_active: the deadline itself is exclusive.
HoldActive(hold, t) == hold = NoHold \/ hold > t

\* The outer join on booking_series: a One-time Booking has no hold.
HoldOf(b) == IF RequestOf[b] \in SeriesRequests
             THEN series[RequestOf[b]].hold ELSE NoHold

\* _active_occupancy_clause, with t the database's now().
ActiveOccupancy(b, t) ==
    \/ booking[b].status = "confirmed"
    \/ booking[b].status = "pending_payment" /\ HoldActive(HoldOf(b), t)

Occupies(b, t) == booking[b].slots /\ ActiveOccupancy(b, t)

Overlap(k, l) == k.room = l.room /\ k.start < l.end /\ l.start < k.end

Collide(b, c) == \E k \in Lines[b], l \in Lines[c] : Overlap(k, l)

\* The occurrences of a Series lie on different days, each within its day.
ASSUME OccurrencesAssumption ==
    \A b, c \in Bookings : b # c /\ RequestOf[b] = RequestOf[c] => ~Collide(b, c)

\* list_occupying_slots over every line of b.
Occupants(b, t) == {c \in Bookings : Occupies(c, t) /\ Collide(b, c)}

\* _is_cancellable
Cancellable(b, t) == booking[b].status \in LiveStatus /\ StartOf(b) > t

InEffect(k) == blackout[k].state = "active" /\ ~blackout[k].deleted

\* has_blackout_overlap over every line of b.
InBlackout(b) == \E k \in Blackouts : InEffect(k) /\ b \in Covers[blackout[k].shape]

RoomsOf(r) == {l.room : l \in UNION {Lines[b] : b \in Proposed(r)}}

\* An UPDATE of these rows has to wait for no other open transaction.
RowsFree(rows, w) == \A v \in Writers \ {w} : dirty[v] \cap rows = {}

Expired(t) == {s \in SeriesRequests : series[s].hold # NoHold /\ series[s].hold <= t}

-----------------------------------------------------------------------------
(* Cancelled rows.                                                         *)

\* cancel_booking and update_series, by id, whatever the rows say by now; a
\* cancellation clears the hold of the Series, the sweep keeps it.
CancelledBooking(rows) ==
    [b \in Bookings |-> IF b \in rows THEN [status |-> "cancelled", slots |-> FALSE]
                        ELSE booking[b]]

CancelledSeries(rows, clear) ==
    [s \in SeriesRequests |->
        IF s \in rows THEN [status |-> "cancelled",
                            hold |-> IF clear THEN NoHold ELSE series[s].hold]
        ELSE series[s]]

-----------------------------------------------------------------------------
(* Time and the Ministry's standing change under everybody's feet.         *)

Tick ==
    /\ now < MaxTime
    /\ now' = now + 1
    /\ lapsed' = lapsed \cup Expired(now + 1)
    /\ UNCHANGED <<booking, series, ministry, blackout, dirty>>

\* An administrator edits has_priority_booking, the status or the stewards.
EditMinistry(m) ==
    /\ m \in Edited
    /\ \E state \in MinistryState \ {ministry[m]} :
          ministry' = [ministry EXCEPT ![m] = state]
    /\ UNCHANGED <<booking, series, blackout, now, lapsed, dirty>>

=============================================================================
