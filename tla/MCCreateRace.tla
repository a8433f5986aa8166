----------------------------- MODULE MCCreateRace -----------------------------
(***************************************************************************)
(* Create requests racing for two rooms: a member's One-time Rental, a     *)
(* Priority Ministry's One-time Booking and a Priority Ministry's Series.  *)
(***************************************************************************)
EXTENDS FacilityBooking

L(room, start, end) == [room |-> room, start |-> start, end |-> end]

RaceRequestOf == [b \in Bookings |->
    CASE b = "hall" -> "rental"
      [] b = "worship1" -> "worship"
      [] b \in {"choir1", "choir2"} -> "choir"]

RaceLines == [b \in Bookings |->
    CASE b = "hall" -> {L(1, 1, 3), L(2, 1, 3)}
      [] b = "worship1" -> {L(2, 2, 4)}
      [] b = "choir1" -> {L(1, 2, 3)}
      [] b = "choir2" -> {L(1, 9, 10), L(2, 9, 10)}]

RaceWeekOf == [b \in Bookings |-> IF b = "choir2" THEN 2 ELSE 1]

RaceBooker == [r \in Requests |-> IF r = "rental" THEN "ruth" ELSE "paul"]

RaceMinistryOf == [r \in Requests |->
    IF r = "rental" THEN NoMinistry ELSE "music"]

NothingCovered == [shape \in Shapes |-> {}]
=============================================================================
