----------------------------- MODULE MCSeriesLife -----------------------------
(***************************************************************************)
(* The life of a member's Personal Series of two occurrences, beside a     *)
(* One-time Booking that wants the place of the second one: a Rental or a  *)
(* Priority Ministry's.                                                    *)
(***************************************************************************)
EXTENDS FacilityBooking

L(room, start, end) == [room |-> room, start |-> start, end |-> end]

LifeRequestOf == [b \in Bookings |-> IF b = "evening1" THEN "evening" ELSE "class"]

LifeLines == [b \in Bookings |->
    CASE b = "class1" -> {L(1, 1, 2)}
      [] b = "class2" -> {L(1, 9, 11)}
      [] b = "evening1" -> {L(1, 10, 12)}]

TwoRoomLines == [b \in Bookings |->
    CASE b = "class1" -> {L(1, 1, 2)}
      [] b = "class2" -> {L(1, 9, 11), L(2, 9, 11)}
      [] b = "evening1" -> {L(1, 10, 12), L(2, 10, 12)}]

LifeWeekOf == [b \in Bookings |-> IF b = "class1" THEN 1 ELSE 2]

LifeBooker == [r \in Requests |-> IF r = "class" THEN "ruth" ELSE "paul"]

RentalOnly == [r \in Requests |-> NoMinistry]

EveningIsMinistry == [r \in Requests |-> IF r = "evening" THEN "music" ELSE NoMinistry]

NothingCovered == [shape \in Shapes |-> {}]
=============================================================================
