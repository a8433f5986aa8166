------------------------------ MODULE MCBlackout ------------------------------
(***************************************************************************)
(* A Personal Series of two occurrences and the Operators who close its    *)
(* room on the second day, or on both.                                     *)
(***************************************************************************)
EXTENDS FacilityBooking

BlackoutRequestOf == [b \in Bookings |-> "class"]

BlackoutLines == [b \in Bookings |->
    {IF b = "class1" THEN [room |-> 1, start |-> 1, end |-> 2]
                     ELSE [room |-> 1, start |-> 9, end |-> 11]}]

BlackoutWeekOf == [b \in Bookings |-> IF b = "class1" THEN 1 ELSE 2]

BlackoutBooker == [r \in Requests |-> "ruth"]

RentalOnly == [r \in Requests |-> NoMinistry]

ClosedOn == [shape \in Shapes |->
    IF shape = "second" THEN {"class2"} ELSE {"class1", "class2"}]

SameKind == Shapes \X Shapes
=============================================================================
