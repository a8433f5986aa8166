------------------------------ MODULE RoomLedger ------------------------------
(***************************************************************************)
(* What the booking services promise about a room, without transactions,   *)
(* locks, payment holds or clocks: a ledger of reservations in which a     *)
(* request reserves everything it asks for in one atomic step, displaces   *)
(* in the same step what stands in its way, and what was once released     *)
(* never comes back.                                                       *)
(***************************************************************************)
CONSTANTS Requests, Bookings, RequestOf, Rental, Conflict

VARIABLES
    held,   \* the Bookings that occupy their rooms
    gone    \* the Bookings that were created and occupy nothing any more

LedgerInit == held = {} /\ gone = {}

Fresh(b) == b \notin held \cup gone

\* A request reserves the Bookings B in place of the Rental Bookings in D; if
\* its payment hold is over before it is written, it only releases D.
Reserve(r, B, D) ==
    /\ B # {}
    /\ \A b \in B : RequestOf[b] = r /\ Fresh(b)
    /\ D \subseteq held
    /\ D # {} => B \cap Rental = {} /\ D \subseteq Rental
    /\ \A b \in B, c \in held : <<b, c>> \in Conflict => c \in D
    /\ \/ held' = (held \ D) \cup B /\ gone' = gone \cup D
       \/ held' = held \ D /\ gone' = gone \cup D \cup B

\* Cancellation, expiry of a payment hold.
Release(D) ==
    /\ D \subseteq held
    /\ D # {}
    /\ held' = held \ D
    /\ gone' = gone \cup D

LedgerNext ==
    \/ \E r \in Requests : \E B, D \in SUBSET Bookings : Reserve(r, B, D)
    \/ \E D \in SUBSET Bookings : Release(D)

LedgerSpec == LedgerInit /\ [][LedgerNext]_<<held, gone>>

=============================================================================
