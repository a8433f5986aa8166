--------------------------- MODULE FacilityBooking ---------------------------
(***************************************************************************)
(* Creation of Bookings and what happens to them afterwards, running       *)
(* concurrently on the shared tables: create requests, payment             *)
(* confirmations, cancellations, the expiry sweep, Blackouts, the clock    *)
(* and the administrators who edit a Ministry.                             *)
(***************************************************************************)
EXTENDS BookingCreate, SeriesLifecycle, RoomBlackout

ASSUME WritersAssumption == Operators \cap (Cancellers \cup Workers) = {}

vars == <<tableVars, createVars, lifecycleVars, closing>>

TypeOK == TablesTypeOK /\ CreateTypeOK /\ LifecycleTypeOK /\ BlackoutTypeOK

Init == TablesInit /\ CreateInit /\ LifecycleInit /\ BlackoutInit

Environment ==
    /\ Tick \/ \E m \in Ministries : EditMinistry(m)
    /\ UNCHANGED <<createVars, lifecycleVars, closing>>

Creation == (\E r \in Requests : Create(r)) /\ UNCHANGED <<lifecycleVars, closing>>

Lifecycle ==
    /\ \/ \E c \in Confirmers : Confirm(c)
       \/ \E c \in Cancellers : Cancel(c)
       \/ \E w \in Workers : Sweep(w)
       \/ \E b \in Bookings : CancelBooking(b)
    /\ UNCHANGED <<createVars, closing>>

Closures ==
    /\ \/ \E a \in Operators : CloseRooms(a)
       \/ \E k \in Blackouts : DeleteBlackout(k) \/ RestoreBlackout(k)
    /\ UNCHANGED <<createVars, lifecycleVars>>

Next == Environment \/ Creation \/ Lifecycle \/ Closures

Spec == Init /\ [][Next]_vars

-----------------------------------------------------------------------------
(* Fairness.  A request that was sent is run to its end unless it fails; a *)
(* worker sweeps at startup and every fifteen minutes; a cancellation      *)
(* commits or rolls back.  Strong fairness stands for PostgreSQL's lock    *)
(* queues: who waits for a row is served before later comers.              *)

RequestRuns(r) == Proceed(r) /\ UNCHANGED <<lifecycleVars, closing>>

SweepRuns(w) ==
    /\ \/ SweepBegin(w)
       \/ \E s \in SeriesRequests : SweepRead(w, s)
       \/ SweepWrite(w)
       \/ SweepCommit(w)
    /\ UNCHANGED <<createVars, closing>>

CancelEnds(c) == (CancelCommit(c) \/ CancelAbort(c)) /\ UNCHANGED <<createVars, closing>>

Fairness ==
    /\ \A r \in Requests : SF_vars(RequestRuns(r))
    /\ \A w \in Workers : SF_vars(SweepRuns(w))
    /\ \A c \in Cancellers : WF_vars(CancelEnds(c))

FairSpec == Spec /\ Fairness

-----------------------------------------------------------------------------
(* Safety.                                                                 *)

\* A Booking that occupies its rooms by right: a Series whose payment hold has
\* run out has lost its claim, whoever confirms it afterwards.
Held(b) == Occupies(b, now) /\ RequestOf[b] \notin lapsed

\* No room is promised twice.  Two creates of any kind, each evaluated under
\* its own room locks, never leave two Bookings on the same room and time,
\* whatever confirmations, cancellations and sweeps run in between.
NoDoubleBooking ==
    \A b, c \in Bookings : b # c /\ Held(b) /\ Held(c) => ~Collide(b, c)

\* What a create decided under the room locks is still true when it writes:
\* everything that stands in its way is among the targets it will displace.
EvaluationHolds ==
    \A r \in Requests : pc[r] = "evaluated" =>
        \A b \in Kept(r), c \in Bookings :
            Held(c) /\ Collide(b, c) => c \in targets[r]

\* What makes the two inductive: an evaluated request holds every room it
\* writes to, its transaction time is not ahead of the clock, and the history
\* of lapsed holds misses none.
LocksCoverRooms ==
    \A r \in Requests : pc[r] = "evaluated" => \A m \in RoomsOf(r) : lock[m] = r

TransactionTimeIsPast == \A r \in Requests : txNow[r] <= now

LapsedIsComplete == Expired(now) \subseteq lapsed

OccupancyInv ==
    /\ TypeOK
    /\ LocksCoverRooms
    /\ TransactionTimeIsPast
    /\ LapsedIsComplete
    /\ EvaluationHolds
    /\ NoDoubleBooking

\* A displaced Rental never becomes live again and none of its slots does,
\* neither by a payment confirmation of its Series nor by any other write.
DisplacedStaysReleased ==
    \A e \in overrideLog : /\ booking[e.displaced].status \notin LiveStatus
                            /\ ~booking[e.displaced].slots

\* The after-commit callback tells a Booker about a displacement only if the
\* override log records it.
OverrideMailIsTrue ==
    \A m \in overrideMail :
        \E e \in overrideLog : RequestOf[e.by] = m[1] /\ e.displaced = m[2]

\* A live Series and its live occurrences agree on whether they are paid.
OccurrenceMatchesPayment ==
    \A s \in SeriesRequests, b \in Bookings :
        (RequestOf[b] = s /\ {series[s].status, booking[b].status} \subseteq LiveStatus)
            => series[s].status = booking[b].status

\* A Series that was cancelled in time keeps no live occurrence in the future.
CancelledSeriesIsReleased ==
    \A s \in SeriesRequests \ lapsed : series[s].status = "cancelled" =>
        \A b \in Proposed(s) : booking[b].status \in LiveStatus => StartOf(b) <= now

\* The sweep neither cancels a Series nor tells its Booker so before the
\* deadline of its payment hold.
SweptOnlyAfterDeadline ==
    /\ expiryMail \subseteq lapsed
    /\ \A w \in Workers : dirty[w] \cap SeriesRequests \subseteq lapsed

-----------------------------------------------------------------------------
(* Refinement: the services implement the ledger.                          *)

Created == {b \in Bookings : booking[b].status # "absent"}

HeldSet == {b \in Bookings : Held(b)}

Ledger == INSTANCE RoomLedger
          WITH Rental <- {b \in Bookings : IsRental(b)},
               Conflict <- {p \in Bookings \X Bookings : Collide(p[1], p[2])},
               held <- HeldSet,
               gone <- Created \ HeldSet

\* Creates reserve and displace in one atomic step, never over a Booking that
\* holds its room, and nothing that was released is ever held again.
RefinesLedger == Ledger!LedgerSpec

-----------------------------------------------------------------------------
(* Waiting and liveness.                                                   *)

\* The request asks for a room that the other one has locked.
WaitsFor(r, q) == pc[r] = "locking" /\ \E m \in Rooms : NextRoom(r, m) /\ lock[m] = q

\* Requests never wait for each other in a circle: of any finite set of them,
\* one waits for none of the others (RoomLockRepository.lock_rooms, which
\* sorts the rooms before it asks for the first).
NoCircleOfWaits ==
    \A S \in SUBSET Requests : S # {} /\ IsFiniteSet(S) =>
        \E r \in S : \A q \in S : ~WaitsFor(r, q)

\* A create request that waits for room locks gets them and is answered: the
\* sorted order of lock_rooms leaves no two requests waiting for each other.
RequestsFinish == \A r \in Requests : pc[r] = "locking" ~> pc[r] = "done"

SweepFails ==
    \E w \in Workers :
        (SweepAbort(w) \/ SweepLosesWrites(w)) /\ UNCHANGED <<createVars, closing>>

\* Once sweeps stop failing, every Pending-payment Series whose hold ran out
\* leaves that status.
ExpiredHoldIsSwept ==
    <>[][~SweepFails]_vars =>
        \A s \in SeriesRequests :
            (series[s].status = "pending_payment" /\ s \in Expired(now))
                ~> series[s].status # "pending_payment"

-----------------------------------------------------------------------------
(* Statements of the repository's documents that the code does not keep.   *)

\* ADR 0030: payment confirmation and occupancy remain valid only strictly
\* before the deadline, so that a room whose hold ran out can be booked again.
\* confirm_payment compares the clock when it reads the Series, commits later
\* without a room lock, and the released room may be taken in between.
OccupancyNeverOverlaps ==
    \A b, c \in Bookings :
        b # c /\ Occupies(b, now) /\ Occupies(c, now) => ~Collide(b, c)

\* ADR 0022: confirming a cancelled Series is rejected.  confirm_payment
\* rewrites the row by id, after a status it read earlier.
CancelledIsNeverConfirmed ==
    [][\A s \in SeriesRequests :
          series[s].status = "cancelled" => series'[s].status # "confirmed"]_vars

\* CONTEXT.md, Override review: current priority is always re-evaluated under
\* the room lock.  A Series uses the priority it read before the locks.
PriorityIsCurrent ==
    [][\A r \in Requests :
          (Accept(r) /\ targets'[r] # {}) => HasPriority(r)]_vars

\* ADR 0020: a create re-evaluates Blackouts on the remaining dates in its own
\* transaction.  No lock keeps what it found true until it commits.
CreatedOutsideBlackouts ==
    [][\A r \in Requests : Commit(r) => \A b \in Kept(r) : ~InBlackout(b)]_vars

\* ADR 0024: no active Booking is left inside a Blackout.  Here only of future
\* Series occurrences, and of a Blackout that is changed or restored:
\* update_blackout and restore_blackout look at no impact.
NoOccurrenceInsideBlackout ==
    [][\A k \in Blackouts :
          (RestoreBlackout(k) \/ \E a \in Operators : CommitBlackout(a) /\ ~closing[a].new)
              => \A b \in Bookings :
                    (InBlackout(b)' /\ RequestOf[b] \in SeriesRequests /\ StartOf(b) > now)
                        => ~Occupies(b, now) \/ InBlackout(b)]_vars

\* ADR 0019: at most one Rental occurrence of a Booker per week.  The quota is
\* read under the locks of the Series' own rooms.
OneSeriesRentalPerWeek ==
    \A b, c \in Bookings :
        (/\ b # c
         /\ {RequestOf[b], RequestOf[c]} \subseteq SeriesRequests
         /\ IsRental(b) /\ IsRental(c)
         /\ Booker[RequestOf[b]] = Booker[RequestOf[c]]
         /\ WeekOf[b] = WeekOf[c])
            => ~(Held(b) /\ Held(c))

=============================================================================
