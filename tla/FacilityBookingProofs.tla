------------------------ MODULE FacilityBookingProofs ------------------------
(***************************************************************************)
(* Proofs about FacilityBooking for any number of rooms, requests,         *)
(* Bookings, confirmers, cancellers, workers, Operators and Blackouts.     *)
(*                                                                         *)
(* Every row, worker and request keeps its type, and no room is promised   *)
(* twice: NoDoubleBooking and EvaluationHolds are invariants.              *)
(*                                                                         *)
(* The argument for the second.  A step other than a create's commit never *)
(* makes a Booking held that was not (no step but a commit inserts rows,   *)
(* and a hold that is cleared was active or is known to have lapsed).  A   *)
(* commit makes held the rows it inserts; what they collide with was found *)
(* under the room locks and is displaced in the same commit, and nobody    *)
(* else could commit to these rooms since.                                 *)
(***************************************************************************)
EXTENDS FacilityBooking, TLAPS

-----------------------------------------------------------------------------
(* Type correctness.                                                       *)

\* The initial tables, requests and workers have their types.
LEMMA InitType == Init => TypeOK
BY NullAssumption, CreateAssumption, LifecycleAssumption
   DEF Init, TypeOK, TablesInit, TablesTypeOK, CreateInit, CreateTypeOK, LifecycleInit,
       LifecycleTypeOK, BookingStatus, SeriesStatus, LiveStatus, MinistryState, NoReview,
       Idle, Cancellation, NoVisit, Visit, BlackoutInit, BlackoutTypeOK, BlackoutRow,
       BlackoutState, NoRow

\* The clock and the administrators' edits keep the types.
LEMMA EnvironmentType == TypeOK /\ Environment => TypeOK'
<1> SUFFICES ASSUME TypeOK, Environment PROVE TypeOK'
    OBVIOUS
<1>1. createVars' = createVars /\ lifecycleVars' = lifecycleVars /\ closing' = closing
    BY DEF Environment
<1>2. CASE Tick
    BY <1>1, <1>2 DEF TypeOK, TablesTypeOK, CreateTypeOK, LifecycleTypeOK, BlackoutTypeOK,
       createVars, lifecycleVars, sweepVars, Tick, Expired
<1>3. ASSUME NEW m \in Ministries, EditMinistry(m) PROVE TypeOK'
    BY <1>1, <1>3 DEF TypeOK, TablesTypeOK, CreateTypeOK, LifecycleTypeOK, BlackoutTypeOK,
       createVars, lifecycleVars, sweepVars, EditMinistry
<1> QED
    BY <1>2, <1>3 DEF Environment

\* Every step of a create request keeps the types.
LEMMA CreateType ==
    ASSUME NEW r \in Requests, TypeOK, Create(r), UNCHANGED <<lifecycleVars, closing>>
    PROVE  TypeOK'
<1>1. LifecycleTypeOK' /\ BlackoutTypeOK'
    BY DEF TypeOK, LifecycleTypeOK, lifecycleVars, sweepVars, BlackoutTypeOK
<1> USE DEF TypeOK, TablesTypeOK, CreateTypeOK, tableVars
<1>2. ASSUME NEW ex \in Exclusions(r), Review(r, ex) PROVE TypeOK'
    <2>1. ex \subseteq Bookings
        BY DEF Exclusions, Proposed
    <2>2. Impact(r, ReviewView(r, ex)) \subseteq Bookings
        BY DEF Impact, Displaceable, Occupants
    <2> QED
        BY <1>1, <1>2, <2>1, <2>2 DEF Review
<1>3. ASSUME NEW ex \in Exclusions(r), Begin(r, ex) PROVE TypeOK'
    BY <1>1, <1>3 DEF Begin, Exclusions, Proposed, HasPriority
<1>4. CASE AcquireRoom(r)
    BY <1>1, <1>4 DEF AcquireRoom
<1>5. CASE Accept(r)
    <2>1. Impact(r, CreateView(r)) \subseteq Bookings
        BY DEF Impact, Displaceable, Occupants
    <2> QED
        BY <1>1, <1>5, <2>1 DEF Accept, IsMinistry, Eligible
<1>6. CASE Rollback(r)
    BY <1>1, <1>6 DEF Rollback, Finish, Released, NoReview
<1>7. CASE Commit(r)
    <2>1. CommittedBooking(r) \in [Bookings -> [status : BookingStatus, slots : BOOLEAN]]
        BY DEF CommittedBooking, CreatedStatus, BookingStatus, LiveStatus
    <2>2. CreatedHold(r) \in Nat \cup {NoHold}
        BY CreateAssumption DEF CreatedHold
    <2>3. series' \in [SeriesRequests -> [status : SeriesStatus, hold : Nat \cup {NoHold}]]
        BY <1>7, <2>2 DEF Commit, CreatedStatus, SeriesStatus, LiveStatus
    <2>4. lapsed' \subseteq SeriesRequests
        BY <1>7 DEF Commit
    <2>5. overrideLog' \subseteq LogEntry
        BY <1>7 DEF Commit, LogRows
    <2> QED
        BY <1>1, <1>7, <2>1, <2>3, <2>4, <2>5 DEF Commit, Released
<1>8. CASE Notify(r)
    BY <1>1, <1>8 DEF Notify, Finish, NoReview
<1> QED
    BY <1>2, <1>3, <1>4, <1>5, <1>6, <1>7, <1>8 DEF Create, Proceed, Reject, Abort

\* Rows that are cancelled by id keep their type.
LEMMA CancelledType ==
    ASSUME TypeOK, NEW rows, NEW clear
    PROVE  /\ CancelledBooking(rows) \in [Bookings -> [status : BookingStatus, slots : BOOLEAN]]
           /\ CancelledSeries(rows, clear)
                \in [SeriesRequests -> [status : SeriesStatus, hold : Nat \cup {NoHold}]]
<1>1. "cancelled" \in SeriesStatus /\ "cancelled" \in BookingStatus
    BY DEF SeriesStatus, BookingStatus
<1> QED
    BY <1>1 DEF TypeOK, TablesTypeOK, CancelledBooking, CancelledSeries

\* Every step of a confirmation, a cancellation or a sweep keeps the types.
LEMMA LifecycleType == TypeOK /\ Lifecycle => TypeOK'
<1> SUFFICES ASSUME TypeOK, Lifecycle PROVE TypeOK'
    OBVIOUS
<1>1. CreateTypeOK' /\ BlackoutTypeOK'
    BY DEF Lifecycle, createVars, TypeOK, CreateTypeOK, BlackoutTypeOK
<1> USE DEF TypeOK, TablesTypeOK, LifecycleTypeOK, tableVars, sweepVars, lifecycleVars
<1>a. "confirmed" \in SeriesStatus /\ "confirmed" \in BookingStatus
      /\ "cancelled" \in BookingStatus
    BY DEF SeriesStatus, BookingStatus, LiveStatus
<1>2. ASSUME NEW c \in Confirmers, Confirm(c) PROVE TypeOK'
    <2>1. ASSUME NEW s \in SeriesRequests, ConfirmCheck(c, s) PROVE TypeOK'
        BY <1>1, <2>1 DEF ConfirmCheck
    <2>2. CASE ConfirmCommit(c)
        <3>1. confirming[c] \in SeriesRequests
            BY <2>2 DEF ConfirmCommit
        <3>2. series' \in [SeriesRequests -> [status : SeriesStatus, hold : Nat \cup {NoHold}]]
            BY <1>a, <2>2, <3>1 DEF ConfirmCommit
        <3>3. booking' \in [Bookings -> [status : BookingStatus, slots : BOOLEAN]]
            BY <1>a, <2>2 DEF ConfirmCommit
        <3> QED
            BY <1>1, <2>2, <3>2, <3>3 DEF ConfirmCommit
    <2>3. CASE ConfirmAbort(c)
        BY <1>1, <2>3 DEF ConfirmAbort
    <2> QED
        BY <1>2, <2>1, <2>2, <2>3 DEF Confirm
<1>3. ASSUME NEW c \in Cancellers, Cancel(c) PROVE TypeOK'
    <2>0. c \in Writers
        BY LifecycleAssumption
    <2>1. ASSUME NEW s \in SeriesRequests,
                 NEW scope \in {"occurrence", "this_and_future", "entire_series"},
                 NEW pivot \in Proposed(s), CancelRead(c, s, scope, pivot)
          PROVE  TypeOK'
        <3>1. Selected(s, scope, pivot) \subseteq Bookings
            <4>1. CASE scope = "occurrence"
                BY <4>1 DEF Selected, Proposed
            <4>2. CASE scope = "this_and_future"
                BY <4>2 DEF Selected, Proposed
            <4>3. CASE scope = "entire_series"
                BY <4>3 DEF Selected, Proposed
            <4> QED
                BY <4>1, <4>2, <4>3
        <3>2. cancelling' \in [Cancellers -> Cancellation \cup {Idle}]
            BY <2>1, <3>1 DEF CancelRead, Cancellation
        <3> QED
            BY <1>1, <2>1, <3>2 DEF CancelRead
    <2>2. CASE CancelWrite(c)
        <3>1. cancelling[c] \in Cancellation
            BY <2>2 DEF CancelWrite, Idle
        <3>2. dirty' \in [Writers -> SUBSET (Bookings \cup SeriesRequests)]
            BY <2>0, <2>2, <3>1 DEF CancelWrite, Cancellation
        <3>3. cancelling' \in [Cancellers -> Cancellation \cup {Idle}]
            BY <2>2, <3>1 DEF CancelWrite, Cancellation
        <3> QED
            BY <1>1, <2>2, <3>2, <3>3 DEF CancelWrite
    <2>3. CASE CancelCommit(c)
        BY <1>1, <2>3, <2>0, CancelledType DEF CancelCommit, Idle
    <2>4. CASE CancelAbort(c)
        BY <1>1, <2>4, <2>0 DEF CancelAbort, Idle
    <2> QED
        BY <1>3, <2>1, <2>2, <2>3, <2>4 DEF Cancel
<1>4. ASSUME NEW w \in Workers, Sweep(w) PROVE TypeOK'
    <2>0. w \in Writers
        BY LifecycleAssumption
    <2>1. CASE SweepBegin(w)
        BY <1>1, <2>1 DEF SweepBegin, Expired
    <2>2. ASSUME NEW s \in SeriesRequests, SweepRead(w, s) PROVE TypeOK'
        BY <1>1, <2>2 DEF SweepRead, Visit, Proposed
    <2>3. CASE SweepWrite(w)
        <3>1. sweeping[w].rows \subseteq Bookings \cup SeriesRequests
              /\ sweeping[w].of \in SeriesRequests
            BY <2>3 DEF SweepWrite, SweepVisited, Visit
        <3> QED
            BY <1>1, <2>0, <2>3, <3>1 DEF SweepWrite, SweepVisited, NoVisit, Visit
    <2>4. CASE SweepLosesWrites(w)
        BY <1>1, <2>0, <2>4 DEF SweepLosesWrites, SweepVisited, NoVisit, Visit
    <2>5. CASE SweepCommit(w)
        BY <1>1, <2>0, <2>5, CancelledType DEF SweepCommit
    <2>6. CASE SweepAbort(w)
        BY <1>1, <2>0, <2>6 DEF SweepAbort, NoVisit, Visit
    <2> QED
        BY <1>4, <2>1, <2>2, <2>3, <2>4, <2>5, <2>6 DEF Sweep
<1>5. ASSUME NEW b \in Bookings, CancelBooking(b) PROVE TypeOK'
    <2>1. booking' \in [Bookings -> [status : BookingStatus, slots : BOOLEAN]]
        BY <1>a, <1>5 DEF CancelBooking
    <2> QED
        BY <1>1, <1>5, <2>1 DEF CancelBooking
<1> QED
    BY <1>2, <1>3, <1>4, <1>5 DEF Lifecycle

\* Every step of an Operator who closes or reopens rooms keeps the types.
LEMMA ClosuresType == TypeOK /\ Closures => TypeOK'
<1> SUFFICES ASSUME TypeOK, Closures PROVE TypeOK'
    OBVIOUS
<1>1. CreateTypeOK' /\ LifecycleTypeOK'
    BY DEF Closures, createVars, lifecycleVars, sweepVars, TypeOK, CreateTypeOK, LifecycleTypeOK
<1> USE DEF TypeOK, TablesTypeOK, BlackoutTypeOK, tableVars
<1>2. ASSUME NEW a \in Operators, CloseRooms(a) PROVE TypeOK'
    <2>0. a \in Writers
        BY BlackoutAssumption
    <2>1. ASSUME NEW k \in Blackouts, NEW state \in {"active", "inactive"},
                 NEW shape \in Shapes, CreateBlackout(a, k, state, shape)
          PROVE  TypeOK'
        <3>1. Impacted(state, shape) \subseteq Bookings
            BY DEF Impacted
        <3>2. closing' \in [Operators -> Closing \cup {NoClosing}]
            BY <2>1, <3>1 DEF CreateBlackout, Closing, BlackoutRow, BlackoutState
        <3> QED
            BY <1>1, <2>1, <3>2 DEF CreateBlackout
    <2>2. ASSUME NEW k \in Blackouts, NEW state \in {"active", "inactive"},
                 NEW shape \in Shapes, UpdateBlackout(a, k, state, shape)
          PROVE  TypeOK'
        <3>1. closing' \in [Operators -> Closing \cup {NoClosing}]
            BY <2>2 DEF UpdateBlackout, Closing, BlackoutRow, BlackoutState
        <3> QED
            BY <1>1, <2>2, <3>1 DEF UpdateBlackout
    <2>3. CASE WriteBlackout(a)
        <3>1. closing[a] \in Closing
            BY <2>3 DEF WriteBlackout, NoClosing
        <3>2. dirty' \in [Writers -> SUBSET (Bookings \cup SeriesRequests)]
            BY <2>0, <2>3, <3>1 DEF WriteBlackout, Emptied, Closing
        <3>3. closing' \in [Operators -> Closing \cup {NoClosing}]
            BY <2>3, <3>1 DEF WriteBlackout, Closing
        <3> QED
            BY <1>1, <2>3, <3>2, <3>3 DEF WriteBlackout
    <2>4. CASE CommitBlackout(a)
        <3>1. closing[a] \in Closing
            BY <2>4 DEF CommitBlackout, NoClosing
        <3>2. blackout' \in [Blackouts -> BlackoutRow]
            BY <2>4, <3>1 DEF CommitBlackout, Closing
        <3> QED
            BY <1>1, <2>0, <2>4, <3>2, CancelledType DEF CommitBlackout
    <2>5. CASE AbortBlackout(a)
        BY <1>1, <2>0, <2>5 DEF AbortBlackout
    <2> QED
        BY <1>2, <2>1, <2>2, <2>3, <2>4, <2>5 DEF CloseRooms
<1>3. ASSUME NEW k \in Blackouts, DeleteBlackout(k) \/ RestoreBlackout(k) PROVE TypeOK'
    <2>1. blackout' \in [Blackouts -> BlackoutRow]
        <3>1. blackout[k] \in BlackoutRow /\ NoRow \in BlackoutRow
            BY DEF BlackoutRow, BlackoutState, NoRow
        <3>2. [blackout[k] EXCEPT !.deleted = TRUE] \in BlackoutRow
              /\ [blackout[k] EXCEPT !.deleted = FALSE] \in BlackoutRow
            BY <3>1 DEF BlackoutRow
        <3> QED
            BY <1>3, <3>1, <3>2 DEF DeleteBlackout, RestoreBlackout
    <2> QED
        BY <1>1, <1>3, <2>1 DEF DeleteBlackout, RestoreBlackout
<1> QED
    BY <1>2, <1>3 DEF Closures

\* A step of the system, or one that changes nothing, keeps the types.
LEMMA NextType == TypeOK /\ [Next]_vars => TypeOK'
<1> SUFFICES ASSUME TypeOK, [Next]_vars PROVE TypeOK'
    OBVIOUS
<1>1. CASE Environment
    BY <1>1, EnvironmentType
<1>2. CASE Creation
    BY <1>2, CreateType DEF Creation
<1>3. CASE Lifecycle
    BY <1>3, LifecycleType
<1>4. CASE Closures
    BY <1>4, ClosuresType
<1>5. CASE UNCHANGED vars
    BY <1>5 DEF vars, TypeOK, TablesTypeOK, CreateTypeOK, LifecycleTypeOK, BlackoutTypeOK,
       tableVars, createVars, lifecycleVars, sweepVars
<1> QED
    BY <1>1, <1>2, <1>3, <1>4, <1>5 DEF Next

\* The committed rows, the requests' and the workers' state keep their types,
\* whatever interleaving of the services' transactions happens.
THEOREM TypeCorrect == Spec => []TypeOK
<1> QED
    BY InitType, NextType, PTL DEF Spec

-----------------------------------------------------------------------------
(* Lemmas about the predicates.                                            *)

\* A payment hold that is active now was active before.
LEMMA HoldActiveEarlier ==
    ASSUME NEW hold \in Nat \cup {NoHold}, NEW t \in Nat, NEW u \in Nat,
           t <= u, HoldActive(hold, u)
    PROVE  HoldActive(hold, t)
BY DEF HoldActive

\* The hold of a Booking is a time or NULL.
LEMMA HoldOfType ==
    ASSUME TypeOK, NEW b \in Bookings
    PROVE  HoldOf(b) \in Nat \cup {NoHold}
BY DEF HoldOf, TypeOK, TablesTypeOK

\* A Booking that occupies its rooms now did so at any earlier transaction time.
LEMMA OccupiesEarlier ==
    ASSUME TypeOK, NEW b \in Bookings, NEW t \in Nat, t <= now, Occupies(b, now)
    PROVE  Occupies(b, t)
<1>1. HoldOf(b) \in Nat \cup {NoHold} /\ now \in Nat
    BY HoldOfType DEF TypeOK, TablesTypeOK
<1> QED
    BY <1>1, HoldActiveEarlier DEF Occupies, ActiveOccupancy

\* The rooms a request locks are rooms.
LEMMA RoomsOfType == ASSUME NEW r \in Requests PROVE RoomsOf(r) \subseteq Rooms
BY LinesAssumption DEF RoomsOf, Proposed, Line

\* Two Bookings that collide have a room in common.
LEMMA CollideShareRoom ==
    ASSUME NEW b \in Bookings, NEW c \in Bookings, Collide(b, c)
    PROVE  \E m \in Rooms : m \in RoomsOf(RequestOf[b]) /\ m \in RoomsOf(RequestOf[c])
<1>1. PICK k \in Lines[b], l \in Lines[c] : Overlap(k, l)
    BY DEF Collide
<1>2. k.room \in Rooms /\ k.room = l.room
    BY <1>1, LinesAssumption DEF Overlap, Line
<1>3. k.room \in RoomsOf(RequestOf[b]) /\ l.room \in RoomsOf(RequestOf[c])
    BY DEF RoomsOf, Proposed
<1> QED
    BY <1>2, <1>3

\* While the history of lapsed holds is complete, a live Booking whose Series
\* has not lapsed is held as soon as its slots are confirmed.
LEMMA LiveIsHeld ==
    ASSUME TypeOK, LapsedIsComplete, NEW b \in Bookings,
           booking[b].slots, booking[b].status \in LiveStatus, RequestOf[b] \notin lapsed
    PROVE  Held(b)
<1>1. HoldActive(HoldOf(b), now)
    <2>1. CASE RequestOf[b] \in SeriesRequests
        BY <2>1 DEF HoldOf, HoldActive, LapsedIsComplete, Expired, TypeOK, TablesTypeOK
    <2>2. CASE RequestOf[b] \notin SeriesRequests
        BY <2>2 DEF HoldOf, HoldActive
    <2> QED
        BY <2>1, <2>2
<1> QED
    BY <1>1 DEF Held, Occupies, ActiveOccupancy, LiveStatus

\* A held Booking is live, with confirmed slots and a Series that has not lapsed.
LEMMA HeldIsLive ==
    ASSUME NEW b \in Bookings, Held(b)
    PROVE  booking[b].slots /\ booking[b].status \in LiveStatus /\ RequestOf[b] \notin lapsed
BY DEF Held, Occupies, ActiveOccupancy, LiveStatus

-----------------------------------------------------------------------------
(* Nothing but the commit of a create makes a Booking held.                *)

\* A step that inserts no live row, confirms no slot and forgets no lapsed
\* hold makes nothing held that was not.
LEMMA NothingBecomesHeld ==
    ASSUME TypeOK, LapsedIsComplete, lapsed \subseteq lapsed',
           NEW b \in Bookings,
           booking'[b].slots => booking[b].slots,
           booking'[b].status \in LiveStatus => booking[b].status \in LiveStatus,
           Held(b)'
    PROVE  Held(b)
<1>1. booking'[b].slots /\ booking'[b].status \in LiveStatus /\ RequestOf[b] \notin lapsed'
    BY DEF Held, Occupies, ActiveOccupancy, LiveStatus
<1> QED
    BY <1>1, LiveIsHeld

\* Confirmations, cancellations and sweeps insert no live row, confirm no
\* slot, and leave a payment hold alone or clear it.
LEMMA LifecycleRows ==
    ASSUME TypeOK, Lifecycle
    PROVE  /\ now' = now /\ lapsed' = lapsed
           /\ \A b \in Bookings :
                /\ booking'[b].slots => booking[b].slots
                /\ booking'[b].status \in LiveStatus => booking[b].status \in LiveStatus
           /\ \A s \in SeriesRequests : series'[s].hold \in {series[s].hold, NoHold}
<1> DEFINE Goal == /\ now' = now /\ lapsed' = lapsed
                   /\ \A b \in Bookings :
                        /\ booking'[b].slots => booking[b].slots
                        /\ booking'[b].status \in LiveStatus => booking[b].status \in LiveStatus
                   /\ \A s \in SeriesRequests : series'[s].hold \in {series[s].hold, NoHold}
<1> USE DEF TypeOK, TablesTypeOK
<1>1. "cancelled" \notin LiveStatus /\ "pending_payment" \in LiveStatus
    BY DEF LiveStatus
<1>2. ASSUME UNCHANGED <<booking, series, now, lapsed>> PROVE Goal
    BY <1>2
<1>3. ASSUME NEW rows, NEW clear \in BOOLEAN, booking' = CancelledBooking(rows),
             series' = CancelledSeries(rows, clear), now' = now, lapsed' = lapsed
      PROVE  Goal
    BY <1>1, <1>3 DEF CancelledBooking, CancelledSeries
<1>4. ASSUME NEW c \in Confirmers, Confirm(c) PROVE Goal
    <2>1. CASE ConfirmCommit(c)
        <3>1. \A b \in Bookings : \/ booking'[b] = booking[b]
                                  \/ /\ booking[b].status = "pending_payment"
                                     /\ booking'[b].slots = booking[b].slots
            BY <2>1 DEF ConfirmCommit
        <3>2. \A s \in SeriesRequests : series'[s].hold \in {series[s].hold, NoHold}
            BY <2>1 DEF ConfirmCommit
        <3> QED
            BY <1>1, <2>1, <3>1, <3>2 DEF ConfirmCommit
    <2>2. CASE ~ConfirmCommit(c)
        BY <1>2, <1>4, <2>2 DEF Confirm, ConfirmCheck, ConfirmAbort, tableVars
    <2> QED
        BY <2>1, <2>2
<1>5. ASSUME NEW c \in Cancellers, Cancel(c) PROVE Goal
    <2>1. CASE CancelCommit(c)
        BY <1>3, <2>1 DEF CancelCommit
    <2>2. CASE ~CancelCommit(c)
        BY <1>2, <1>5, <2>2 DEF Cancel, CancelRead, CancelWrite, CancelAbort, tableVars
    <2> QED
        BY <2>1, <2>2
<1>6. ASSUME NEW w \in Workers, Sweep(w) PROVE Goal
    <2>1. CASE SweepCommit(w)
        BY <1>3, <2>1 DEF SweepCommit
    <2>2. CASE ~SweepCommit(w)
        BY <1>2, <1>6, <2>2 DEF Sweep, SweepBegin, SweepRead, SweepWrite, SweepLosesWrites,
           SweepVisited, SweepAbort, tableVars
    <2> QED
        BY <2>1, <2>2
<1>7. ASSUME NEW b \in Bookings, CancelBooking(b) PROVE Goal
    BY <1>1, <1>7 DEF CancelBooking
<1> QED
    BY <1>4, <1>5, <1>6, <1>7 DEF Lifecycle

\* An Operator's Blackout cancels rows and does nothing else to them.
LEMMA ClosuresRows ==
    ASSUME TypeOK, Closures
    PROVE  /\ now' = now /\ lapsed' = lapsed
           /\ \A b \in Bookings :
                /\ booking'[b].slots => booking[b].slots
                /\ booking'[b].status \in LiveStatus => booking[b].status \in LiveStatus
           /\ \A s \in SeriesRequests : series'[s].hold \in {series[s].hold, NoHold}
<1>1. now' = now /\ lapsed' = lapsed
    BY DEF Closures, CloseRooms, CreateBlackout, UpdateBlackout, WriteBlackout, CommitBlackout,
       AbortBlackout, DeleteBlackout, RestoreBlackout, tableVars
<1>2. UNCHANGED <<booking, series>> \/ \E a \in Operators : CommitBlackout(a)
    <2>1. ASSUME NEW a \in Operators, CloseRooms(a), ~CommitBlackout(a)
          PROVE  UNCHANGED <<booking, series>>
        BY <2>1 DEF CloseRooms, CreateBlackout, UpdateBlackout, WriteBlackout, AbortBlackout,
           tableVars
    <2>2. ASSUME NEW k \in Blackouts, DeleteBlackout(k) \/ RestoreBlackout(k)
          PROVE  UNCHANGED <<booking, series>>
        BY <2>2 DEF DeleteBlackout, RestoreBlackout
    <2> QED
        BY <2>1, <2>2 DEF Closures
<1>3. "cancelled" \notin LiveStatus
    BY DEF LiveStatus
<1>4. CASE UNCHANGED <<booking, series>>
    BY <1>1, <1>4
<1>5. ASSUME NEW a \in Operators, CommitBlackout(a)
      PROVE  /\ \A b \in Bookings :
                  /\ booking'[b].slots => booking[b].slots
                  /\ booking'[b].status \in LiveStatus => booking[b].status \in LiveStatus
             /\ \A s \in SeriesRequests : series'[s].hold \in {series[s].hold, NoHold}
    BY <1>3, <1>5 DEF CommitBlackout, CancelledBooking, CancelledSeries
<1> QED
    BY <1>1, <1>2, <1>4, <1>5

-----------------------------------------------------------------------------
(* The inductive step.                                                     *)

\* A step that makes nothing held and evaluates no request keeps both
\* statements.
LEMMA QuietStep ==
    ASSUME EvaluationHolds, NoDoubleBooking,
           \A b \in Bookings : Held(b)' => Held(b),
           \A r \in Requests : pc'[r] = "evaluated" =>
               pc[r] = "evaluated" /\ excluded'[r] = excluded[r] /\ targets'[r] = targets[r]
    PROVE  EvaluationHolds' /\ NoDoubleBooking'
<1>1. EvaluationHolds'
    BY DEF EvaluationHolds, Kept
<1>2. NoDoubleBooking'
    BY DEF NoDoubleBooking
<1> QED
    BY <1>1, <1>2

\* The clock only takes holds away, and records which.
LEMMA EnvironmentOccupancy ==
    ASSUME OccupancyInv, Environment, TypeOK'
    PROVE  OccupancyInv'
<1> USE DEF OccupancyInv
<1>1. /\ booking' = booking /\ series' = series /\ lapsed \subseteq lapsed'
      /\ now' \in Nat /\ now <= now'
      /\ pc' = pc /\ lock' = lock /\ txNow' = txNow /\ excluded' = excluded
      /\ targets' = targets
    BY DEF Environment, Tick, EditMinistry, createVars, TypeOK, TablesTypeOK
<1>2. LapsedIsComplete'
    BY DEF Environment, Tick, EditMinistry, LapsedIsComplete, Expired
<1>3. TransactionTimeIsPast'
    BY <1>1 DEF TransactionTimeIsPast, TypeOK, TablesTypeOK, CreateTypeOK
<1>4. LocksCoverRooms'
    BY <1>1 DEF LocksCoverRooms
<1>5. \A b \in Bookings : Held(b)' => Held(b)
    BY <1>1, NothingBecomesHeld
<1> QED
    BY <1>1, <1>2, <1>3, <1>4, <1>5, QuietStep

\* What the lifecycle services do needs no room lock to be safe.
LEMMA LifecycleOccupancy ==
    ASSUME OccupancyInv, Lifecycle, TypeOK'
    PROVE  OccupancyInv'
<1> USE DEF OccupancyInv
<1>1. /\ pc' = pc /\ lock' = lock /\ txNow' = txNow /\ excluded' = excluded
      /\ targets' = targets
    BY DEF Lifecycle, createVars
<1>2. LapsedIsComplete'
    BY LifecycleRows DEF LapsedIsComplete, Expired
<1>3. TransactionTimeIsPast' /\ LocksCoverRooms'
    BY <1>1, LifecycleRows DEF TransactionTimeIsPast, LocksCoverRooms
<1>4. \A b \in Bookings : Held(b)' => Held(b)
    BY LifecycleRows, NothingBecomesHeld
<1> QED
    BY <1>1, <1>2, <1>3, <1>4, QuietStep

\* Neither does a Blackout need one.
LEMMA ClosuresOccupancy ==
    ASSUME OccupancyInv, Closures, TypeOK'
    PROVE  OccupancyInv'
<1> USE DEF OccupancyInv
<1>1. /\ pc' = pc /\ lock' = lock /\ txNow' = txNow /\ excluded' = excluded
      /\ targets' = targets
    BY DEF Closures, createVars
<1>2. LapsedIsComplete'
    BY ClosuresRows DEF LapsedIsComplete, Expired
<1>3. TransactionTimeIsPast' /\ LocksCoverRooms'
    BY <1>1, ClosuresRows DEF TransactionTimeIsPast, LocksCoverRooms
<1>4. \A b \in Bookings : Held(b)' => Held(b)
    BY ClosuresRows, NothingBecomesHeld
<1> QED
    BY <1>1, <1>2, <1>3, <1>4, QuietStep

\* What an accepted request found at its transaction time covers everything
\* that is held now.
LEMMA AcceptFindsHeld ==
    ASSUME TypeOK, TransactionTimeIsPast, NEW r \in Requests, Accept(r),
           NEW b \in Kept(r), NEW c \in Bookings, Held(c), Collide(b, c)
    PROVE  c \in Impact(r, CreateView(r))
<1> DEFINE x == CreateView(r)
<1>1. b \in Bookings /\ b \in Proposed(r) \ x.ex
    BY DEF Kept, Proposed, CreateView
<1>2. x.t = txNow[r] /\ txNow[r] \in Nat /\ txNow[r] <= now
    BY DEF CreateView, TypeOK, CreateTypeOK, TransactionTimeIsPast
<1>3. c \in Occupants(b, x.t)
    BY <1>2, OccupiesEarlier DEF Held, Occupants
<1>4. ~Blocked(b, x)
    BY <1>1 DEF Accept, Acceptable, Confirmable, Blocking
<1>5. c \in Displaceable(b, x)
    BY <1>3, <1>4 DEF Blocked, Displaceable
<1> QED
    BY <1>1, <1>5 DEF Impact

\* After a commit, what is held was held before or is a row of the request.
LEMMA CommitHolds ==
    ASSUME OccupancyInv, NEW r \in Requests, Commit(r), NEW c \in Bookings, Held(c)'
    PROVE  c \in Kept(r) \/ (Held(c) /\ c \notin targets[r])
<1> USE DEF OccupancyInv
<1> SUFFICES ASSUME c \notin Kept(r) PROVE Held(c) /\ c \notin targets[r]
    OBVIOUS
<1>1. booking'[c] = IF c \in targets[r] THEN [status |-> "overridden", slots |-> FALSE]
                    ELSE booking[c]
    BY DEF Commit, CommittedBooking
<1>2. booking'[c].slots
    BY DEF Held, Occupies
<1>3. c \notin targets[r] /\ booking'[c] = booking[c]
    BY <1>1, <1>2
<1>4. lapsed \subseteq lapsed'
    BY DEF Commit
<1> QED
    BY <1>3, <1>4, NothingBecomesHeld

\* Every step of a create request keeps the invariant; only its commit makes
\* anything held.
LEMMA CreateOccupancy ==
    ASSUME OccupancyInv, NEW r \in Requests, Create(r), UNCHANGED <<lifecycleVars, closing>>, TypeOK'
    PROVE  OccupancyInv'
<1> USE DEF OccupancyInv
<1>1. CASE Commit(r)
    <2>1. LocksCoverRooms'
        BY <1>1, RoomsOfType DEF Commit, Released, LocksCoverRooms, TypeOK, CreateTypeOK
    <2>2. TransactionTimeIsPast'
        BY <1>1 DEF Commit, TransactionTimeIsPast
    <2>3. LapsedIsComplete'
        <3>1. \A s \in SeriesRequests : s # r => series'[s] = series[s]
            BY <1>1 DEF Commit, TypeOK, TablesTypeOK
        <3>2. now' = now /\ lapsed \subseteq lapsed'
            BY <1>1 DEF Commit
        <3>3. r \in SeriesRequests => series'[r].hold = CreatedHold(r)
            BY <1>1 DEF Commit, TypeOK, TablesTypeOK
        <3>4. r \in SeriesRequests /\ ~HoldActive(CreatedHold(r), now) => r \in lapsed'
            BY <1>1 DEF Commit
        <3>5. CreatedHold(r) # NoHold => CreatedHold(r) \in Nat
            BY CreateAssumption DEF CreatedHold, TypeOK, CreateTypeOK
        <3> QED
            BY <3>1, <3>2, <3>3, <3>4, <3>5
               DEF LapsedIsComplete, Expired, HoldActive, TypeOK, TablesTypeOK
    <2>4. EvaluationHolds'
        <3> SUFFICES ASSUME NEW q \in Requests, pc'[q] = "evaluated",
                            NEW b \in Kept(q)', NEW c \in Bookings, Held(c)', Collide(b, c)
                     PROVE  c \in targets'[q]
            BY DEF EvaluationHolds
        <3>1. q # r /\ pc[q] = "evaluated" /\ pc[r] = "evaluated"
            BY <1>1 DEF Commit, TypeOK, CreateTypeOK
        <3>2. b \in Kept(q) /\ b \in Bookings /\ RequestOf[b] = q /\ targets'[q] = targets[q]
            BY <1>1 DEF Commit, Kept, Proposed
        <3>3. c \notin Kept(r)
            <4> SUFFICES ASSUME c \in Kept(r) PROVE FALSE
                OBVIOUS
            <4>1. RequestOf[c] = r
                BY DEF Kept, Proposed
            <4>2. PICK m \in Rooms : m \in RoomsOf(q) /\ m \in RoomsOf(r)
                BY <3>2, <4>1, CollideShareRoom
            <4> QED
                BY <3>1, <4>2 DEF LocksCoverRooms
        <3>4. Held(c)
            BY <1>1, <3>3, CommitHolds
        <3> QED
            BY <3>1, <3>2, <3>4 DEF EvaluationHolds
    <2>5. NoDoubleBooking'
        <3>1. ASSUME NEW b \in Kept(r), NEW c \in Bookings, b # c, Held(c)'
              PROVE  ~Collide(b, c) /\ ~Collide(c, b)
            <4>1. b \in Bookings /\ RequestOf[b] = r
                BY DEF Kept, Proposed
            <4>2. CASE RequestOf[c] = r
                BY <3>1, <4>1, <4>2, OccurrencesAssumption
            <4>3. CASE RequestOf[c] # r
                <5>1. Held(c) /\ c \notin targets[r]
                    BY <1>1, <3>1, <4>3, CommitHolds DEF Kept, Proposed
                <5>2. ~Collide(b, c)
                    BY <1>1, <5>1 DEF Commit, EvaluationHolds
                <5> QED
                    BY <5>2 DEF Collide, Overlap
            <4> QED
                BY <4>2, <4>3
        <3>2. ASSUME NEW b \in Bookings, NEW c \in Bookings, b # c, Held(b)', Held(c)'
              PROVE  ~Collide(b, c)
            <4>1. CASE b \in Kept(r)
                BY <3>1, <3>2, <4>1
            <4>2. CASE c \in Kept(r)
                BY <3>1, <3>2, <4>2
            <4>3. CASE b \notin Kept(r) /\ c \notin Kept(r)
                BY <1>1, <3>2, <4>3, CommitHolds DEF NoDoubleBooking
            <4> QED
                BY <4>1, <4>2, <4>3
        <3> QED
            BY <3>2 DEF NoDoubleBooking
    <2> QED
        BY <2>1, <2>2, <2>3, <2>4, <2>5
<1>2. CASE ~Commit(r)
    <2>1. booking' = booking /\ series' = series /\ lapsed' = lapsed /\ now' = now
        BY <1>2 DEF Create, Proceed, Review, Begin, AcquireRoom, Accept, Reject, Abort, Rollback,
           Notify, tableVars
    <2>2. \A b \in Bookings : Held(b)' => Held(b)
        BY <2>1, NothingBecomesHeld
    <2>3. LapsedIsComplete'
        BY <2>1 DEF LapsedIsComplete, Expired
    <2>4. TransactionTimeIsPast'
        <3>1. \A q \in Requests : txNow'[q] \in {txNow[q], 0, now}
            BY <1>2 DEF Create, Proceed, Review, Begin, AcquireRoom, Accept, Reject, Abort,
               Rollback, Finish, Notify, TypeOK, CreateTypeOK
        <3> QED
            BY <2>1, <3>1 DEF TransactionTimeIsPast, TypeOK, TablesTypeOK
    <2>5. CASE Accept(r)
        <3>1. /\ lock' = lock /\ excluded' = excluded /\ \A m \in RoomsOf(r) : lock[m] = r
              /\ \A q \in Requests : q # r => pc'[q] = pc[q] /\ targets'[q] = targets[q]
              /\ targets'[r] = Impact(r, CreateView(r))
            BY <2>5 DEF Accept, Locked, Missing, TypeOK, CreateTypeOK
        <3>2. LocksCoverRooms'
            BY <3>1 DEF LocksCoverRooms
        <3>3. EvaluationHolds'
            <4> SUFFICES ASSUME NEW q \in Requests, pc'[q] = "evaluated",
                                NEW b \in Kept(q)', NEW c \in Bookings, Held(c)', Collide(b, c)
                         PROVE  c \in targets'[q]
                BY DEF EvaluationHolds
            <4>1. Held(c) /\ b \in Kept(q)
                BY <2>2, <3>1 DEF Kept
            <4>2. CASE q = r
                BY <2>5, <3>1, <4>1, <4>2, AcceptFindsHeld
            <4>3. CASE q # r
                BY <3>1, <4>1, <4>3 DEF EvaluationHolds
            <4> QED
                BY <4>2, <4>3
        <3>4. NoDoubleBooking'
            BY <2>2 DEF NoDoubleBooking
        <3> QED
            BY <2>3, <2>4, <3>2, <3>3, <3>4
    <2>6. CASE ~Accept(r)
        <3> DEFINE Undisturbed ==
                 \A q \in Requests : pc'[q] = "evaluated" =>
                    /\ pc[q] = "evaluated" /\ excluded'[q] = excluded[q] /\ targets'[q] = targets[q]
                    /\ \A m \in Rooms : lock[m] = q => lock'[m] = q
        <3>1. Undisturbed
            <4>1. ASSUME NEW ex, Review(r, ex) \/ Begin(r, ex) PROVE Undisturbed
                BY <4>1 DEF Review, Begin, TypeOK, CreateTypeOK
            <4>2. CASE AcquireRoom(r)
                BY <4>2, CreateAssumption DEF AcquireRoom, TypeOK, CreateTypeOK
            <4>3. CASE Rollback(r)
                BY <4>3 DEF Rollback, Finish, Released, TypeOK, CreateTypeOK
            <4>4. CASE Notify(r)
                BY <4>4 DEF Notify, Finish, TypeOK, CreateTypeOK
            <4> QED
                BY <1>2, <2>6, <4>1, <4>2, <4>3, <4>4 DEF Create, Proceed, Reject, Abort
        <3>2. LocksCoverRooms'
            BY <3>1, RoomsOfType DEF LocksCoverRooms
        <3> QED
            BY <2>2, <2>3, <2>4, <3>1, <3>2, QuietStep
    <2> QED
        BY <2>5, <2>6
<1> QED
    BY <1>1, <1>2

-----------------------------------------------------------------------------
(* The theorems.                                                           *)

\* Nothing is held, locked or evaluated initially.
LEMMA InitOccupancy == Init => OccupancyInv
<1> SUFFICES ASSUME Init PROVE OccupancyInv
    OBVIOUS
<1>1. \A b \in Bookings : ~Held(b)
    BY DEF Init, TablesInit, Held, Occupies
<1>2. LapsedIsComplete
    BY DEF Init, TablesInit, LapsedIsComplete, Expired
<1>3. LocksCoverRooms /\ EvaluationHolds
    BY DEF Init, CreateInit, LocksCoverRooms, EvaluationHolds
<1>4. TransactionTimeIsPast
    BY DEF Init, TablesInit, CreateInit, TransactionTimeIsPast
<1> QED
    BY <1>1, <1>2, <1>3, <1>4, InitType DEF OccupancyInv, NoDoubleBooking

\* The invariant is inductive.
LEMMA NextOccupancy == OccupancyInv /\ [Next]_vars => OccupancyInv'
<1> SUFFICES ASSUME OccupancyInv, [Next]_vars PROVE OccupancyInv'
    OBVIOUS
<1>1. TypeOK'
    BY NextType DEF OccupancyInv
<1>2. CASE Environment
    BY <1>1, <1>2, EnvironmentOccupancy
<1>3. CASE Creation
    BY <1>1, <1>3, CreateOccupancy DEF Creation
<1>4. CASE Lifecycle
    BY <1>1, <1>4, LifecycleOccupancy
<1>5. CASE Closures
    BY <1>1, <1>5, ClosuresOccupancy
<1>6. CASE UNCHANGED vars
    BY <1>1, <1>6 DEF vars, tableVars, createVars, OccupancyInv, LocksCoverRooms,
       TransactionTimeIsPast, LapsedIsComplete, Expired, EvaluationHolds, NoDoubleBooking,
       Kept, Held, Occupies, ActiveOccupancy, HoldOf
<1> QED
    BY <1>2, <1>3, <1>4, <1>5, <1>6 DEF Next

\* Concurrent creates, confirmations, cancellations, sweeps and Blackouts never
\* leave two Bookings that both hold their place on the same room and time.
THEOREM RoomsNeverPromisedTwice == Spec => []NoDoubleBooking
<1>1. OccupancyInv => NoDoubleBooking
    BY DEF OccupancyInv
<1> QED
    BY <1>1, InitOccupancy, NextOccupancy, PTL DEF Spec

\* What create_booking and create_series decide under the room locks is still
\* true when they write it, although nobody else takes those locks to confirm
\* or to cancel.
THEOREM EvaluationStaysTrue == Spec => []EvaluationHolds
<1>1. OccupancyInv => EvaluationHolds
    BY DEF OccupancyInv
<1> QED
    BY <1>1, InitOccupancy, NextOccupancy, PTL DEF Spec
=============================================================================
