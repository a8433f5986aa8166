---------------------------- MODULE BookingCreate ----------------------------
(***************************************************************************)
(* BookingService.create_booking and RecurringBookingService.create_series *)
(* with the Priority Ministry override they share (priority_override,      *)
(* one_time_override), each request in its own database transaction.       *)
(*                                                                         *)
(* A request runs: gates and preparation (Begin), one advisory lock per    *)
(* room in sorted order (AcquireRoom), evaluation of occupancy, quota and  *)
(* closures (Accept, Reject), and the commit of everything it writes       *)
(* (Commit).  The transaction starts with the first lock statement, so     *)
(* the database's now() is the time before the lock wait; advisory locks   *)
(* go with the transaction's end.  After a commit, and only then, the      *)
(* queued override notification is sent (Notify) or lost.                  *)
(***************************************************************************)
EXTENDS OccupancyTables

CONSTANTS
    MemberRequests,   \* sent through the member routes; the others by an Operator
    MinOccurrences,   \* facility.min_recurring_booking_weeks
    HoldLength,       \* how long after creation a payment hold runs out
    OutsideHours,     \* Bookings with a line outside the room's opening hours
    NoRequest

ASSUME CreateAssumption ==
    /\ MemberRequests \subseteq Requests
    /\ MinOccurrences \in Nat \ {0}
    /\ HoldLength \in Nat \ {0}
    /\ OutsideHours \subseteq Bookings
    /\ NoRequest \notin Requests \cup Writers

VARIABLES
    pc,           \* where each create request is
    lock,         \* who holds the advisory lock of each room
    txNow,        \* transaction time; also the Series path's prepared.now_utc
    sawPriority,  \* prepared.is_priority, read before the locks
    excluded,     \* the occurrences the request asks to leave out
    targets,      \* the Rental Bookings the evaluation decided to displace
    free,         \* the quote found an eligible Ministry: no payment hold
    review,       \* the override review token the request holds
    overrideLog,  \* facility.booking_override_log
    overrideMail  \* <<request, Booking>> of each override notification sent

createVars == <<pc, lock, txNow, sawPriority, excluded, targets, free, review,
                overrideLog, overrideMail>>

NoReview == [excluded |-> {}, targets |-> {}]

LogEntry == [by : Bookings, displaced : Bookings, room : Rooms]

CreateTypeOK ==
    /\ pc \in [Requests -> {"idle", "locking", "evaluated", "committed", "done"}]
    /\ lock \in [Rooms -> Requests \cup {NoRequest}]
    /\ txNow \in [Requests -> Nat]
    /\ sawPriority \in [Requests -> BOOLEAN]
    /\ excluded \in [Requests -> SUBSET Bookings]
    /\ targets \in [Requests -> SUBSET Bookings]
    /\ free \in [Requests -> BOOLEAN]
    /\ review \in [Requests -> [excluded : SUBSET Bookings, targets : SUBSET Bookings]]
    /\ overrideLog \subseteq LogEntry
    /\ overrideMail \subseteq (Requests \X Bookings)

CreateInit ==
    /\ pc = [r \in Requests |-> "idle"]
    /\ lock = [m \in Rooms |-> NoRequest]
    /\ txNow = [r \in Requests |-> 0]
    /\ sawPriority = [r \in Requests |-> FALSE]
    /\ excluded = [r \in Requests |-> {}]
    /\ targets = [r \in Requests |-> {}]
    /\ free = [r \in Requests |-> FALSE]
    /\ review = [r \in Requests |-> NoReview]
    /\ overrideLog = {}
    /\ overrideMail = {}

-----------------------------------------------------------------------------
(* Evaluation of a proposal.  A view x says what the evaluator looks at:   *)
(* x.ex the excluded occurrences, x.t the database's now(), x.at the clock *)
(* the override rule compares with, x.may whether it may override at all.  *)

IsMinistry(r) == MinistryOf[r] # NoMinistry

\* Active, and the Booker is its current primary or secondary steward.
Eligible(r) == IsMinistry(r) => ministry[MinistryOf[r]] # "inactive"

HasPriority(r) == IsMinistry(r) /\ ministry[MinistryOf[r]] = "priority"

Overridable(c, x) == IsRental(c) /\ x.may /\ StartOf(c) > x.at

Displaceable(b, x) == {c \in Occupants(b, x.t) : Overridable(c, x)}

Blocked(b, x) == \E c \in Occupants(b, x.t) : ~Overridable(c, x)

Closed(r, b) == InBlackout(b) \/ (r \in MemberRequests /\ b \in OutsideHours)

\* _weekly_quota_conflict_dates: Personal Series only, per Booker and week.
OverQuota(r, b, x) ==
    /\ r \in SeriesRequests
    /\ ~IsMinistry(r)
    /\ \E c \in Bookings :
          /\ IsRental(c)
          /\ Booker[RequestOf[c]] = Booker[r]
          /\ WeekOf[c] = WeekOf[b]
          /\ ActiveOccupancy(c, x.t)

Blocking(r, b, x) == Blocked(b, x) \/ Closed(r, b) \/ OverQuota(r, b, x)

\* Only occurrences that currently conflict may be left out, and enough of
\* them must remain.
ValidExclusions(r, x) ==
    /\ \A b \in x.ex : Blocking(r, b, x) \/ Displaceable(b, x) # {}
    /\ r \in SeriesRequests => Cardinality(Proposed(r) \ x.ex) >= MinOccurrences

Impact(r, x) == UNION {Displaceable(b, x) : b \in Proposed(r) \ x.ex}

Confirmable(r, x) ==
    /\ ValidExclusions(r, x)
    /\ \A b \in Proposed(r) \ x.ex : ~Blocking(r, b, x)

\* require_reviewed_override: the token is bound to the proposal with its
\* exclusions, and must name every target.
Reviewed(r, x) ==
    \/ Impact(r, x) = {}
    \/ r \in SeriesRequests \ MemberRequests
    \/ review[r].excluded = x.ex /\ Impact(r, x) \subseteq review[r].targets

\* The One-time path reads clock and Ministry under the locks; an Operator's
\* One-time create never overrides.  The Series path keeps what
\* _prepare_series read before the locks.
CreateView(r) ==
    IF r \in OneTimeRequests
    THEN [ex |-> {}, t |-> txNow[r], at |-> now,
          may |-> r \in MemberRequests /\ HasPriority(r)]
    ELSE [ex |-> excluded[r], t |-> txNow[r], at |-> txNow[r], may |-> sawPriority[r]]

ReviewView(r, ex) == [ex |-> ex, t |-> now, at |-> now, may |-> HasPriority(r)]

Exclusions(r) == IF r \in SeriesRequests THEN SUBSET Proposed(r) ELSE {{}}

-----------------------------------------------------------------------------
(* The steps of a request.                                                 *)

\* A member's Draft read or Series preview: no lock, no write; it issues a
\* token when the proposal is confirmable and displaces something.
Review(r, ex) ==
    LET x == ReviewView(r, ex) IN
    /\ pc[r] = "idle"
    /\ r \in MemberRequests
    /\ Confirmable(r, x)
    /\ Impact(r, x) # {}
    /\ review' = [review EXCEPT ![r] = [excluded |-> ex, targets |-> Impact(r, x)]]
    /\ UNCHANGED <<tableVars, pc, lock, txNow, sawPriority, excluded, targets, free,
                   overrideLog, overrideMail>>

\* The gates and the preparation, up to the first lock statement, which opens
\* the transaction.
Begin(r, ex) ==
    /\ pc[r] = "idle"
    /\ Eligible(r)
    /\ r \in SeriesRequests => Cardinality(Proposed(r)) >= MinOccurrences
    /\ pc' = [pc EXCEPT ![r] = "locking"]
    /\ txNow' = [txNow EXCEPT ![r] = now]
    /\ sawPriority' = [sawPriority EXCEPT ![r] = HasPriority(r)]
    /\ excluded' = [excluded EXCEPT ![r] = ex]
    /\ UNCHANGED <<tableVars, lock, targets, free, review, overrideLog, overrideMail>>

\* Mutant: only the first room of a request is locked.
MissingFirstOnly(r) ==
    {m \in RoomsOf(r) : lock[m] # r /\ \A n \in RoomsOf(r) : m <= n}

Missing(r) == {m \in RoomsOf(r) : lock[m] # r}

\* Mutant: the rooms are locked in whatever order the request names them.
NextRoomUnsorted(r, m) == m \in Missing(r)

\* lock_rooms asks for one room after the other, in sorted order.
NextRoom(r, m) == m \in Missing(r) /\ \A n \in Missing(r) : m <= n

\* Mutant: a lock that another transaction holds is granted again.
AcquireRoomShared(r) ==
    /\ pc[r] = "locking"
    /\ \E m \in Rooms : NextRoom(r, m) /\ lock' = [lock EXCEPT ![m] = r]
    /\ UNCHANGED <<tableVars, pc, txNow, sawPriority, excluded, targets, free, review,
                   overrideLog, overrideMail>>

AcquireRoom(r) ==
    /\ pc[r] = "locking"
    /\ \E m \in Rooms :
          /\ NextRoom(r, m)
          /\ lock[m] = NoRequest
          /\ lock' = [lock EXCEPT ![m] = r]
    /\ UNCHANGED <<tableVars, pc, txNow, sawPriority, excluded, targets, free, review,
                   overrideLog, overrideMail>>

Released(r) == [m \in Rooms |-> IF lock[m] = r THEN NoRequest ELSE lock[m]]

Locked(r) == pc[r] = "locking" /\ Missing(r) = {}

Acceptable(r) == LET x == CreateView(r) IN Confirmable(r, x) /\ Reviewed(r, x)

Accept(r) ==
    /\ Locked(r)
    /\ Acceptable(r)
    /\ pc' = [pc EXCEPT ![r] = "evaluated"]
    /\ targets' = [targets EXCEPT ![r] = Impact(r, CreateView(r))]
    /\ free' = [free EXCEPT ![r] = IsMinistry(r) /\ Eligible(r)]
    /\ UNCHANGED <<tableVars, lock, txNow, sawPriority, excluded, review,
                   overrideLog, overrideMail>>

\* The request is answered; what it kept in memory goes.
Finish(r) ==
    /\ pc' = [pc EXCEPT ![r] = "done"]
    /\ txNow' = [txNow EXCEPT ![r] = 0]
    /\ sawPriority' = [sawPriority EXCEPT ![r] = FALSE]
    /\ excluded' = [excluded EXCEPT ![r] = {}]
    /\ targets' = [targets EXCEPT ![r] = {}]
    /\ free' = [free EXCEPT ![r] = FALSE]
    /\ review' = [review EXCEPT ![r] = NoReview]

\* Mutant: a rollback runs the queued callbacks.
RollbackRunsCallbacks(r) ==
    /\ Finish(r)
    /\ lock' = Released(r)
    /\ overrideMail' = overrideMail \cup ({r} \X targets[r])
    /\ UNCHANGED <<tableVars, overrideLog>>

\* The transaction ends without a trace and its advisory locks go with it.
Rollback(r) ==
    /\ Finish(r)
    /\ lock' = Released(r)
    /\ UNCHANGED <<tableVars, overrideLog, overrideMail>>

\* A conflict, a closed room, a missing or a stale review.
Reject(r) == Locked(r) /\ ~Acceptable(r) /\ Rollback(r)

\* Pricing refuses, a statement fails, the worker dies.
Abort(r) == pc[r] \in {"locking", "evaluated"} /\ Rollback(r)

\* Mutant: the excluded dates are materialized all the same.
KeptWithExcluded(r) == Proposed(r)

Kept(r) == Proposed(r) \ excluded[r]

\* Only an entirely free Series skips the payment hold.
CreatedStatus(r) == IF r \in SeriesRequests /\ ~free[r] THEN "pending_payment" ELSE "confirmed"

CreatedHold(r) == IF free[r] THEN NoHold ELSE txNow[r] + HoldLength

\* One row per replacement, displaced Booking and overlapping room.
LogRows(r) ==
    {e \in LogEntry : /\ e.by \in Kept(r)
                      /\ e.displaced \in targets[r]
                      /\ \E k \in Lines[e.by], l \in Lines[e.displaced] :
                            Overlap(k, l) /\ k.room = e.room}

CommittedBooking(r) ==
    [b \in Bookings |->
        IF b \in Kept(r) THEN [status |-> CreatedStatus(r), slots |-> TRUE]
        ELSE IF b \in targets[r] THEN [status |-> "overridden", slots |-> FALSE]
        ELSE booking[b]]

Commit(r) ==
    /\ pc[r] = "evaluated"
    /\ RowsFree(targets[r], NoRequest)
    /\ pc' = [pc EXCEPT ![r] = "committed"]
    /\ lock' = Released(r)
    /\ booking' = CommittedBooking(r)
    /\ series' = IF r \in SeriesRequests
                 THEN [series EXCEPT ![r] = [status |-> CreatedStatus(r), hold |-> CreatedHold(r)]]
                 ELSE series
    /\ lapsed' = IF r \in SeriesRequests /\ ~HoldActive(CreatedHold(r), now)
                 THEN lapsed \cup {r} ELSE lapsed
    /\ overrideLog' = overrideLog \cup LogRows(r)
    /\ UNCHANGED <<ministry, blackout, now, dirty, txNow, sawPriority, excluded, targets, free,
                   review, overrideMail>>

\* The after-commit callback.  The process may die before it, and a failing
\* mail service is logged and forgotten.
Notify(r) ==
    /\ pc[r] = "committed"
    /\ Finish(r)
    /\ overrideMail' \in {overrideMail, overrideMail \cup ({r} \X targets[r])}
    /\ UNCHANGED <<tableVars, lock, overrideLog>>

\* What the request does by itself once it was sent.
Proceed(r) == AcquireRoom(r) \/ Accept(r) \/ Reject(r) \/ Commit(r) \/ Notify(r)

Create(r) ==
    \/ \E ex \in Exclusions(r) : Review(r, ex) \/ Begin(r, ex)
    \/ Proceed(r)
    \/ Abort(r)

=============================================================================
