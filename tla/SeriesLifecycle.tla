--------------------------- MODULE SeriesLifecycle ---------------------------
(***************************************************************************)
(* What happens to a Series after it was created: Booking Payment          *)
(* Confirmation, the Pending-payment expiry sweep, the cancellation scopes *)
(* of RecurringBookingService, and BookingService's cancellation of one    *)
(* Booking.  None of these takes a room lock, and each of the first three  *)
(* reads rows in one statement and rewrites them by id in a later one.     *)
(***************************************************************************)
EXTENDS OccupancyTables

CONSTANTS
    Confirmers,   \* concurrent confirm_payment requests
    Cancellers,   \* concurrent cancel_series and cancel_my_series requests
    Workers,      \* API workers, each with a sweep loop
    NoSeries, NoWorker

ASSUME LifecycleAssumption ==
    /\ Cancellers \cup Workers \subseteq Writers
    /\ Cancellers \cap Workers = {}
    /\ Confirmers \cap Writers = {}
    /\ NoSeries \notin SeriesRequests
    /\ NoWorker \notin Workers

VARIABLES
    confirming,   \* the Series a confirm_payment found payable, or NoSeries
    cancelling,   \* what a cancellation read: clock, Series, its status, targets
    sweepLock,    \* the session-level advisory lock of the sweep
    todo,         \* expired Series a sweep has listed and not finished yet
    sweeping,     \* the Series a sweep visits and the rows it means to cancel
    expiryMail    \* Series whose Booker was told the hold expired

sweepVars == <<sweepLock, todo, sweeping, expiryMail>>

lifecycleVars == <<confirming, cancelling, sweepVars>>

Idle == [phase |-> "idle", of |-> NoSeries, at |-> 0, targets |-> {}, whole |-> FALSE,
         was |-> "absent"]

Cancellation == [phase : {"read", "written"}, of : SeriesRequests, at : Nat,
                 targets : SUBSET Bookings, whole : BOOLEAN, was : SeriesStatus]

NoVisit == [of |-> NoSeries, rows |-> {}]

Visit == [of : SeriesRequests \cup {NoSeries}, rows : SUBSET (Bookings \cup SeriesRequests)]

LifecycleTypeOK ==
    /\ confirming \in [Confirmers -> SeriesRequests \cup {NoSeries}]
    /\ cancelling \in [Cancellers -> Cancellation \cup {Idle}]
    /\ sweepLock \in Workers \cup {NoWorker}
    /\ todo \in [Workers -> SUBSET SeriesRequests]
    /\ sweeping \in [Workers -> Visit]
    /\ expiryMail \subseteq SeriesRequests

LifecycleInit ==
    /\ confirming = [c \in Confirmers |-> NoSeries]
    /\ cancelling = [c \in Cancellers |-> Idle]
    /\ sweepLock = NoWorker
    /\ todo = [w \in Workers |-> {}]
    /\ sweeping = [w \in Workers |-> NoVisit]
    /\ expiryMail = {}

-----------------------------------------------------------------------------
(* confirm_payment                                                         *)

\* A Series that is already confirmed is returned as it is; one that is not
\* pending, or whose hold ran out, is an error.  Neither changes anything.
ConfirmCheck(c, s) ==
    /\ confirming[c] = NoSeries
    /\ series[s].status = "pending_payment"
    /\ HoldActive(series[s].hold, now)
    /\ confirming' = [confirming EXCEPT ![c] = s]
    /\ UNCHANGED <<tableVars, cancelling, sweepVars>>

\* Mutant: only the occurrences that lie ahead are confirmed.
ConfirmCommitFuture(c) ==
    LET s == confirming[c] IN
    /\ s # NoSeries
    /\ RowsFree({s} \cup {b \in Proposed(s) : booking[b].status = "pending_payment"}, c)
    /\ series' = [series EXCEPT ![s] = [status |-> "confirmed", hold |-> NoHold]]
    /\ booking' = [b \in Bookings |->
                     IF b \in Proposed(s) /\ Cancellable(b, now)
                     THEN [booking[b] EXCEPT !.status = "confirmed"] ELSE booking[b]]
    /\ confirming' = [confirming EXCEPT ![c] = NoSeries]
    /\ UNCHANGED <<ministry, blackout, now, lapsed, dirty, cancelling, sweepVars>>

\* Mutant: every occurrence is confirmed, whatever its status.
ConfirmCommitAll(c) ==
    LET s == confirming[c] IN
    /\ s # NoSeries
    /\ RowsFree({s} \cup {b \in Proposed(s) : booking[b].status = "pending_payment"}, c)
    /\ series' = [series EXCEPT ![s] = [status |-> "confirmed", hold |-> NoHold]]
    /\ booking' = [b \in Bookings |->
                     IF b \in Proposed(s) /\ booking[b].status # "absent"
                     THEN [booking[b] EXCEPT !.status = "confirmed"] ELSE booking[b]]
    /\ confirming' = [confirming EXCEPT ![c] = NoSeries]
    /\ UNCHANGED <<ministry, blackout, now, lapsed, dirty, cancelling, sweepVars>>

\* update_series rewrites the row whatever it says by now;
\* confirm_pending_series_bookings only touches rows that are still pending.
ConfirmCommit(c) ==
    LET s == confirming[c] IN
    /\ s # NoSeries
    /\ RowsFree({s} \cup {b \in Proposed(s) : booking[b].status = "pending_payment"}, c)
    /\ series' = [series EXCEPT ![s] = [status |-> "confirmed", hold |-> NoHold]]
    /\ booking' = [b \in Bookings |->
                     IF b \in Proposed(s) /\ booking[b].status = "pending_payment"
                     THEN [booking[b] EXCEPT !.status = "confirmed"] ELSE booking[b]]
    /\ confirming' = [confirming EXCEPT ![c] = NoSeries]
    /\ UNCHANGED <<ministry, blackout, now, lapsed, dirty, cancelling, sweepVars>>

ConfirmAbort(c) ==
    /\ confirming[c] # NoSeries
    /\ confirming' = [confirming EXCEPT ![c] = NoSeries]
    /\ UNCHANGED <<tableVars, cancelling, sweepVars>>

-----------------------------------------------------------------------------
(* cancel_series and cancel_my_series                                      *)

\* _cancellation_targets.  scope "occurrence" of a historical occurrence is an
\* error; every other selection may be empty.
Selected(s, scope, pivot) ==
    LET live == {b \in Proposed(s) : Cancellable(b, now)} IN
    CASE scope = "occurrence"      -> live \cap {pivot}
      [] scope = "this_and_future" -> {b \in live : StartOf(b) >= StartOf(pivot)}
      [] scope = "entire_series"   -> live

CancelRead(c, s, scope, pivot) ==
    /\ cancelling[c].phase = "idle"
    /\ series[s].status # "absent"
    /\ scope # "entire_series" => booking[pivot].status # "absent"
    /\ scope = "occurrence" => StartOf(pivot) > now
    /\ cancelling' = [cancelling EXCEPT ![c] =
            [phase |-> "read", of |-> s, at |-> now, targets |-> Selected(s, scope, pivot),
             whole |-> scope = "entire_series", was |-> series[s].status]]
    /\ UNCHANGED <<tableVars, confirming, sweepVars>>

\* Each target is cancelled by id; then the occurrences are read again, where
\* the transaction sees its own writes and what others committed.  The Series'
\* status and the clock are those of the first read.
CancelWrite(c) ==
    LET k == cancelling[c]
        remaining == {b \in Proposed(k.of) \ k.targets : Cancellable(b, k.at)}
        rows == k.targets \cup (IF (k.whole \/ remaining = {}) /\ k.was # "cancelled"
                                THEN {k.of} ELSE {})
    IN
    /\ k.phase = "read"
    /\ RowsFree(rows, c)
    /\ dirty' = [dirty EXCEPT ![c] = rows]
    /\ cancelling' = [cancelling EXCEPT ![c].phase = "written"]
    /\ UNCHANGED <<booking, series, ministry, blackout, now, lapsed, confirming, sweepVars>>

CancelCommit(c) ==
    /\ cancelling[c].phase = "written"
    /\ booking' = CancelledBooking(dirty[c])
    /\ series' = CancelledSeries(dirty[c], TRUE)
    /\ dirty' = [dirty EXCEPT ![c] = {}]
    /\ cancelling' = [cancelling EXCEPT ![c] = Idle]
    /\ UNCHANGED <<ministry, blackout, now, lapsed, confirming, sweepVars>>

CancelAbort(c) ==
    /\ cancelling[c].phase # "idle"
    /\ dirty' = [dirty EXCEPT ![c] = {}]
    /\ cancelling' = [cancelling EXCEPT ![c] = Idle]
    /\ UNCHANGED <<booking, series, ministry, blackout, now, lapsed, confirming, sweepVars>>

\* BookingService.cancel_booking: one UPDATE of whatever row has that id; the
\* scope "series" leaves the slots as they are.  The Series is not touched.
CancelBooking(b) ==
    /\ booking[b].status # "absent"
    /\ RowsFree({b}, NoWorker)
    /\ \E scope \in {"single", "series"} :
          booking' = [booking EXCEPT ![b] = [status |-> "cancelled",
                                             slots |-> scope = "series" /\ booking[b].slots]]
    /\ UNCHANGED <<series, ministry, blackout, now, lapsed, dirty, lifecycleVars>>

-----------------------------------------------------------------------------
(* The expiry sweep.                                                       *)

\* Mutant: the deadline is not looked at.
SweepBeginEarly(w) ==
    /\ sweepLock = NoWorker
    /\ sweepLock' = w
    /\ todo' = [todo EXCEPT ![w] = {s \in SeriesRequests : series[s].status = "pending_payment"}]
    /\ UNCHANGED <<tableVars, confirming, cancelling, sweeping, expiryMail>>

\* pg_try_advisory_lock, then list_expired_pending_series.  A worker that
\* does not get the lock does nothing until its next round.
SweepBegin(w) ==
    /\ sweepLock = NoWorker
    /\ sweepLock' = w
    /\ todo' = [todo EXCEPT ![w] = {s \in Expired(now) : series[s].status = "pending_payment"}]
    /\ UNCHANGED <<tableVars, confirming, cancelling, sweeping, expiryMail>>

\* The occurrences are read later than the list, and rewritten later still.
SweepRead(w, s) ==
    /\ sweepLock = w
    /\ s \in todo[w]
    /\ sweeping[w].of = NoSeries
    /\ sweeping' = [sweeping EXCEPT ![w] =
            [of |-> s,
             rows |-> {s} \cup {b \in Proposed(s) : booking[b].status = "pending_payment"}]]
    /\ UNCHANGED <<tableVars, confirming, cancelling, sweepLock, todo, expiryMail>>

\* update_series and cancel_booking wait for the rows; then the Series is done.
SweepVisited(w) ==
    /\ sweepLock = w
    /\ sweeping[w].of # NoSeries
    /\ RowsFree(sweeping[w].rows, w)
    /\ todo' = [todo EXCEPT ![w] = @ \ {sweeping[w].of}]
    /\ sweeping' = [sweeping EXCEPT ![w] = NoVisit]
    /\ UNCHANGED <<booking, series, ministry, blackout, now, lapsed, confirming, cancelling, sweepLock>>

\* The mail goes out before the commit.  If it fails, the failure is logged.
SweepWrite(w) ==
    /\ SweepVisited(w)
    /\ dirty' = [dirty EXCEPT ![w] = @ \cup sweeping[w].rows]
    /\ expiryMail' \in {expiryMail, expiryMail \cup {sweeping[w].of}}

\* A query of the mail service fails on the same session: the session rolls
\* back what the sweep has written so far, the exception is swallowed, and the
\* loop goes on in a new transaction.
SweepLosesWrites(w) ==
    /\ SweepVisited(w)
    /\ dirty' = [dirty EXCEPT ![w] = {}]
    /\ UNCHANGED expiryMail

\* Mutant: the session-level lock outlives the sweep.
SweepCommitKeepsLock(w) ==
    /\ sweepLock = w
    /\ todo[w] = {}
    /\ booking' = CancelledBooking(dirty[w])
    /\ series' = CancelledSeries(dirty[w], FALSE)
    /\ dirty' = [dirty EXCEPT ![w] = {}]
    /\ UNCHANGED <<ministry, blackout, now, lapsed, confirming, cancelling, sweepLock, todo, sweeping, expiryMail>>

\* Commit, then release the lock.
SweepCommit(w) ==
    /\ sweepLock = w
    /\ todo[w] = {}
    /\ booking' = CancelledBooking(dirty[w])
    /\ series' = CancelledSeries(dirty[w], FALSE)
    /\ dirty' = [dirty EXCEPT ![w] = {}]
    /\ sweepLock' = NoWorker
    /\ UNCHANGED <<ministry, blackout, now, lapsed, confirming, cancelling, todo, sweeping, expiryMail>>

\* The run fails or the worker dies: rollback; the lock is released, or goes
\* with the session.
SweepAbort(w) ==
    /\ sweepLock = w
    /\ todo' = [todo EXCEPT ![w] = {}]
    /\ sweeping' = [sweeping EXCEPT ![w] = NoVisit]
    /\ dirty' = [dirty EXCEPT ![w] = {}]
    /\ sweepLock' = NoWorker
    /\ UNCHANGED <<booking, series, ministry, blackout, now, lapsed, confirming, cancelling, expiryMail>>

-----------------------------------------------------------------------------
Confirm(c) ==
    \/ \E s \in SeriesRequests : ConfirmCheck(c, s)
    \/ ConfirmCommit(c)
    \/ ConfirmAbort(c)

Cancel(c) ==
    \/ \E s \in SeriesRequests : \E scope \in {"occurrence", "this_and_future", "entire_series"} :
          \E pivot \in Proposed(s) : CancelRead(c, s, scope, pivot)
    \/ CancelWrite(c)
    \/ CancelCommit(c)
    \/ CancelAbort(c)

Sweep(w) ==
    \/ SweepBegin(w)
    \/ \E s \in SeriesRequests : SweepRead(w, s)
    \/ SweepWrite(w)
    \/ SweepLosesWrites(w)
    \/ SweepCommit(w)
    \/ SweepAbort(w)

=============================================================================
