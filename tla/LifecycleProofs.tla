--------------------------- MODULE LifecycleProofs ---------------------------
(***************************************************************************)
(* What happens to a Booking after it was created: displaced Rentals stay  *)
(* released, notifications are true, a Series and its occurrences agree,   *)
(* the sweep never runs ahead of a deadline, and a cancelled Series keeps  *)
(* no live occurrence ahead.  For every choice of rooms, requests,         *)
(* Bookings, confirmers, cancellers, workers, Operators and Blackouts.     *)
(*                                                                         *)
(* The argument.  Every transaction reads rows in one statement and        *)
(* rewrites them by id in a later one, so what it carries in between is    *)
(* what matters.  RowsInv: a row that a transaction has in hand exists,    *)
(* and a row exists only after the commit of its request; hence no create  *)
(* can resurrect a row that others have read.  On top of it one invariant  *)
(* per service says what its stale reads are still good for when it        *)
(* writes.                                                                 *)
(***************************************************************************)
EXTENDS FacilityBookingProofs, FiniteSetTheorems, WellFoundedInduction

-----------------------------------------------------------------------------
(* What a step can do to the rows.                                         *)

\* Rows are inserted by the commit of a create, and otherwise confirmed by a
\* payment, cancelled by id from what a transaction has updated, or cancelled
\* one Booking at a time.
LEMMA RowEffects ==
    ASSUME [Next]_vars
    PROVE  \/ UNCHANGED <<booking, series>>
           \/ \E r \in Requests : Commit(r)
           \/ \E c \in Confirmers : ConfirmCommit(c)
           \/ \E w \in Writers \cap (Cancellers \cup Workers \cup Operators), clear \in BOOLEAN :
                 booking' = CancelledBooking(dirty[w]) /\ series' = CancelledSeries(dirty[w], clear)
           \/ \E b \in Bookings : CancelBooking(b)
<1> USE DEF tableVars
<1>1. CASE Environment
    BY <1>1 DEF Environment, Tick, EditMinistry
<1>2. ASSUME NEW r \in Requests, Create(r) PROVE Commit(r) \/ UNCHANGED <<booking, series>>
    BY <1>2 DEF Create, Proceed, Review, Begin, AcquireRoom, Accept, Reject, Abort, Rollback,
       Notify
<1>3. ASSUME NEW c \in Confirmers, Confirm(c) PROVE ConfirmCommit(c) \/ UNCHANGED <<booking, series>>
    BY <1>3 DEF Confirm, ConfirmCheck, ConfirmAbort
<1>4. ASSUME NEW c \in Cancellers, Cancel(c) PROVE CancelCommit(c) \/ UNCHANGED <<booking, series>>
    BY <1>4 DEF Cancel, CancelRead, CancelWrite, CancelAbort
<1>5. ASSUME NEW w \in Workers, Sweep(w) PROVE SweepCommit(w) \/ UNCHANGED <<booking, series>>
    BY <1>5 DEF Sweep, SweepBegin, SweepRead, SweepWrite, SweepLosesWrites, SweepVisited,
       SweepAbort
<1>6. ASSUME NEW a \in Operators, CloseRooms(a)
      PROVE  CommitBlackout(a) \/ UNCHANGED <<booking, series>>
    BY <1>6 DEF CloseRooms, CreateBlackout, UpdateBlackout, WriteBlackout, AbortBlackout
<1>7. ASSUME NEW k \in Blackouts, DeleteBlackout(k) \/ RestoreBlackout(k)
      PROVE  UNCHANGED <<booking, series>>
    BY <1>7 DEF DeleteBlackout, RestoreBlackout
<1>8. ASSUME NEW w, CancelCommit(w) \/ SweepCommit(w) \/ CommitBlackout(w)
      PROVE  \E clear \in BOOLEAN : /\ booking' = CancelledBooking(dirty[w])
                                    /\ series' = CancelledSeries(dirty[w], clear)
    BY <1>8 DEF CancelCommit, SweepCommit, CommitBlackout
<1>9. CASE UNCHANGED vars
    BY <1>9 DEF vars
<1> HIDE DEF tableVars
<1>10. CASE Creation
    BY <1>10, <1>2 DEF Creation
<1>11. CASE Lifecycle
    BY <1>11, <1>3, <1>4, <1>5, <1>8, LifecycleAssumption DEF Lifecycle
<1>12. CASE Closures
    BY <1>12, <1>6, <1>7, <1>8, BlackoutAssumption DEF Closures
<1> QED
    BY <1>1, <1>9, <1>10, <1>11, <1>12 DEF Next

\* The rows a transaction has updated are those its own writing statement
\* chose; everybody else's step leaves them alone.
LEMMA DirtyEffects ==
    ASSUME TypeOK, [Next]_vars, NEW w \in Writers, dirty'[w] # dirty[w], dirty'[w] # {}
    PROVE  \/ w \in Cancellers /\ CancelWrite(w)
           \/ w \in Workers /\ SweepWrite(w)
           \/ w \in Operators /\ WriteBlackout(w)
<1> USE DEF TypeOK, TablesTypeOK
<1>1. ~Environment /\ ~(UNCHANGED vars)
    BY DEF Environment, Tick, EditMinistry, vars, tableVars
<1>2. \A r \in Requests : ~Create(r)
    BY DEF Create, Proceed, Review, Begin, AcquireRoom, Accept, Reject, Abort, Rollback, Commit,
       Notify, tableVars
<1>3. \A c \in Confirmers : ~Confirm(c)
    BY DEF Confirm, ConfirmCheck, ConfirmCommit, ConfirmAbort, tableVars
<1>4. \A b \in Bookings : ~CancelBooking(b)
    BY DEF CancelBooking
<1>5. \A k \in Blackouts : ~DeleteBlackout(k) /\ ~RestoreBlackout(k)
    BY DEF DeleteBlackout, RestoreBlackout
<1>6. ASSUME NEW c \in Cancellers, Cancel(c) PROVE c = w /\ CancelWrite(c)
    BY <1>6, LifecycleAssumption DEF Cancel, CancelRead, CancelWrite, CancelCommit, CancelAbort, tableVars
<1>7. ASSUME NEW v \in Workers, Sweep(v) PROVE v = w /\ SweepWrite(v)
    BY <1>7, LifecycleAssumption DEF Sweep, SweepBegin, SweepRead, SweepWrite, SweepLosesWrites,
       SweepVisited, SweepCommit, SweepAbort, tableVars
<1>8. ASSUME NEW a \in Operators, CloseRooms(a) PROVE a = w /\ WriteBlackout(a)
    BY <1>8, BlackoutAssumption DEF CloseRooms, CreateBlackout, UpdateBlackout, WriteBlackout,
       CommitBlackout, AbortBlackout, tableVars
<1> QED
    BY <1>1, <1>2, <1>3, <1>4, <1>5, <1>6, <1>7, <1>8 DEF Next, Creation, Lifecycle, Closures

-----------------------------------------------------------------------------
(* Rows exist before anybody has them in hand.                             *)

Rows == Created \cup {s \in SeriesRequests : series[s].status # "absent"}

\* A row exists only after the commit of the request that inserts it, an
\* occurrence only together with its Series, and no hold without a Series.
InsertedByCommit ==
    /\ \A b \in Created : pc[RequestOf[b]] \in {"committed", "done"}
    /\ \A s \in SeriesRequests \cap Rows : pc[s] \in {"committed", "done"}
    /\ \A b \in Created : RequestOf[b] \in SeriesRequests => RequestOf[b] \in Rows
    /\ \A s \in SeriesRequests \ Rows : series[s].hold = NoHold
    /\ lapsed \subseteq Rows

\* What a transaction has read or updated exists.
InHandExist ==
    /\ \A r \in Requests : targets[r] \subseteq Created
    /\ \A c \in Confirmers : confirming[c] # NoSeries => confirming[c] \in Rows
    /\ \A c \in Cancellers : cancelling[c].phase # "idle" =>
          cancelling[c].of \in Rows /\ cancelling[c].targets \subseteq Created
    /\ \A w \in Workers : todo[w] \subseteq Rows /\ sweeping[w].rows \subseteq Rows
    /\ \A a \in Operators : closing[a].targets \subseteq Created
    /\ \A w \in Writers : dirty[w] \subseteq Rows
    /\ \A e \in overrideLog : e.displaced \in Created

RowsInv == OccupancyInv /\ InsertedByCommit /\ InHandExist

\* No step deletes a row.
LEMMA RowsStay ==
    ASSUME TypeOK, [Next]_vars
    PROVE  Created \subseteq Created' /\ Rows \subseteq Rows'
<1> USE DEF TypeOK, TablesTypeOK, Created, Rows
<1>1. ASSUME NEW r \in Requests, Commit(r) PROVE Created \subseteq Created' /\ Rows \subseteq Rows'
    <2>1. CreatedStatus(r) # "absent"
        BY DEF CreatedStatus
    <2>2. Created \subseteq Created'
        BY <1>1, <2>1 DEF Commit, CommittedBooking
    <2>3. \A s \in SeriesRequests : series[s].status # "absent" => series'[s].status # "absent"
        BY <1>1, <2>1 DEF Commit
    <2> QED
        BY <2>2, <2>3
<1>2. ASSUME NEW c \in Confirmers, ConfirmCommit(c)
      PROVE  Created \subseteq Created' /\ Rows \subseteq Rows'
    <2>1. \A b \in Bookings : booking[b].status # "absent" => booking'[b].status # "absent"
        BY <1>2 DEF ConfirmCommit
    <2>2. \A s \in SeriesRequests : series[s].status # "absent" => series'[s].status # "absent"
        BY <1>2 DEF ConfirmCommit
    <2> QED
        BY <2>1, <2>2
<1>3. ASSUME NEW w \in Writers, NEW clear \in BOOLEAN,
             booking' = CancelledBooking(dirty[w]), series' = CancelledSeries(dirty[w], clear)
      PROVE  Created \subseteq Created' /\ Rows \subseteq Rows'
    <2>1. \A b \in Bookings : booking[b].status # "absent" => booking'[b].status # "absent"
        BY <1>3 DEF CancelledBooking
    <2>2. \A s \in SeriesRequests : series[s].status # "absent" => series'[s].status # "absent"
        BY <1>3 DEF CancelledSeries
    <2> QED
        BY <2>1, <2>2
<1>4. ASSUME NEW b \in Bookings, CancelBooking(b)
      PROVE  Created \subseteq Created' /\ Rows \subseteq Rows'
    BY <1>4 DEF CancelBooking
<1>5. CASE UNCHANGED <<booking, series>>
    BY <1>5
<1> QED
    BY <1>1, <1>2, <1>3, <1>4, <1>5, RowEffects

\* A create that has committed stays committed, and only its own commit makes
\* a request committed.
LEMMA CommittedStays ==
    ASSUME TypeOK, [Next]_vars, NEW r \in Requests
    PROVE  /\ pc[r] \in {"committed", "done"} => pc'[r] \in {"committed", "done"}
           /\ (\E q \in Requests : Create(q)) \/ UNCHANGED createVars
<1> USE DEF TypeOK, CreateTypeOK
<1>1. (\E q \in Requests : Create(q)) \/ UNCHANGED createVars
    BY DEF Next, Environment, Creation, Lifecycle, Closures, vars
<1>2. ASSUME NEW q \in Requests, Create(q), pc[r] \in {"committed", "done"}
      PROVE  pc'[r] \in {"committed", "done"}
    BY <1>2 DEF Create, Proceed, Review, Begin, AcquireRoom, Accept, Reject, Abort, Rollback,
       Commit, Notify, Finish, Locked
<1> QED
    BY <1>1, <1>2 DEF createVars

\* Nothing but a commit inserts a row.
LEMMA OnlyCommitInserts ==
    ASSUME TypeOK, InHandExist, [Next]_vars, \A r \in Requests : ~Commit(r)
    PROVE  /\ Created' = Created /\ Rows' = Rows
           /\ \A s \in SeriesRequests \ Rows : series'[s] = series[s]
<1> USE DEF TypeOK, TablesTypeOK, Created, Rows
<1>1. ASSUME NEW c \in Confirmers, ConfirmCommit(c)
      PROVE  /\ \A b \in Bookings : booking[b].status = "absent" => booking'[b].status = "absent"
             /\ \A s \in SeriesRequests \ Rows : series'[s] = series[s]
    BY <1>1 DEF ConfirmCommit, InHandExist
<1>2. ASSUME NEW w \in Writers, NEW clear \in BOOLEAN,
             booking' = CancelledBooking(dirty[w]), series' = CancelledSeries(dirty[w], clear)
      PROVE  /\ \A b \in Bookings : booking[b].status = "absent" => booking'[b].status = "absent"
             /\ \A s \in SeriesRequests \ Rows : series'[s] = series[s]
    BY <1>2, RowIdsAssumption DEF CancelledBooking, CancelledSeries, InHandExist
<1>3. ASSUME NEW b \in Bookings, CancelBooking(b)
      PROVE  /\ \A c \in Bookings : booking[c].status = "absent" => booking'[c].status = "absent"
             /\ \A s \in SeriesRequests \ Rows : series'[s] = series[s]
    BY <1>3 DEF CancelBooking
<1>4. /\ \A b \in Bookings : booking[b].status = "absent" => booking'[b].status = "absent"
      /\ \A s \in SeriesRequests \ Rows : series'[s] = series[s]
    BY <1>1, <1>2, <1>3, RowEffects
<1> HIDE DEF Created, Rows
<1>5. Created' = Created
    BY <1>4, RowsStay DEF Created
<1>6. Rows' \subseteq Rows
    BY <1>4, <1>5 DEF Rows
<1> QED
    BY <1>4, <1>5, <1>6, RowsStay

\* A hold that lapses belonged to a Series with a deadline, or to the one that
\* is just being committed.
LEMMA LapsedEffects ==
    ASSUME TypeOK, [Next]_vars
    PROVE  /\ lapsed \subseteq lapsed'
           /\ \/ lapsed' \subseteq lapsed \cup {s \in SeriesRequests : series[s].hold # NoHold}
              \/ \E r \in Requests : Commit(r) /\ lapsed' \subseteq lapsed \cup {r}
<1>1. CASE Environment
    BY <1>1 DEF Environment, Tick, EditMinistry, Expired
<1>2. ASSUME NEW r \in Requests, Create(r)
      PROVE  lapsed' = lapsed \/ (Commit(r) /\ lapsed \subseteq lapsed' /\ lapsed' \subseteq lapsed \cup {r})
    <2>1. CASE Commit(r)
        BY <2>1 DEF Commit
    <2>2. CASE ~Commit(r)
        BY <1>2, <2>2 DEF Create, Proceed, Review, Begin, AcquireRoom, Accept, Reject, Abort,
           Rollback, Notify, tableVars
    <2> QED
        BY <2>1, <2>2
<1>3. CASE Lifecycle
    BY <1>3, LifecycleRows
<1>4. CASE Closures
    BY <1>4, ClosuresRows
<1>5. CASE UNCHANGED vars
    BY <1>5 DEF vars, tableVars
<1> QED
    BY <1>1, <1>2, <1>3, <1>4, <1>5 DEF Next, Creation

\* The commit of a create inserts the rows it keeps and no other.
LEMMA CommitInserts ==
    ASSUME TypeOK, InHandExist, NEW r \in Requests, Commit(r)
    PROVE  /\ Created' = Created \cup Kept(r)
           /\ Rows' = Rows \cup Kept(r) \cup ({r} \cap SeriesRequests)
           /\ \A s \in SeriesRequests : s # r => series'[s] = series[s]
<1> USE DEF TypeOK, TablesTypeOK
<1>1. CreatedStatus(r) # "absent"
    BY DEF CreatedStatus
<1>2. Created' = Created \cup Kept(r)
    <2>1. \A b \in Bookings : booking'[b].status # "absent" <=> b \in Kept(r) \/ b \in Created
        BY <1>1 DEF Commit, CommittedBooking, InHandExist, Created
    <2>2. Kept(r) \subseteq Bookings
        BY DEF Kept, Proposed
    <2> QED
        BY <2>1, <2>2 DEF Created
<1>3. \A s \in SeriesRequests : s # r => series'[s] = series[s]
    BY DEF Commit
<1>4. r \in SeriesRequests => series'[r].status # "absent"
    BY <1>1 DEF Commit
<1> QED
    BY <1>2, <1>3, <1>4 DEF Rows

\* Rows keep being inserted by commits only.
LEMMA NextInserted ==
    ASSUME RowsInv, [Next]_vars
    PROVE  InsertedByCommit'
<1> USE DEF RowsInv, OccupancyInv
<1>1. ASSUME NEW r \in Requests, Commit(r) PROVE InsertedByCommit'
    <2>1. /\ Created' = Created \cup Kept(r)
          /\ Rows' = Rows \cup Kept(r) \cup ({r} \cap SeriesRequests)
          /\ \A s \in SeriesRequests : s # r => series'[s] = series[s]
        BY <1>1, CommitInserts
    <2>2. pc' = [pc EXCEPT ![r] = "committed"] /\ pc \in [Requests -> {"idle", "locking", "evaluated", "committed", "done"}]
        BY <1>1 DEF Commit, TypeOK, CreateTypeOK
    <2>3. \A b \in Kept(r) : b \in Bookings /\ RequestOf[b] = r
        BY DEF Kept, Proposed
    <2>4. \A b \in Bookings : RequestOf[b] \in Requests
        BY RequestsAssumption
    <2>5. SeriesRequests \subseteq Requests /\ Created \subseteq Bookings
        BY DEF Requests, Created
    <2>6. lapsed' \subseteq lapsed \cup ({r} \cap SeriesRequests)
        BY <1>1 DEF Commit
    <2>7. \A b \in Created' : pc'[RequestOf[b]] \in {"committed", "done"}
        BY <2>1, <2>2, <2>3, <2>4, <2>5 DEF InsertedByCommit
    <2>8. \A s \in SeriesRequests \cap Rows' : pc'[s] \in {"committed", "done"}
        BY <2>1, <2>2, <2>3, <2>5, RowIdsAssumption DEF InsertedByCommit
    <2>9. \A b \in Created' : RequestOf[b] \in SeriesRequests => RequestOf[b] \in Rows'
        BY <2>1, <2>3 DEF InsertedByCommit
    <2>10. \A s \in SeriesRequests \ Rows' : series'[s].hold = NoHold
        BY <2>1 DEF InsertedByCommit
    <2>11. lapsed' \subseteq Rows'
        BY <2>1, <2>6 DEF InsertedByCommit
    <2> QED
        BY <2>7, <2>8, <2>9, <2>10, <2>11 DEF InsertedByCommit
<1>2. CASE \A r \in Requests : ~Commit(r)
    <2>1. /\ Created' = Created /\ Rows' = Rows
          /\ \A s \in SeriesRequests \ Rows : series'[s] = series[s]
        BY <1>2, OnlyCommitInserts
    <2>2. lapsed' \subseteq lapsed \cup {s \in SeriesRequests : series[s].hold # NoHold}
        BY <1>2, LapsedEffects
    <2>3. \A r \in Requests : pc[r] \in {"committed", "done"} => pc'[r] \in {"committed", "done"}
        BY CommittedStays
    <2>4. \A b \in Created : RequestOf[b] \in Requests
        BY RequestsAssumption DEF Created
    <2>5. SeriesRequests \subseteq Requests
        BY DEF Requests
    <2> QED
        BY <2>1, <2>2, <2>3, <2>4, <2>5 DEF InsertedByCommit
<1> QED
    BY <1>1, <1>2

\* What a request has in memory is changed by its own service only.
LEMMA Frames ==
    ASSUME [Next]_vars
    PROVE  /\ (\E r \in Requests : Create(r)) \/ UNCHANGED createVars
           /\ (\E c \in Confirmers : Confirm(c)) \/ UNCHANGED confirming
           /\ (\E c \in Cancellers : Cancel(c)) \/ UNCHANGED cancelling
           /\ (\E w \in Workers : Sweep(w)) \/ UNCHANGED <<todo, sweeping, expiryMail>>
           /\ (\E a \in Operators : CloseRooms(a)) \/ UNCHANGED closing
<1> USE DEF lifecycleVars, sweepVars
<1>1. CASE Environment \/ Creation \/ UNCHANGED vars
    BY <1>1 DEF Environment, Creation, vars
<1>2. CASE Closures
    BY <1>2 DEF Closures, DeleteBlackout, RestoreBlackout
<1>3. CASE Lifecycle
    <2>1. ASSUME NEW c \in Confirmers, Confirm(c)
          PROVE  UNCHANGED <<cancelling, todo, sweeping, expiryMail>>
        BY <2>1 DEF Confirm, ConfirmCheck, ConfirmCommit, ConfirmAbort
    <2>2. ASSUME NEW c \in Cancellers, Cancel(c)
          PROVE  UNCHANGED <<confirming, todo, sweeping, expiryMail>>
        BY <2>2 DEF Cancel, CancelRead, CancelWrite, CancelCommit, CancelAbort
    <2>3. ASSUME NEW w \in Workers, Sweep(w) PROVE UNCHANGED <<confirming, cancelling>>
        BY <2>3 DEF Sweep, SweepBegin, SweepRead, SweepWrite, SweepLosesWrites, SweepVisited,
           SweepCommit, SweepAbort
    <2>4. ASSUME NEW b \in Bookings, CancelBooking(b)
          PROVE  UNCHANGED <<confirming, cancelling, todo, sweeping, expiryMail>>
        BY <2>4 DEF CancelBooking
    <2> HIDE DEF lifecycleVars, sweepVars
    <2> QED
        BY <1>3, <2>1, <2>2, <2>3, <2>4 DEF Lifecycle
<1> QED
    BY <1>1, <1>2, <1>3 DEF Next

\* A Booking that a statement finds live or occupying exists.
LEMMA FoundExists ==
    ASSUME TypeOK
    PROVE  /\ \A b \in Bookings : booking[b].status \in LiveStatus => b \in Created
           /\ \A b \in Bookings, t \in Nat : Occupies(b, t) => b \in Created
BY DEF Created, LiveStatus, Occupies, ActiveOccupancy

\* What a create displaces was found to occupy its rooms.
LEMMA ImpactExists ==
    ASSUME TypeOK, NEW r \in Requests
    PROVE  Impact(r, CreateView(r)) \subseteq Created
<1>1. CreateView(r).t \in Nat
    BY DEF CreateView, TypeOK, CreateTypeOK
<1> QED
    BY <1>1, FoundExists DEF Impact, Displaceable, Occupants

\* A step of a create gives it only targets that exist, and logs only
\* displacements of its targets.
LEMMA CreateTargets ==
    ASSUME TypeOK, NEW r \in Requests, Create(r)
    PROVE  /\ \A q \in Requests : targets'[q] \in {targets[q], {}, Impact(r, CreateView(r))}
           /\ overrideLog' = overrideLog \/ (Commit(r) /\ overrideLog' = overrideLog \cup LogRows(r))
<1> USE DEF TypeOK, CreateTypeOK
<1>1. CASE Accept(r)
    BY <1>1 DEF Accept
<1>2. CASE Commit(r)
    BY <1>2 DEF Commit
<1>3. CASE Finish(r) /\ UNCHANGED overrideLog
    BY <1>3 DEF Finish
<1>4. CASE UNCHANGED <<targets, overrideLog>>
    BY <1>4
<1>5. \/ Accept(r) \/ Commit(r) \/ (Finish(r) /\ UNCHANGED overrideLog)
      \/ UNCHANGED <<targets, overrideLog>>
    BY DEF Create, Proceed, Review, Begin, AcquireRoom, Reject, Abort, Rollback, Notify
<1> QED
    BY <1>1, <1>2, <1>3, <1>4, <1>5

\* Statements only pick up rows that exist.
LEMMA NextInHand ==
    ASSUME RowsInv, [Next]_vars
    PROVE  InHandExist'
<1> USE DEF RowsInv, OccupancyInv
<1>1. Created \subseteq Created' /\ Rows \subseteq Rows' /\ Created \subseteq Rows
    BY RowsStay DEF Rows
<1>2. /\ \A r \in Requests : targets'[r] \subseteq Created'
      /\ \A e \in overrideLog' : e.displaced \in Created'
    <2>1. ASSUME NEW q \in Requests, Create(q)
          PROVE  /\ \A r \in Requests : targets'[r] \subseteq Created
                 /\ \A e \in overrideLog' : e.displaced \in Created
        <3>1. /\ \A r \in Requests : targets'[r] \in {targets[r], {}, Impact(q, CreateView(q))}
              /\ overrideLog' \in {overrideLog, overrideLog \cup LogRows(q)}
            BY <2>1, CreateTargets
        <3>2. \A e \in LogRows(q) : e.displaced \in targets[q]
            BY DEF LogRows
        <3> QED
            BY <3>1, <3>2, ImpactExists DEF InHandExist
    <2>2. CASE UNCHANGED createVars
        BY <1>1, <2>2 DEF createVars, InHandExist
    <2> QED
        BY <1>1, <2>1, <2>2, Frames
<1>3. \A c \in Confirmers : confirming'[c] # NoSeries => confirming'[c] \in Rows'
    <2>1. ASSUME NEW c \in Confirmers, Confirm(c)
          PROVE  \A d \in Confirmers : confirming'[d] # NoSeries => confirming'[d] \in Rows
        BY <2>1 DEF Confirm, ConfirmCheck, ConfirmCommit, ConfirmAbort, InHandExist, Rows,
           TypeOK, LifecycleTypeOK
    <2> QED
        BY <1>1, <2>1, Frames DEF InHandExist
<1>4. \A c \in Cancellers : cancelling'[c].phase # "idle" =>
          cancelling'[c].of \in Rows' /\ cancelling'[c].targets \subseteq Created'
    <2>1. ASSUME NEW c \in Cancellers, Cancel(c), NEW d \in Cancellers
          PROVE  cancelling'[d].phase # "idle" =>
                    cancelling'[d].of \in Rows /\ cancelling'[d].targets \subseteq Created
        <3> USE DEF TypeOK, LifecycleTypeOK
        <3>1. CASE cancelling'[d] = cancelling[d] \/ cancelling'[d] = Idle
            BY <3>1 DEF InHandExist, Idle
        <3>2. ASSUME NEW s \in SeriesRequests,
                     NEW scope \in {"occurrence", "this_and_future", "entire_series"},
                     NEW pivot \in Proposed(s), CancelRead(c, s, scope, pivot), d = c
              PROVE  cancelling'[d].of \in Rows /\ cancelling'[d].targets \subseteq Created
            <4>1. Selected(s, scope, pivot) \subseteq {b \in Proposed(s) : Cancellable(b, now)}
                <5>1. CASE scope = "occurrence"
                    BY <5>1 DEF Selected
                <5>2. CASE scope = "this_and_future"
                    BY <5>2 DEF Selected
                <5>3. CASE scope = "entire_series"
                    BY <5>3 DEF Selected
                <5> QED
                    BY <5>1, <5>2, <5>3
            <4>2. Selected(s, scope, pivot) \subseteq Created
                BY <4>1, FoundExists DEF Cancellable, Proposed
            <4> QED
                BY <3>2, <4>2 DEF CancelRead, Rows
        <3>3. CASE CancelWrite(c) /\ d = c
            <4>1. cancelling[c].phase = "read" /\ cancelling'[c].of = cancelling[c].of
                  /\ cancelling'[c].targets = cancelling[c].targets
                BY <3>3 DEF CancelWrite, Cancellation, Idle
            <4> QED
                BY <3>3, <4>1 DEF InHandExist
        <3>4. d = c \/ cancelling'[d] = cancelling[d]
            BY <2>1 DEF Cancel, CancelRead, CancelWrite, CancelCommit, CancelAbort
        <3>5. CASE CancelCommit(c) \/ CancelAbort(c)
            BY <3>1, <3>4, <3>5 DEF CancelCommit, CancelAbort
        <3> QED
            BY <2>1, <3>1, <3>2, <3>3, <3>4, <3>5 DEF Cancel
    <2> QED
        BY <1>1, <2>1, Frames DEF InHandExist
<1>5. \A w \in Workers : todo'[w] \subseteq Rows' /\ sweeping'[w].rows \subseteq Rows'
    <2>1. ASSUME NEW v \in Workers, Sweep(v), NEW w \in Workers
          PROVE  todo'[w] \subseteq Rows /\ sweeping'[w].rows \subseteq Rows
        <3> USE DEF InHandExist, TypeOK, LifecycleTypeOK
        <3>1. CASE SweepBegin(v)
            BY <3>1 DEF SweepBegin, Expired, Rows
        <3>2. ASSUME NEW s \in SeriesRequests, SweepRead(v, s)
              PROVE  todo'[w] \subseteq Rows /\ sweeping'[w].rows \subseteq Rows
            <4>1. {b \in Proposed(s) : booking[b].status = "pending_payment"} \subseteq Rows
                BY DEF Proposed, Rows, Created
            <4> QED
                BY <3>2, <4>1 DEF SweepRead
        <3>3. CASE SweepVisited(v)
            BY <3>3 DEF SweepVisited, NoVisit
        <3>4. CASE SweepCommit(v)
            BY <3>4 DEF SweepCommit
        <3>5. CASE SweepAbort(v)
            BY <3>5 DEF SweepAbort, NoVisit
        <3> QED
            BY <2>1, <3>1, <3>2, <3>3, <3>4, <3>5 DEF Sweep, SweepWrite, SweepLosesWrites
    <2> QED
        BY <1>1, <2>1, Frames DEF InHandExist
<1>6. \A a \in Operators : closing'[a].targets \subseteq Created'
    <2>1. ASSUME NEW a \in Operators, CloseRooms(a), NEW o \in Operators
          PROVE  closing'[o].targets \subseteq Created
        <3> USE DEF InHandExist, TypeOK, BlackoutTypeOK
        <3>1. \A state, shape : Impacted(state, shape) \subseteq Created
            BY FoundExists DEF Impacted, TablesTypeOK
        <3>2. CASE \E k \in Blackouts, state \in {"active", "inactive"}, shape \in Shapes :
                      CreateBlackout(a, k, state, shape) \/ UpdateBlackout(a, k, state, shape)
            BY <3>1, <3>2 DEF CreateBlackout, UpdateBlackout
        <3>3. CASE WriteBlackout(a)
            BY <3>3 DEF WriteBlackout, Closing, NoClosing
        <3>4. CASE CommitBlackout(a) \/ AbortBlackout(a)
            <4>1. closing' = [closing EXCEPT ![a] = NoClosing]
                BY <3>4 DEF CommitBlackout, AbortBlackout
            <4> QED
                BY <4>1 DEF NoClosing
        <3> QED
            BY <2>1, <3>2, <3>3, <3>4 DEF CloseRooms
    <2> QED
        BY <1>1, <2>1, Frames DEF InHandExist
<1>7. ASSUME NEW w \in Writers PROVE dirty'[w] \subseteq Rows'
    <2> USE DEF TypeOK, TablesTypeOK
    <2>1. CASE w \in Cancellers /\ CancelWrite(w)
        <3>1. dirty'[w] \subseteq cancelling[w].targets \cup {cancelling[w].of} /\ cancelling[w].phase = "read"
            BY <2>1 DEF CancelWrite
        <3> QED
            BY <1>1, <2>1, <3>1 DEF InHandExist
    <2>2. CASE w \in Workers /\ SweepWrite(w)
        BY <1>1, <2>2 DEF SweepWrite, InHandExist
    <2>3. CASE w \in Operators /\ WriteBlackout(w)
        <3>1. dirty'[w] = closing[w].targets \cup Emptied(closing[w].targets)
            BY <2>3 DEF WriteBlackout
        <3>2. Emptied(closing[w].targets) \subseteq Rows
            BY <2>3 DEF Emptied, InHandExist, InsertedByCommit
        <3> QED
            BY <1>1, <2>3, <3>1, <3>2 DEF InHandExist
    <2>4. CASE dirty'[w] \subseteq dirty[w]
        BY <1>1, <2>4 DEF InHandExist
    <2> QED
        BY <2>1, <2>2, <2>3, <2>4, DirtyEffects
<1> QED
    BY <1>2, <1>3, <1>4, <1>5, <1>6, <1>7 DEF InHandExist

\* Nothing exists initially and nothing is in hand.
LEMMA InitRows == Init => RowsInv
<1> SUFFICES ASSUME Init PROVE RowsInv
    OBVIOUS
<1>1. Created = {} /\ Rows = {}
    BY DEF Init, TablesInit, Created, Rows
<1>2. InsertedByCommit
    BY <1>1 DEF Init, TablesInit, InsertedByCommit
<1>3. InHandExist
    BY DEF Init, TablesInit, CreateInit, LifecycleInit, BlackoutInit, InHandExist, Idle, NoVisit,
       NoClosing
<1> QED
    BY <1>2, <1>3, InitOccupancy DEF RowsInv

\* The invariant about rows is inductive.
LEMMA NextRows == RowsInv /\ [Next]_vars => RowsInv'
BY NextOccupancy, NextInserted, NextInHand DEF RowsInv

\* The rows a request is about to insert do not exist.
LEMMA KeptIsNew ==
    ASSUME RowsInv, NEW r \in Requests, pc[r] = "evaluated"
    PROVE  Kept(r) \cap Created = {} /\ r \notin SeriesRequests \cap Rows
<1>1. \A b \in Kept(r) : RequestOf[b] = r
    BY DEF Kept, Proposed
<1> QED
    BY <1>1 DEF RowsInv, InsertedByCommit

\* No step makes a Booking live again, or confirms its slots again; only the
\* commit that inserts it makes it live.
LEMMA NothingRevived ==
    ASSUME RowsInv, [Next]_vars, NEW b \in Bookings,
           b \in Created \/ \A r \in Requests : ~Commit(r)
    PROVE  /\ booking'[b].slots => booking[b].slots
           /\ booking'[b].status \in LiveStatus => booking[b].status \in LiveStatus
<1> USE DEF RowsInv, OccupancyInv, TypeOK, TablesTypeOK
<1>1. "cancelled" \notin LiveStatus /\ "overridden" \notin LiveStatus
      /\ "pending_payment" \in LiveStatus
    BY DEF LiveStatus
<1>2. ASSUME NEW r \in Requests, Commit(r)
      PROVE  booking'[b] \in {booking[b], [status |-> "overridden", slots |-> FALSE]}
    BY <1>2, KeptIsNew DEF Commit, CommittedBooking
<1>3. ASSUME NEW c \in Confirmers, ConfirmCommit(c)
      PROVE  \/ booking'[b] = booking[b]
             \/ booking[b].status = "pending_payment" /\ booking'[b].slots = booking[b].slots
    BY <1>3 DEF ConfirmCommit
<1>4. ASSUME NEW w \in Writers, booking' = CancelledBooking(dirty[w])
      PROVE  booking'[b] \in {booking[b], [status |-> "cancelled", slots |-> FALSE]}
    BY <1>4 DEF CancelledBooking
<1>5. ASSUME NEW c \in Bookings, CancelBooking(c)
      PROVE  \/ booking'[b] = booking[b]
             \/ booking'[b].status = "cancelled" /\ (booking'[b].slots => booking[b].slots)
    BY <1>5 DEF CancelBooking
<1> QED
    BY <1>1, <1>2, <1>3, <1>4, <1>5, RowEffects

-----------------------------------------------------------------------------
(* Displaced Rentals.                                                      *)

\* What was displaced stays released.
LEMMA NextDisplaced ==
    ASSUME RowsInv, DisplacedStaysReleased, [Next]_vars
    PROVE  DisplacedStaysReleased'
<1> SUFFICES ASSUME NEW e \in overrideLog'
             PROVE  /\ booking'[e.displaced].status \notin LiveStatus
                    /\ ~booking'[e.displaced].slots
    BY DEF DisplacedStaysReleased
<1>1. CASE e \in overrideLog
    <2>1. e.displaced \in Created /\ e.displaced \in Bookings
        BY <1>1 DEF RowsInv, InHandExist, Created
    <2> QED
        BY <1>1, <2>1, NothingRevived DEF DisplacedStaysReleased
<1>2. CASE e \notin overrideLog
    <2>1. PICK r \in Requests : Commit(r) /\ e \in LogRows(r)
        BY <1>2, Frames, CreateTargets DEF createVars, RowsInv, OccupancyInv
    <2>2. e.displaced \in targets[r] /\ e.displaced \in Bookings
        BY <2>1 DEF LogRows, LogEntry
    <2>3. e.displaced \notin Kept(r)
        BY <2>1, <2>2, KeptIsNew DEF Commit, RowsInv, InHandExist
    <2>4. booking'[e.displaced] = [status |-> "overridden", slots |-> FALSE]
        BY <2>1, <2>2, <2>3 DEF Commit, CommittedBooking
    <2> QED
        BY <2>4 DEF LiveStatus
<1> QED
    BY <1>1, <1>2

\* A Rental that a Priority Ministry displaced never comes back: neither the
\* payment confirmation of its Series, which rewrites rows it read earlier,
\* nor any cancellation, sweep or Blackout makes it live again or confirms one
\* of its slots.
THEOREM DisplacementIsFinal == Spec => []DisplacedStaysReleased
<1>1. Init => DisplacedStaysReleased
    BY DEF Init, CreateInit, DisplacedStaysReleased
<1>2. RowsInv /\ DisplacedStaysReleased /\ [Next]_vars => DisplacedStaysReleased'
    BY NextDisplaced
<1> QED
    BY <1>1, <1>2, InitRows, NextRows, PTL DEF Spec

-----------------------------------------------------------------------------
(* Overrides and their notifications.                                      *)

\* A One-time request leaves nothing out, and only a Ministry has priority.
\* What an evaluated request will displace is a Rental in the way of something
\* the request keeps; once it has committed, the log says so.
OverrideIsDue ==
    /\ \A r \in OneTimeRequests : excluded[r] = {}
    /\ \A r \in Requests : sawPriority[r] => IsMinistry(r)
    /\ \A r \in Requests : pc[r] = "evaluated" =>
          /\ Kept(r) # {}
          /\ \A d \in targets[r] :
                IsRental(d) /\ IsMinistry(r) /\ \E b \in Kept(r) : Collide(b, d)
    /\ \A r \in Requests : pc[r] = "committed" =>
          \A d \in targets[r] : \E e \in overrideLog : RequestOf[e.by] = r /\ e.displaced = d

OverrideInv == RowsInv /\ OverrideIsDue /\ OverrideMailIsTrue

\* The view of a create looks at exactly the occurrences that it keeps.
LEMMA ViewKeeps ==
    ASSUME OverrideIsDue, NEW r \in Requests
    PROVE  Proposed(r) \ CreateView(r).ex = Kept(r)
BY DEF OverrideIsDue, CreateView, Kept

\* An accepted request keeps at least one occurrence and displaces Rentals that
\* collide with what it keeps, for a Ministry.
LEMMA AcceptIsDue ==
    ASSUME OverrideIsDue, NEW r \in Requests, Accept(r)
    PROVE  /\ Kept(r) # {}
           /\ \A d \in Impact(r, CreateView(r)) :
                 IsRental(d) /\ IsMinistry(r) /\ \E b \in Kept(r) : Collide(b, d)
<1> DEFINE x == CreateView(r)
<1>1. Kept(r) # {}
    <2>1. CASE r \in OneTimeRequests
        BY <2>1, RequestsAssumption DEF Kept, OverrideIsDue
    <2>2. CASE r \notin OneTimeRequests
        <3>1. Cardinality(Kept(r)) >= MinOccurrences
            BY <2>2, ViewKeeps DEF Accept, Acceptable, Confirmable, ValidExclusions, Requests
        <3> QED
            BY <3>1, FS_EmptySet, CreateAssumption
    <2> QED
        BY <2>1, <2>2
<1>2. x.may => IsMinistry(r)
    BY DEF CreateView, HasPriority, OverrideIsDue
<1> QED
    BY <1>1, <1>2, ViewKeeps DEF Impact, Displaceable, Overridable, Occupants

\* A commit logs each displacement it makes.
LEMMA CommitLogs ==
    ASSUME OverrideIsDue, NEW r \in Requests, Commit(r), NEW d \in targets[r], targets[r] \subseteq Bookings
    PROVE  \E e \in overrideLog' : RequestOf[e.by] = r /\ e.displaced = d
<1>1. PICK b \in Kept(r) : Collide(b, d)
    BY DEF OverrideIsDue, Commit
<1>2. PICK k \in Lines[b], l \in Lines[d] : Overlap(k, l)
    BY <1>1 DEF Collide
<1>3. b \in Bookings /\ RequestOf[b] = r /\ d \in Bookings /\ k.room \in Rooms
    BY LinesAssumption DEF Kept, Proposed, Line
<1> DEFINE e == [by |-> b, displaced |-> d, room |-> k.room]
<1>4. e \in LogEntry /\ e.by = b /\ e.displaced = d /\ e.room = k.room
    BY <1>3 DEF LogEntry
<1>5. e \in LogRows(r)
    BY <1>2, <1>4 DEF LogRows
<1> HIDE DEF e
<1> QED
    BY <1>3, <1>4, <1>5 DEF Commit

\* Each step of a create keeps what its evaluation said about the override.
LEMMA NextOverrideIsDue ==
    ASSUME RowsInv, OverrideIsDue, [Next]_vars
    PROVE  OverrideIsDue'
<1> USE DEF RowsInv, OccupancyInv, TypeOK, CreateTypeOK
<1>1. CASE UNCHANGED createVars
    BY <1>1 DEF createVars, OverrideIsDue, Kept
<1>2. ASSUME NEW q \in Requests, Create(q) PROVE OverrideIsDue'
    <2>1. ASSUME NEW ex \in Exclusions(q), Begin(q, ex) PROVE OverrideIsDue'
        <3>1. q \in OneTimeRequests => ex = {}
            BY RequestsAssumption DEF Exclusions
        <3>2. \A r \in OneTimeRequests : excluded'[r] = {}
            BY <2>1, <3>1 DEF Begin, OverrideIsDue, Requests
        <3>3. \A r \in Requests : sawPriority'[r] => IsMinistry(r)
            BY <2>1 DEF Begin, OverrideIsDue, HasPriority
        <3>4. \A r \in Requests : pc'[r] \in {"evaluated", "committed"} =>
                  pc'[r] = pc[r] /\ excluded'[r] = excluded[r] /\ targets'[r] = targets[r]
            BY <2>1 DEF Begin
        <3>5. overrideLog' = overrideLog
            BY <2>1 DEF Begin
        <3> QED
            BY <3>2, <3>3, <3>4, <3>5 DEF OverrideIsDue, Kept
    <2>2. CASE Accept(q)
        <3>1. /\ excluded' = excluded /\ sawPriority' = sawPriority /\ overrideLog' = overrideLog
              /\ pc' = [pc EXCEPT ![q] = "evaluated"]
              /\ targets' = [targets EXCEPT ![q] = Impact(q, CreateView(q))]
            BY <2>2 DEF Accept
        <3>2. \A r \in Requests : pc'[r] = "evaluated" =>
                /\ Kept(r)' # {}
                /\ \A d \in targets'[r] :
                      IsRental(d) /\ IsMinistry(r) /\ \E b \in Kept(r)' : Collide(b, d)
            BY <2>2, <3>1, AcceptIsDue DEF OverrideIsDue, Kept
        <3> QED
            BY <3>1, <3>2 DEF OverrideIsDue
    <2>3. CASE Commit(q)
        <3>1. /\ excluded' = excluded /\ sawPriority' = sawPriority /\ targets' = targets
              /\ pc' = [pc EXCEPT ![q] = "committed"]
              /\ overrideLog \subseteq overrideLog'
            BY <2>3 DEF Commit
        <3>2. \A d \in targets[q] : \E e \in overrideLog' : RequestOf[e.by] = q /\ e.displaced = d
            BY <2>3, CommitLogs
        <3>3. \A r \in Requests : pc'[r] = "committed" =>
                \A d \in targets'[r] : \E e \in overrideLog' : RequestOf[e.by] = r /\ e.displaced = d
            BY <3>1, <3>2 DEF OverrideIsDue
        <3> QED
            BY <3>1, <3>3 DEF OverrideIsDue, Kept
    <2>4. CASE Finish(q) /\ UNCHANGED overrideLog
        <3>1. \A r \in OneTimeRequests : excluded'[r] = {}
            BY <2>4 DEF Finish, OverrideIsDue, Requests
        <3>2. \A r \in Requests : sawPriority'[r] => IsMinistry(r)
            BY <2>4 DEF Finish, OverrideIsDue
        <3>3. \A r \in Requests : pc'[r] \in {"evaluated", "committed"} =>
                  pc'[r] = pc[r] /\ excluded'[r] = excluded[r] /\ targets'[r] = targets[r]
            BY <2>4 DEF Finish
        <3> QED
            BY <2>4, <3>1, <3>2, <3>3 DEF OverrideIsDue, Kept
    <2>5. CASE UNCHANGED <<pc, excluded, sawPriority, targets, overrideLog>>
        BY <2>5 DEF OverrideIsDue, Kept
    <2> QED
        BY <1>2, <2>1, <2>2, <2>3, <2>4, <2>5 DEF Create, Proceed, Review, AcquireRoom, Reject,
           Abort, Rollback, Notify
<1> QED
    BY <1>1, <1>2, Frames

\* Only the callback of a committed request sends mail, and about its targets.
LEMMA NextOverrideMail ==
    ASSUME OverrideInv, [Next]_vars
    PROVE  OverrideMailIsTrue'
<1> USE DEF OverrideInv, RowsInv, OccupancyInv
<1>1. overrideLog \subseteq overrideLog'
    BY Frames, CreateTargets DEF createVars
<1>2. \/ overrideMail' = overrideMail
      \/ \E r \in Requests : pc[r] = "committed"
                             /\ overrideMail' \subseteq overrideMail \cup ({r} \X targets[r])
    <2>1. ASSUME NEW r \in Requests, Create(r)
          PROVE  \/ overrideMail' = overrideMail
                 \/ Notify(r)
        BY <2>1 DEF Create, Proceed, Review, Begin, AcquireRoom, Accept, Reject, Abort, Rollback,
           Commit
    <2>2. ASSUME NEW r \in Requests, Notify(r)
          PROVE  pc[r] = "committed" /\ overrideMail' \subseteq overrideMail \cup ({r} \X targets[r])
        BY <2>2 DEF Notify
    <2> QED
        BY <2>1, <2>2, Frames DEF createVars
<1> SUFFICES ASSUME NEW m \in overrideMail'
             PROVE  \E e \in overrideLog : RequestOf[e.by] = m[1] /\ e.displaced = m[2]
    BY <1>1 DEF OverrideMailIsTrue
<1>3. CASE m \in overrideMail
    BY <1>3 DEF OverrideMailIsTrue
<1>4. ASSUME NEW r \in Requests, pc[r] = "committed", m \in {r} \X targets[r]
      PROVE  \E e \in overrideLog : RequestOf[e.by] = m[1] /\ e.displaced = m[2]
    BY <1>4 DEF OverrideIsDue
<1> QED
    BY <1>2, <1>3, <1>4

\* No request has evaluated anything initially.
LEMMA InitOverride == Init => OverrideInv
<1> SUFFICES ASSUME Init PROVE OverrideInv
    OBVIOUS
<1>1. OverrideIsDue
    BY DEF Init, CreateInit, OverrideIsDue, Requests
<1>2. OverrideMailIsTrue
    BY DEF Init, CreateInit, OverrideMailIsTrue
<1> QED
    BY <1>1, <1>2, InitRows DEF OverrideInv

\* The invariant about overrides is inductive.
LEMMA NextOverride == OverrideInv /\ [Next]_vars => OverrideInv'
BY NextRows, NextOverrideIsDue, NextOverrideMail DEF OverrideInv

\* The Booker of a displaced Rental is told so only when the override log holds
\* the displacement: the after-commit callback sends what the evaluation found,
\* and the commit in between logs exactly that.
THEOREM OverrideMailIsHonest == Spec => []OverrideMailIsTrue
<1>1. OverrideInv => OverrideMailIsTrue
    BY DEF OverrideInv
<1> QED
    BY <1>1, InitOverride, NextOverride, PTL DEF Spec

-----------------------------------------------------------------------------
(* Payment.                                                                *)

\* A commit inserts a Series and its occurrences with one status; everything
\* else about the request stays absent or is displaced.
LEMMA CommitPayment ==
    ASSUME RowsInv, OccurrenceMatchesPayment, NEW r \in Requests, Commit(r)
    PROVE  OccurrenceMatchesPayment'
<1> USE DEF RowsInv, OccupancyInv, TypeOK, TablesTypeOK
<1> SUFFICES ASSUME NEW s \in SeriesRequests, NEW b \in Bookings, RequestOf[b] = s,
                    series'[s].status \in LiveStatus, booking'[b].status \in LiveStatus
             PROVE  series'[s].status = booking'[b].status
    BY DEF OccurrenceMatchesPayment
<1>1. pc[r] = "evaluated" /\ "overridden" \notin LiveStatus /\ "absent" \notin LiveStatus
    BY DEF Commit, LiveStatus
<1>2. CASE b \in Kept(r)
    <2>1. s = r /\ booking'[b].status = CreatedStatus(r)
        BY <1>2 DEF Kept, Proposed, Commit, CommittedBooking
    <2> QED
        BY <2>1 DEF Commit
<1>3. CASE b \notin Kept(r)
    <2>1. booking'[b] \in {booking[b], [status |-> "overridden", slots |-> FALSE]}
        BY <1>3 DEF Commit, CommittedBooking
    <2>2. booking'[b] = booking[b] /\ b \in Created
        BY <1>1, <2>1 DEF Created
    <2>3. s # r
        BY <1>1, <2>2 DEF InsertedByCommit
    <2>4. series'[s] = series[s]
        BY <2>3 DEF Commit
    <2> QED
        BY <2>2, <2>4 DEF OccurrenceMatchesPayment
<1> QED
    BY <1>2, <1>3

\* A late confirmation confirms the Series and every occurrence still pending.
LEMMA ConfirmPayment ==
    ASSUME TypeOK, OccurrenceMatchesPayment, NEW c \in Confirmers, ConfirmCommit(c)
    PROVE  OccurrenceMatchesPayment'
<1> USE DEF TypeOK, TablesTypeOK
<1> DEFINE q == confirming[c]
<1> SUFFICES ASSUME NEW s \in SeriesRequests, NEW b \in Bookings, RequestOf[b] = s,
                    series'[s].status \in LiveStatus, booking'[b].status \in LiveStatus
             PROVE  series'[s].status = booking'[b].status
    BY DEF OccurrenceMatchesPayment
<1>1. CASE s = q
    <2>1. series'[s].status = "confirmed"
        BY <1>1 DEF ConfirmCommit
    <2>2. b \in Proposed(q)
        BY <1>1 DEF Proposed
    <2>3. CASE booking[b].status = "pending_payment"
        BY <2>1, <2>2, <2>3 DEF ConfirmCommit
    <2>4. CASE booking[b].status # "pending_payment"
        <3>1. booking'[b] = booking[b]
            BY <2>4 DEF ConfirmCommit
        <3> QED
            BY <2>1, <2>4, <3>1 DEF LiveStatus
    <2> QED
        BY <2>3, <2>4
<1>2. CASE s # q
    <2>1. series'[s] = series[s] /\ booking'[b] = booking[b]
        BY <1>2 DEF ConfirmCommit, Proposed
    <2> QED
        BY <2>1 DEF OccurrenceMatchesPayment
<1> QED
    BY <1>1, <1>2

\* Every step keeps a Series and its occurrences in agreement.
LEMMA NextPayment ==
    ASSUME RowsInv, OccurrenceMatchesPayment, [Next]_vars
    PROVE  OccurrenceMatchesPayment'
<1> USE DEF RowsInv, OccupancyInv
<1>1. "cancelled" \notin LiveStatus
    BY DEF LiveStatus
<1>2. ASSUME NEW w \in Writers, NEW clear \in BOOLEAN,
             booking' = CancelledBooking(dirty[w]), series' = CancelledSeries(dirty[w], clear)
      PROVE  OccurrenceMatchesPayment'
    BY <1>1, <1>2 DEF OccurrenceMatchesPayment, CancelledBooking, CancelledSeries
<1>3. ASSUME NEW b \in Bookings, CancelBooking(b) PROVE OccurrenceMatchesPayment'
    BY <1>1, <1>3 DEF OccurrenceMatchesPayment, CancelBooking, TypeOK, TablesTypeOK
<1>4. CASE UNCHANGED <<booking, series>>
    BY <1>4 DEF OccurrenceMatchesPayment
<1> QED
    BY <1>2, <1>3, <1>4, RowEffects, CommitPayment, ConfirmPayment

\* A live Series and its live occurrences are paid together, although the
\* confirmation, the cancellations and the sweep rewrite them in separate
\* statements without a common lock.
THEOREM PaymentIsConsistent == Spec => []OccurrenceMatchesPayment
<1>1. Init => OccurrenceMatchesPayment
    BY DEF Init, TablesInit, OccurrenceMatchesPayment, LiveStatus
<1>2. RowsInv /\ OccurrenceMatchesPayment /\ [Next]_vars => OccurrenceMatchesPayment'
    BY NextPayment
<1> QED
    BY <1>1, <1>2, InitRows, NextRows, PTL DEF Spec

-----------------------------------------------------------------------------
(* The expiry sweep.                                                       *)

\* Whatever a sweep has listed, read or updated had run out when it was listed.
SweepIsLate ==
    \A w \in Workers : /\ todo[w] \subseteq lapsed
                       /\ sweeping[w].of \in lapsed \cup {NoSeries}
                       /\ sweeping[w].rows \cap SeriesRequests \subseteq lapsed

SweepInv == OccupancyInv /\ SweepIsLate /\ SweptOnlyAfterDeadline

\* A step of the sweep takes a Series only from the list of lapsed ones.
LEMMA SweepTakesLapsed ==
    ASSUME SweepInv, NEW v \in Workers, Sweep(v)
    PROVE  SweepIsLate' /\ expiryMail' \subseteq lapsed
<1> USE DEF SweepInv, OccupancyInv, TypeOK, LifecycleTypeOK, SweepIsLate, SweptOnlyAfterDeadline
<1>1. lapsed' = lapsed
    BY DEF Sweep, SweepBegin, SweepRead, SweepWrite, SweepLosesWrites, SweepVisited, SweepCommit,
       SweepAbort, tableVars
<1>2. CASE SweepBegin(v)
    <2>1. {s \in Expired(now) : series[s].status = "pending_payment"} \subseteq lapsed
        BY DEF LapsedIsComplete
    <2> QED
        BY <1>1, <1>2, <2>1 DEF SweepBegin
<1>3. ASSUME NEW s \in SeriesRequests, SweepRead(v, s)
      PROVE  SweepIsLate' /\ expiryMail' \subseteq lapsed
    <2>1. Proposed(s) \cap SeriesRequests = {} /\ s \in lapsed
        BY <1>3, RowIdsAssumption DEF Proposed, SweepRead
    <2> QED
        BY <1>1, <1>3, <2>1 DEF SweepRead
<1>4. CASE SweepVisited(v) /\ (expiryMail' = expiryMail \/ expiryMail' = expiryMail \cup {sweeping[v].of})
    <2>1. sweeping[v].of \in lapsed
        BY <1>4 DEF SweepVisited
    <2>2. todo'[v] \subseteq lapsed /\ sweeping'[v] = NoVisit
        BY <1>4 DEF SweepVisited
    <2>3. \A w \in Workers : w # v => todo'[w] = todo[w] /\ sweeping'[w] = sweeping[w]
        BY <1>4 DEF SweepVisited
    <2> QED
        BY <1>1, <1>4, <2>1, <2>2, <2>3 DEF NoVisit
<1>5. CASE SweepCommit(v)
    BY <1>1, <1>5 DEF SweepCommit
<1>6. CASE SweepAbort(v)
    BY <1>1, <1>6 DEF SweepAbort, NoVisit
<1> QED
    BY <1>2, <1>3, <1>4, <1>5, <1>6 DEF Sweep, SweepWrite, SweepLosesWrites

\* The invariant about the sweep is inductive.
LEMMA NextSweep == SweepInv /\ [Next]_vars => SweepInv'
<1> SUFFICES ASSUME SweepInv, [Next]_vars PROVE SweepInv'
    OBVIOUS
<1> USE DEF SweepInv, OccupancyInv
<1>1. lapsed \subseteq lapsed'
    BY LapsedEffects
<1>2. SweepIsLate' /\ expiryMail' \subseteq lapsed'
    <2>1. CASE UNCHANGED <<todo, sweeping, expiryMail>>
        BY <1>1, <2>1 DEF SweepIsLate, SweptOnlyAfterDeadline
    <2> QED
        BY <1>1, <2>1, Frames, SweepTakesLapsed
<1>3. ASSUME NEW w \in Workers PROVE dirty'[w] \cap SeriesRequests \subseteq lapsed'
    <2>1. w \in Writers /\ w \notin Cancellers /\ w \notin Operators
        BY LifecycleAssumption, WritersAssumption
    <2>2. CASE SweepWrite(w)
        BY <1>1, <2>1, <2>2 DEF SweepWrite, SweepIsLate, SweptOnlyAfterDeadline, TypeOK, TablesTypeOK
    <2>3. CASE dirty'[w] \subseteq dirty[w]
        BY <1>1, <2>3 DEF SweptOnlyAfterDeadline
    <2> QED
        BY <2>1, <2>2, <2>3, DirtyEffects
<1> QED
    BY <1>2, <1>3, NextOccupancy DEF SweptOnlyAfterDeadline

\* Nothing is listed and nobody was told anything initially.
LEMMA InitSweep == Init => SweepInv
<1>1. Init => SweepIsLate /\ SweptOnlyAfterDeadline
    BY LifecycleAssumption DEF Init, TablesInit, LifecycleInit, SweepIsLate,
       SweptOnlyAfterDeadline, NoVisit
<1> QED
    BY <1>1, InitOccupancy DEF SweepInv

\* No sweep cancels a Series, or tells its Booker that the hold ran out, before
\* the deadline: neither a confirmation between the list and the write nor a
\* sweep that lost its writes makes a worker carry a Series it may not touch.
THEOREM SweepNeverEarly == Spec => []SweptOnlyAfterDeadline
<1>1. SweepInv => SweptOnlyAfterDeadline
    BY DEF SweepInv
<1> QED
    BY <1>1, InitSweep, NextSweep, PTL DEF Spec

-----------------------------------------------------------------------------
(* Cancelled Series.                                                       *)

\* The start of a Booking is a time.
LEMMA StartOfType == ASSUME NEW b \in Bookings PROVE StartOf(b) \in Nat
<1> DEFINE S == {l.start : l \in Lines[b]}
<1>1. S \subseteq Nat /\ S # {}
    BY LinesAssumption DEF Line
<1>2. PICK t \in S : \A u \in S : ~(<<u, t>> \in OpToRel(<, Nat))
    BY <1>1, NatLessThanWellFounded, WFMin, Zenon
<1>3. ASSUME NEW u \in S PROVE t <= u
    <2>1. u < t => <<u, t>> \in OpToRel(<, Nat)
        BY <1>1, Zenon DEF OpToRel
    <2>2. ~(u < t)
        BY <1>2, <2>1, Zenon
    <2> QED
        BY <1>1, <2>2
<1> QED
    BY <1>1, <1>3 DEF StartOf

NotAhead(b, t) == booking[b].status \notin LiveStatus \/ StartOf(b) <= t

\* When a cancellation or a Blackout rewrites a Series, it rewrites every
\* occurrence of it that is still ahead.
DirtyIsWhole(w) ==
    \A s \in dirty[w] \cap SeriesRequests :
        \A b \in Proposed(s) \ dirty[w] : NotAhead(b, now)

\* A cancellation of the entire Series has selected all that were ahead at the
\* time it read.
ReadIsWhole(c) ==
    /\ cancelling[c].at <= now
    /\ (cancelling[c].phase = "read" /\ cancelling[c].whole) =>
          \A b \in Proposed(cancelling[c].of) \ cancelling[c].targets :
              NotAhead(b, cancelling[c].at)

CancelIsWhole ==
    /\ \A w \in Cancellers \cup Operators : DirtyIsWhole(w)
    /\ \A c \in Cancellers : ReadIsWhole(c)

CancelInv == RowsInv /\ SweepInv /\ CancelIsWhole /\ CancelledSeriesIsReleased

\* An occurrence of a Series that exists does not come to lie ahead.
LEMMA NotAheadStays ==
    ASSUME RowsInv, [Next]_vars, NEW s \in SeriesRequests \cap Rows, NEW b \in Proposed(s),
           NEW t \in Nat, NEW u \in Nat, t <= u, NotAhead(b, t)
    PROVE  booking'[b].status \notin LiveStatus \/ StartOf(b) <= u
<1>1. b \in Bookings /\ RequestOf[b] = s /\ StartOf(b) \in Nat
    BY StartOfType DEF Proposed
<1>2. ASSUME booking'[b].status \in LiveStatus PROVE booking[b].status \in LiveStatus
    <2>1. ASSUME NEW r \in Requests, Commit(r)
          PROVE  booking'[b] \in {booking[b], [status |-> "overridden", slots |-> FALSE]}
        <3>1. b \notin Kept(r)
            BY <1>1, <2>1 DEF RowsInv, InsertedByCommit, Commit, Kept, Proposed
        <3> QED
            BY <1>1, <2>1, <3>1 DEF Commit, CommittedBooking
    <2>2. CASE \E r \in Requests : Commit(r)
        BY <1>2, <2>1, <2>2 DEF LiveStatus
    <2>3. CASE \A r \in Requests : ~Commit(r)
        BY <1>1, <1>2, <2>3, NothingRevived
    <2> QED
        BY <2>2, <2>3
<1> QED
    BY <1>1, <1>2 DEF NotAhead

\* The clock never runs back.
LEMMA ClockMonotone ==
    ASSUME TypeOK, [Next]_vars
    PROVE  now \in Nat /\ now' \in Nat /\ now <= now'
<1> USE DEF TypeOK, TablesTypeOK
<1>1. CASE Environment
    BY <1>1 DEF Environment, Tick, EditMinistry
<1>2. ASSUME NEW r \in Requests, Create(r) PROVE now' = now
    BY <1>2 DEF Create, Proceed, Review, Begin, AcquireRoom, Accept, Reject, Abort, Rollback, Commit,
       Notify, tableVars
<1>3. CASE Lifecycle
    BY <1>3, LifecycleRows
<1>4. CASE Closures
    BY <1>4, ClosuresRows
<1>5. CASE UNCHANGED vars
    BY <1>5 DEF vars, tableVars
<1> QED
    BY <1>1, <1>2, <1>3, <1>4, <1>5 DEF Next, Creation

\* What a statement finds not cancellable at t is not ahead of t.
LEMMA NotCancellable ==
    ASSUME NEW b \in Bookings, NEW t \in Nat, ~Cancellable(b, t)
    PROVE  NotAhead(b, t)
BY StartOfType DEF Cancellable, NotAhead

\* The rewritten rows of a cancellation or a Blackout stay complete.
LEMMA NextDirtyIsWhole ==
    ASSUME CancelInv, [Next]_vars, NEW w \in Cancellers \cup Operators
    PROVE  DirtyIsWhole(w)'
<1> SUFFICES ASSUME NEW s \in dirty'[w] \cap SeriesRequests, NEW b \in Proposed(s) \ dirty'[w]
             PROVE  booking'[b].status \notin LiveStatus \/ StartOf(b) <= now'
    BY DEF DirtyIsWhole, NotAhead
<1> USE DEF CancelInv, RowsInv, OccupancyInv, TypeOK, TablesTypeOK
<1>1. /\ w \in Writers /\ w \notin Workers /\ b \in Bookings /\ StartOf(b) \in Nat
      /\ now \in Nat /\ now' \in Nat /\ now <= now'
    BY LifecycleAssumption, BlackoutAssumption, WritersAssumption, StartOfType, ClockMonotone
       DEF Proposed
<1>2. CASE dirty'[w] = dirty[w]
    <2>1. s \in Rows /\ NotAhead(b, now)
        BY <1>1, <1>2 DEF CancelIsWhole, DirtyIsWhole, InHandExist
    <2> QED
        BY <1>1, <2>1, NotAheadStays DEF NotAhead
<1>3. CASE w \in Cancellers /\ CancelWrite(w)
    <2> DEFINE k == cancelling[w]
    <2>1. k \in Cancellation /\ k.phase = "read" /\ now' = now /\ booking' = booking
        BY <1>3 DEF CancelWrite, LifecycleTypeOK, Idle
    <2>2. s = k.of /\ b \in Proposed(k.of) \ k.targets
          /\ (k.whole \/ {c \in Proposed(k.of) \ k.targets : Cancellable(c, k.at)} = {})
        BY <1>1, <1>3, <2>1, RowIdsAssumption DEF CancelWrite, Cancellation
    <2>3. k.at \in Nat /\ k.at <= now
        BY <1>3, <2>1 DEF CancelIsWhole, ReadIsWhole, Cancellation
    <2>4. NotAhead(b, k.at)
        BY <1>1, <1>3, <2>1, <2>2, <2>3, NotCancellable DEF CancelIsWhole, ReadIsWhole, Proposed
    <2> QED
        BY <1>1, <2>1, <2>3, <2>4 DEF NotAhead
<1>4. CASE w \in Operators /\ WriteBlackout(w)
    <2>1. now' = now /\ booking' = booking
          /\ dirty'[w] = closing[w].targets \cup Emptied(closing[w].targets)
        BY <1>1, <1>4 DEF WriteBlackout
    <2>2. closing[w].targets \subseteq Bookings
        BY <1>4 DEF InHandExist, Created
    <2>3. s \in Emptied(closing[w].targets) /\ b \in Proposed(s) \ closing[w].targets
        BY <2>1, <2>2, RowIdsAssumption
    <2>4. ~Cancellable(b, now)
        BY <2>3 DEF Emptied
    <2> QED
        BY <1>1, <2>1, <2>4, NotCancellable DEF NotAhead
<1> QED
    BY <1>1, <1>2, <1>3, <1>4, DirtyEffects

\* What a cancellation of the entire Series has read stays complete.
LEMMA NextReadIsWhole ==
    ASSUME CancelInv, [Next]_vars, NEW c \in Cancellers
    PROVE  ReadIsWhole(c)'
<1> USE DEF CancelInv, RowsInv, OccupancyInv, TypeOK, TablesTypeOK, LifecycleTypeOK
<1>1. now \in Nat /\ now' \in Nat /\ now <= now'
    BY ClockMonotone
<1>2. CASE cancelling'[c] = cancelling[c]
    <2> DEFINE k == cancelling[c]
    <2>1. k.at \in Nat /\ k.at <= now
        BY DEF CancelIsWhole, ReadIsWhole, Cancellation, Idle
    <2>2. ASSUME k.phase = "read", k.whole, NEW b \in Proposed(k.of) \ k.targets
          PROVE  booking'[b].status \notin LiveStatus \/ StartOf(b) <= k.at
        <3>1. k.of \in SeriesRequests \cap Rows
            BY <2>2 DEF Cancellation, Idle, InHandExist
        <3>2. NotAhead(b, k.at)
            BY <2>2 DEF CancelIsWhole, ReadIsWhole
        <3> QED
            BY <2>1, <3>1, <3>2, NotAheadStays
    <2> QED
        BY <1>1, <1>2, <2>1, <2>2 DEF ReadIsWhole, NotAhead
<1>3. CASE cancelling'[c] = Idle
    BY <1>1, <1>3 DEF Idle, ReadIsWhole
<1>4. ASSUME NEW s \in SeriesRequests,
             NEW scope \in {"occurrence", "this_and_future", "entire_series"},
             NEW pivot \in Proposed(s), CancelRead(c, s, scope, pivot)
      PROVE  ReadIsWhole(c)'
    <2>1. /\ booking' = booking /\ now' = now
          /\ cancelling'[c].at = now /\ cancelling'[c].of = s
          /\ cancelling'[c].targets = Selected(s, scope, pivot)
          /\ cancelling'[c].whole = (scope = "entire_series")
        BY <1>4 DEF CancelRead, tableVars
    <2>2. ASSUME scope = "entire_series", NEW b \in Proposed(s) \ Selected(s, scope, pivot)
          PROVE  NotAhead(b, now)
        <3>1. b \in Bookings /\ ~Cancellable(b, now)
            BY <2>2 DEF Selected, Proposed
        <3> QED
            BY <1>1, <3>1, NotCancellable
    <2> QED
        BY <1>1, <2>1, <2>2 DEF ReadIsWhole, NotAhead
<1>5. CASE CancelWrite(c)
    <2>1. cancelling'[c].phase = "written" /\ cancelling'[c].at = cancelling[c].at
        BY <1>5 DEF CancelWrite, Cancellation, Idle
    <2>2. cancelling[c].at \in Nat /\ cancelling[c].at <= now
        BY DEF CancelIsWhole, ReadIsWhole, Cancellation, Idle
    <2> QED
        BY <1>1, <2>1, <2>2 DEF ReadIsWhole
<1>6. \/ cancelling'[c] = cancelling[c] \/ cancelling'[c] = Idle \/ CancelWrite(c)
      \/ \E s \in SeriesRequests : \E scope \in {"occurrence", "this_and_future", "entire_series"} :
            \E pivot \in Proposed(s) : CancelRead(c, s, scope, pivot)
    <2>1. ASSUME NEW d \in Cancellers, Cancel(d), d # c PROVE cancelling'[c] = cancelling[c]
        BY <2>1 DEF Cancel, CancelRead, CancelWrite, CancelCommit, CancelAbort
    <2>2. CancelCommit(c) \/ CancelAbort(c) => cancelling'[c] = Idle
        BY DEF CancelCommit, CancelAbort
    <2> QED
        BY <2>1, <2>2, Frames DEF Cancel
<1> QED
    BY <1>2, <1>3, <1>4, <1>5, <1>6

\* A step that cancels a Series in time leaves none of its occurrences ahead.
LEMMA NextReleased ==
    ASSUME CancelInv, [Next]_vars
    PROVE  CancelledSeriesIsReleased'
<1> USE DEF CancelInv, SweepInv, RowsInv, OccupancyInv, TypeOK, TablesTypeOK
<1> SUFFICES ASSUME NEW s \in SeriesRequests, s \notin lapsed', series'[s].status = "cancelled",
                    NEW b \in Proposed(s), booking'[b].status \in LiveStatus
             PROVE  StartOf(b) <= now'
    BY DEF CancelledSeriesIsReleased
<1>1. /\ b \in Bookings /\ StartOf(b) \in Nat /\ s \notin lapsed
      /\ now \in Nat /\ now' \in Nat /\ now <= now'
    BY StartOfType, ClockMonotone, LapsedEffects DEF Proposed
<1>2. CASE series[s].status = "cancelled"
    <2>1. s \in Rows /\ NotAhead(b, now)
        BY <1>1, <1>2 DEF CancelledSeriesIsReleased, NotAhead, Rows
    <2> QED
        BY <1>1, <2>1, NotAheadStays DEF NotAhead
<1>3. CASE series[s].status # "cancelled"
    <2>1. \A r \in Requests : ~Commit(r)
        BY <1>3 DEF Commit, CreatedStatus
    <2>2. \A c \in Confirmers : ~ConfirmCommit(c)
        BY <1>3 DEF ConfirmCommit
    <2>3. \A c \in Bookings : ~CancelBooking(c)
        BY <1>3 DEF CancelBooking
    <2>4. PICK w \in Writers \cap (Cancellers \cup Workers \cup Operators), clear \in BOOLEAN :
             booking' = CancelledBooking(dirty[w]) /\ series' = CancelledSeries(dirty[w], clear)
        BY <1>3, <2>1, <2>2, <2>3, RowEffects
    <2>5. s \in dirty[w]
        BY <1>3, <2>4 DEF CancelledSeries
    <2>6. w \notin Workers
        BY <1>1, <2>5 DEF SweptOnlyAfterDeadline
    <2>7. b \notin dirty[w] /\ booking'[b] = booking[b]
        BY <1>1, <2>4 DEF CancelledBooking, LiveStatus
    <2>8. NotAhead(b, now)
        BY <2>4, <2>5, <2>6, <2>7 DEF CancelIsWhole, DirtyIsWhole
    <2> QED
        BY <1>1, <2>7, <2>8 DEF NotAhead
<1> QED
    BY <1>2, <1>3

\* No transaction has read anything initially.
LEMMA InitCancel == Init => CancelInv
<1>1. Init => CancelIsWhole
    BY LifecycleAssumption, BlackoutAssumption DEF Init, TablesInit, LifecycleInit, CancelIsWhole,
       DirtyIsWhole, ReadIsWhole, Idle
<1>2. Init => CancelledSeriesIsReleased
    BY DEF Init, TablesInit, CancelledSeriesIsReleased
<1> QED
    BY <1>1, <1>2, InitRows, InitSweep DEF CancelInv

\* The invariant about cancellations is inductive.
LEMMA NextCancel == CancelInv /\ [Next]_vars => CancelInv'
<1> SUFFICES ASSUME CancelInv, [Next]_vars PROVE CancelInv'
    OBVIOUS
<1>1. CancelIsWhole'
    BY NextDirtyIsWhole, NextReadIsWhole DEF CancelIsWhole
<1> QED
    BY <1>1, NextReleased, NextRows, NextSweep DEF CancelInv

\* A Series that was cancelled before its hold ran out keeps no live occurrence
\* ahead of the clock, although the cancellation decides about the Series from
\* a status and a time it read before it waited for the rows.
THEOREM CancelledSeriesKeepsNothing == Spec => []CancelledSeriesIsReleased
<1>1. CancelInv => CancelledSeriesIsReleased
    BY DEF CancelInv
<1> QED
    BY <1>1, InitCancel, NextCancel, PTL DEF Spec

-----------------------------------------------------------------------------
(* The booking services implement the room ledger: a commit of a create    *)
(* reserves what it keeps and displaces what it found, in one step of the  *)
(* ledger; every other step of any service releases or changes nothing.    *)

(* The commit of a create is a reservation.                                *)

\* What is held exists.
LEMMA HeldExists == HeldSet \subseteq Created
BY DEF HeldSet, Held, Occupies, ActiveOccupancy, Created

\* What a commit does not displace keeps its place.
LEMMA CommitKeepsHeld ==
    ASSUME RowsInv, NEW r \in Requests, Commit(r), NEW c \in HeldSet, c \notin targets[r]
    PROVE  c \in HeldSet'
<1> USE DEF RowsInv, OccupancyInv
<1>1. c \in Bookings /\ Held(c) /\ c \in Created
    BY HeldExists DEF HeldSet
<1>2. c \notin Kept(r) /\ RequestOf[c] # r
    BY <1>1, KeptIsNew DEF Commit, InsertedByCommit
<1>3. booking'[c] = booking[c] /\ now' = now
    BY <1>1, <1>2 DEF Commit, CommittedBooking
<1>4. RequestOf[c] \in SeriesRequests => series'[RequestOf[c]] = series[RequestOf[c]]
    BY <1>2, CommitInserts
<1>5. RequestOf[c] \notin lapsed'
    BY <1>1, <1>2 DEF Commit, Held
<1> QED
    BY <1>1, <1>3, <1>4, <1>5 DEF HeldSet, Held, Occupies, ActiveOccupancy, HoldOf

\* The rows of a request are held from its commit on, all of them, unless its
\* own payment hold is over before it commits.
LEMMA CommitReserves ==
    ASSUME RowsInv, NEW r \in Requests, Commit(r)
    PROVE  Kept(r) \subseteq HeldSet' \/ Kept(r) \cap HeldSet' = {}
<1> USE DEF RowsInv, OccupancyInv, TypeOK, TablesTypeOK
<1>1. \A b \in Kept(r) : /\ b \in Bookings /\ RequestOf[b] = r
                         /\ booking'[b] = [status |-> CreatedStatus(r), slots |-> TRUE]
    BY DEF Kept, Proposed, Commit, CommittedBooking
<1>2. CASE r \in SeriesRequests /\ ~HoldActive(CreatedHold(r), now)
    <2>1. r \in lapsed'
        BY <1>2 DEF Commit
    <2> QED
        BY <1>1, <2>1 DEF HeldSet, Held
<1>3. CASE r \in SeriesRequests /\ HoldActive(CreatedHold(r), now)
    <2>1. r \notin lapsed'
        BY <1>3, KeptIsNew DEF Commit, InsertedByCommit
    <2>2. series'[r].hold = CreatedHold(r) /\ now' = now
        BY <1>3 DEF Commit
    <2>3. ASSUME NEW b \in Kept(r) PROVE Held(b)'
        BY <1>1, <1>3, <2>1, <2>2 DEF Held, Occupies, ActiveOccupancy, HoldOf, CreatedStatus
    <2> QED
        BY <1>1, <2>3 DEF HeldSet
<1>4. CASE r \notin SeriesRequests
    <2>1. CreatedStatus(r) = "confirmed" /\ r \notin lapsed'
        BY <1>4 DEF CreatedStatus, Commit
    <2> QED
        BY <1>1, <2>1 DEF HeldSet, Held, Occupies, ActiveOccupancy
<1> QED
    BY <1>2, <1>3, <1>4

\* The commit of a create is a Reserve step of the ledger.
LEMMA CommitIsReserve ==
    ASSUME OverrideInv, NEW r \in Requests, Commit(r)
    PROVE  Ledger!LedgerNext
<1> USE DEF OverrideInv, RowsInv, OccupancyInv
<1> DEFINE B == Kept(r)
           D == targets[r] \cap HeldSet
<1>1. pc[r] = "evaluated" /\ B \subseteq Bookings /\ D \subseteq Bookings /\ HeldSet \subseteq Bookings
    BY DEF Commit, Kept, Proposed, HeldSet
<1>2. B # {}
    BY <1>1 DEF OverrideIsDue
<1>3. \A b \in B : RequestOf[b] = r
    BY DEF Kept, Proposed
<1>4. B \cap Created = {} /\ HeldSet \subseteq Created
    BY <1>1, KeptIsNew, HeldExists
<1>5. \A b \in B : Ledger!Fresh(b)
    BY <1>4 DEF Ledger!Fresh
<1>6. D # {} => /\ B \cap {b \in Bookings : IsRental(b)} = {}
                /\ D \subseteq {b \in Bookings : IsRental(b)}
    BY <1>1, <1>3 DEF OverrideIsDue, IsRental, IsMinistry
<1>7. \A b \in B, c \in HeldSet :
          <<b, c>> \in {p \in Bookings \X Bookings : Collide(p[1], p[2])} => c \in D
    BY <1>1 DEF EvaluationHolds, HeldSet
<1>8. Created' = Created \cup B
    BY CommitInserts
<1>9. HeldSet' \subseteq (HeldSet \ D) \cup B /\ HeldSet \ D \subseteq HeldSet'
    BY CommitHolds, CommitKeepsHeld DEF HeldSet
<1>10. \/ HeldSet' = (HeldSet \ D) \cup B /\ (Created \ HeldSet)' = (Created \ HeldSet) \cup D
       \/ HeldSet' = HeldSet \ D /\ (Created \ HeldSet)' = (Created \ HeldSet) \cup D \cup B
    <2> HIDE DEF B, D
    <2>1. D \subseteq HeldSet
        BY DEF D
    <2>2. B \subseteq HeldSet' \/ B \cap HeldSet' = {}
        BY CommitReserves DEF B
    <2> QED
        BY <1>4, <1>8, <1>9, <2>1, <2>2
<1>11. Ledger!Reserve(r, B, D)
    BY <1>2, <1>3, <1>5, <1>6, <1>7, <1>10 DEF Ledger!Reserve
<1> HIDE DEF B, D
<1> QED
    BY <1>1, <1>11 DEF Ledger!LedgerNext

-----------------------------------------------------------------------------
(* Every other step releases or stutters.                                  *)

\* A step that is not a commit inserts nothing and makes nothing held.
LEMMA OtherStepReleases ==
    ASSUME RowsInv, [Next]_vars, \A r \in Requests : ~Commit(r)
    PROVE  [Ledger!LedgerNext]_<<HeldSet, Created \ HeldSet>>
<1> USE DEF RowsInv, OccupancyInv
<1> DEFINE D == HeldSet \ HeldSet'
<1>1. Created' = Created
    BY OnlyCommitInserts
<1>2. HeldSet' \subseteq HeldSet
    <2>1. lapsed \subseteq lapsed'
        BY LapsedEffects
    <2> QED
        BY <2>1, NothingRevived, NothingBecomesHeld DEF HeldSet
<1>3. HeldSet \subseteq Created /\ HeldSet \subseteq Bookings
    BY HeldExists DEF HeldSet
<1>4. CASE D = {}
    BY <1>1, <1>2, <1>4
<1>5. CASE D # {}
    <2>1. Ledger!Release(D)
        BY <1>1, <1>2, <1>3, <1>5 DEF Ledger!Release
    <2>2. D \in SUBSET Bookings
        BY <1>3
    <2> QED
        BY <2>1, <2>2 DEF Ledger!LedgerNext
<1> QED
    BY <1>4, <1>5

\* The empty tables are the empty ledger.
LEMMA InitLedger == Init => Ledger!LedgerInit
<1>1. Init => HeldSet = {} /\ Created = {}
    BY DEF Init, TablesInit, HeldSet, Held, Occupies, Created
<1> QED
    BY <1>1 DEF Ledger!LedgerInit

\* Every step maps to a step of the ledger or to none.
LEMMA NextLedger ==
    OverrideInv /\ [Next]_vars => [Ledger!LedgerNext]_<<HeldSet, Created \ HeldSet>>
BY CommitIsReserve, OtherStepReleases DEF OverrideInv

\* create_booking, create_series, confirm_payment, the cancellations, the sweep
\* and the Blackouts together implement the ledger of rooms: each create
\* reserves all it asks for and displaces what stands in its way in one atomic
\* step, never over a Booking that holds its place, and what was released is
\* never held again.
THEOREM ServicesImplementLedger == Spec => RefinesLedger
<1> QED
    BY InitOverride, NextOverride, InitLedger, NextLedger, PTL
       DEF Spec, RefinesLedger, Ledger!LedgerSpec

-----------------------------------------------------------------------------
(* Room locks.                                                             *)

\* Only a request with an open transaction has rooms, and it has them before
\* all those it still asks for.
LocksAreOrdered ==
    \A r \in Requests, n \in Rooms : lock[n] = r =>
        /\ pc[r] \in {"locking", "evaluated"}
        /\ \A m \in Missing(r) : n < m

LockInv == TypeOK /\ LocksAreOrdered

\* What the other requests have and miss is no concern of this one.
LEMMA OthersKeepLocks ==
    ASSUME LockInv, NEW r \in Requests, NEW q \in Requests, q # r,
           pc'[q] = pc[q], \A m \in Rooms : lock'[m] = q <=> lock[m] = q
    PROVE  \A n \in Rooms : lock'[n] = q =>
               pc'[q] \in {"locking", "evaluated"} /\ \A m \in Missing(q)' : n < m
<1>1. RoomsOf(q) \subseteq Rooms
    BY RoomsOfType
<1>2. Missing(q)' = Missing(q)
    BY <1>1 DEF Missing, RoomsOf, Proposed
<1> QED
    BY <1>2 DEF LockInv, LocksAreOrdered

\* Rooms are locked in order and freed all at once.
LEMMA CreateLocks ==
    ASSUME LockInv, NEW r \in Requests, Create(r)
    PROVE  LocksAreOrdered'
<1>1. /\ pc \in [Requests -> {"idle", "locking", "evaluated", "committed", "done"}]
      /\ lock \in [Rooms -> Requests \cup {NoRequest}]
      /\ NoRequest \notin Requests
    BY CreateAssumption DEF LockInv, TypeOK, CreateTypeOK
<1>2. RoomsOf(r) \subseteq Rooms
    BY RoomsOfType
<1>3. CASE \E ex \in Exclusions(r) : Review(r, ex)
    BY <1>1, <1>3 DEF Review, LockInv, LocksAreOrdered, Missing, RoomsOf, Proposed
<1>4. CASE \E ex \in Exclusions(r) : Begin(r, ex)
    <2>1. pc[r] = "idle" /\ pc' = [pc EXCEPT ![r] = "locking"] /\ lock' = lock
        BY <1>4 DEF Begin
    <2>2. \A n \in Rooms : lock'[n] # r
        BY <2>1 DEF LockInv, LocksAreOrdered
    <2>3. \A q \in Requests \ {r} : pc'[q] = pc[q] /\ \A m \in Rooms : lock'[m] = q <=> lock[m] = q
        BY <1>1, <2>1
    <2> QED
        BY <2>2, <2>3, OthersKeepLocks DEF LocksAreOrdered
<1>5. CASE AcquireRoom(r)
    <2>1. PICK m \in Rooms : NextRoom(r, m) /\ lock[m] = NoRequest /\ lock' = [lock EXCEPT ![m] = r]
        BY <1>5 DEF AcquireRoom
    <2>2. pc[r] = "locking" /\ pc' = pc
        BY <1>5 DEF AcquireRoom
    <2>3. \A q \in Requests \ {r} : pc'[q] = pc[q] /\ \A n \in Rooms : lock'[n] = q <=> lock[n] = q
        BY <1>1, <2>1, <2>2
    <2>4. Missing(r)' = Missing(r) \ {m}
        BY <1>1, <1>2, <2>1 DEF Missing, RoomsOf, Proposed
    <2>5. m \in Missing(r) /\ \A n \in Missing(r) \ {m} : m < n
        BY <1>2, <2>1, RoomsAssumption DEF NextRoom, Missing
    <2>6. ASSUME NEW n \in Rooms, lock'[n] = r
          PROVE  pc'[r] \in {"locking", "evaluated"} /\ \A k \in Missing(r)' : n < k
        <3>1. CASE n = m
            BY <2>2, <2>4, <2>5, <3>1
        <3>2. CASE n # m
            <4>1. lock[n] = r
                BY <1>1, <2>1, <2>6, <3>2
            <4>2. \A k \in Missing(r) : n < k
                BY <4>1 DEF LockInv, LocksAreOrdered
            <4> QED
                BY <2>2, <2>4, <4>2
        <3> QED
            BY <3>1, <3>2
    <2> QED
        BY <2>3, <2>6, OthersKeepLocks DEF LocksAreOrdered
<1>6. CASE Accept(r)
    <2>1. pc' = [pc EXCEPT ![r] = "evaluated"] /\ lock' = lock
        BY <1>6 DEF Accept
    <2>2. Missing(r)' = Missing(r)
        BY <2>1 DEF Missing, RoomsOf, Proposed
    <2>3. \A n \in Rooms : lock'[n] = r => pc'[r] \in {"locking", "evaluated"} /\ \A m \in Missing(r)' : n < m
        BY <1>1, <2>1, <2>2 DEF LockInv, LocksAreOrdered
    <2>4. \A q \in Requests \ {r} : pc'[q] = pc[q] /\ \A m \in Rooms : lock'[m] = q <=> lock[m] = q
        BY <1>1, <2>1
    <2> QED
        BY <2>3, <2>4, OthersKeepLocks DEF LocksAreOrdered
<1>7. CASE lock' = Released(r) /\ (pc' = [pc EXCEPT ![r] = "done"] \/ pc' = [pc EXCEPT ![r] = "committed"])
    <2>1. \A n \in Rooms : lock'[n] = IF lock[n] = r THEN NoRequest ELSE lock[n]
        BY <1>7 DEF Released
    <2>2. \A n \in Rooms : lock'[n] # r
        BY <1>1, <2>1
    <2>3. \A q \in Requests \ {r} : pc'[q] = pc[q] /\ \A m \in Rooms : lock'[m] = q <=> lock[m] = q
        BY <1>1, <1>7, <2>1
    <2> QED
        BY <2>2, <2>3, OthersKeepLocks DEF LocksAreOrdered
<1>8. CASE Notify(r)
    <2>1. pc[r] = "committed" /\ pc' = [pc EXCEPT ![r] = "done"] /\ lock' = lock
        BY <1>8 DEF Notify, Finish
    <2>2. \A n \in Rooms : lock'[n] # r
        BY <2>1 DEF LockInv, LocksAreOrdered
    <2>3. \A q \in Requests \ {r} : pc'[q] = pc[q] /\ \A m \in Rooms : lock'[m] = q <=> lock[m] = q
        BY <1>1, <2>1
    <2> QED
        BY <2>2, <2>3, OthersKeepLocks DEF LocksAreOrdered
<1>9. CASE Reject(r) \/ Abort(r) \/ Commit(r)
    BY <1>7, <1>9 DEF Reject, Abort, Rollback, Finish, Commit
<1> QED
    BY <1>3, <1>4, <1>5, <1>6, <1>8, <1>9 DEF Create, Proceed

\* Nobody but creates takes room locks.
LEMMA NextLocks == LockInv /\ [Next]_vars => LockInv'
<1>1. SUFFICES ASSUME LockInv, [Next]_vars PROVE LocksAreOrdered'
    BY NextType DEF LockInv
<1>2. CASE UNCHANGED createVars
    BY <1>1, <1>2 DEF createVars, LockInv, LocksAreOrdered, Missing, RoomsOf, Proposed
<1>3. CASE Creation
    BY <1>1, <1>3, CreateLocks DEF Creation
<1> QED
    BY <1>1, <1>2, <1>3 DEF Next, Environment, Lifecycle, Closures, vars

\* At first no room is locked.
LEMMA InitLocks == Init => LockInv
<1>1. Init => \A n \in Rooms : lock[n] = NoRequest
    BY DEF Init, CreateInit
<1> QED
    BY <1>1, InitType, CreateAssumption DEF LockInv, LocksAreOrdered

\* A finite set of numbers with an element has a greatest one.
LEMMA GreatestOf ==
    ASSUME NEW S \in SUBSET Nat, IsFiniteSet(S), S # {}
    PROVE  \E b \in S : \A c \in S : c <= b
<1> DEFINE Endless(T) == T # {} /\ \A b \in T : \E c \in T : ~(c <= b)
           Sizes == {Cardinality(T) : T \in {U \in SUBSET S : Endless(U)}}
<1>1. SUFFICES ASSUME Endless(S) PROVE FALSE
    OBVIOUS
<1>2. \A T \in SUBSET S : IsFiniteSet(T) /\ Cardinality(T) \in Nat
    BY FS_Subset, FS_CardinalityType
<1>3. Sizes \subseteq Nat /\ Sizes # {}
    BY <1>1, <1>2
<1>4. PICK n \in Sizes : \A k \in Sizes : ~(<<k, n>> \in OpToRel(<, Nat))
    <2> HIDE DEF Sizes
    <2> QED
        BY <1>3, NatLessThanWellFounded, WFMin, Zenon
<1>5. PICK T \in SUBSET S : Endless(T) /\ n = Cardinality(T)
    BY <1>4
<1>6. PICK x \in T : TRUE
    BY <1>5
<1> DEFINE U == T \ {x}
<1>7. U \in SUBSET S /\ Cardinality(U) = n - 1 /\ n \in Nat
    BY <1>2, <1>5, <1>6, FS_RemoveElement
<1>8. ~Endless(U)
    <2>1. SUFFICES ASSUME Endless(U) PROVE FALSE
        OBVIOUS
    <2>2. Cardinality(U) \in Sizes
        BY <1>7, <2>1
    <2>3. Cardinality(U) < n /\ Cardinality(U) \in Nat
        BY <1>2, <1>7
    <2>4. <<Cardinality(U), n>> \in OpToRel(<, Nat)
        <3> HIDE DEF U
        <3> QED
            BY <1>7, <2>3, Zenon DEF OpToRel
    <2> QED
        BY <1>4, <2>2, <2>4
<1>9. CASE U = {}
    <2>1. T = {x}
        BY <1>6, <1>9
    <2> QED
        BY <1>5, <2>1
<1>10. CASE U # {}
    <2>1. PICK b \in U : \A c \in U : c <= b
        BY <1>8, <1>10
    <2>2. CASE x <= b
        <3>1. \A c \in T : c <= b
            BY <2>1, <2>2
        <3> QED
            BY <1>5, <2>1, <3>1
    <2>3. CASE ~(x <= b)
        <3>1. \A c \in T : c <= x
            BY <1>6, <2>1, <2>3
        <3> QED
            BY <1>5, <1>6, <3>1
    <2> QED
        BY <2>2, <2>3
<1> QED
    BY <1>9, <1>10

\* In a circle everybody would wait for a later room than the one before.
LEMMA OrderedLocksNoCircle == LockInv => NoCircleOfWaits
<1>1. SUFFICES ASSUME LockInv, NEW S \in SUBSET Requests, S # {}, IsFiniteSet(S),
                      \A r \in S : \E q \in S : WaitsFor(r, q)
               PROVE  FALSE
    BY DEF NoCircleOfWaits
<1> DEFINE Awaited(r) == CHOOSE m \in Rooms : NextRoom(r, m) /\ lock[m] \in S
           W == {Awaited(r) : r \in S}
<1>2. ASSUME NEW r \in S
      PROVE  Awaited(r) \in Rooms /\ NextRoom(r, Awaited(r)) /\ lock[Awaited(r)] \in S
    BY <1>1, <1>2 DEF WaitsFor
<1>3. IsFiniteSet(W)
    <2> HIDE DEF Awaited
    <2>1. PICK f : f = [r \in S |-> Awaited(r)]
        OBVIOUS
    <2>2. f \in Surjection(S, W)
        BY <2>1 DEF Surjection
    <2> QED
        BY <1>1, <2>2, FS_Surjection
<1>4. W \in SUBSET Nat /\ W # {}
    <2> HIDE DEF Awaited
    <2> QED
        BY <1>1, <1>2, RoomsAssumption
<1>5. PICK b \in W : \A c \in W : c <= b
    <2> HIDE DEF W
    <2> QED
        BY <1>3, <1>4, GreatestOf
<1> HIDE DEF Awaited
<1>6. PICK r \in S : b = Awaited(r)
    BY <1>5
<1>7. PICK q \in S : q = lock[b]
    BY <1>2, <1>6
<1>8. b \in Rooms /\ Awaited(q) \in Missing(q) /\ Awaited(q) \in Rooms
    BY <1>2, <1>6 DEF NextRoom
<1>9. b < Awaited(q)
    BY <1>1, <1>7, <1>8 DEF LockInv, LocksAreOrdered
<1>10. Awaited(q) <= b
    BY <1>5, <1>7
<1>11. b \in Nat /\ Awaited(q) \in Nat
    BY <1>8, RoomsAssumption
<1>12. \A m, n \in Nat : ~(m < n /\ n <= m)
    OBVIOUS
<1> QED
    BY <1>9, <1>10, <1>11, <1>12, Zenon

\* Requests over common rooms never wait for each other in a circle, however
\* many rooms, requests and interleavings there are (lock_rooms).
THEOREM NobodyWaitsInACircle == Spec => []NoCircleOfWaits
    BY InitLocks, NextLocks, OrderedLocksNoCircle, PTL DEF Spec
=============================================================================
