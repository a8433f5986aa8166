---------------------------- MODULE RoomBlackout -----------------------------
(***************************************************************************)
(* RoomBlackoutService: an Operator closes rooms.  Creating a Blackout     *)
(* cancels the future Series occurrences inside it, which the Operator has *)
(* to name; changing or restoring one cancels nothing.  No operation takes *)
(* a room lock, and each reads in statements of its own before it writes.  *)
(***************************************************************************)
EXTENDS OccupancyTables

CONSTANTS
    Operators,    \* concurrent create_blackout and update_blackout requests
    Clash,        \* pairs of Shapes of one kind that overlap
    NoBlackout

ASSUME BlackoutAssumption ==
    /\ Operators \subseteq Writers
    /\ Clash \subseteq Shapes \X Shapes
    /\ NoBlackout \notin Blackouts

VARIABLE
    closing       \* what an Operator's request has read and means to write

NoClosing == [phase |-> "idle", of |-> NoBlackout, row |-> NoRow, targets |-> {}, new |-> FALSE]

Closing == [phase : {"read", "written"}, of : Blackouts, row : BlackoutRow,
            targets : SUBSET Bookings, new : BOOLEAN]

BlackoutTypeOK == closing \in [Operators -> Closing \cup {NoClosing}]

BlackoutInit == closing = [a \in Operators |-> NoClosing]

-----------------------------------------------------------------------------
\* _assert_no_overlap: an inactive Blackout overlaps nothing.
Clashes(k, state, shape) ==
    /\ state = "active"
    /\ \E j \in Blackouts \ {k} : InEffect(j) /\ <<shape, blackout[j].shape>> \in Clash

\* RecurringBookingService.preview_blackout_impact: One-time Bookings, those
\* that have started and those whose hold ran out are not affected.
Impacted(state, shape) ==
    {b \in Bookings : /\ state = "active"
                      /\ b \in Covers[shape]
                      /\ RequestOf[b] \in SeriesRequests
                      /\ StartOf(b) > now
                      /\ Occupies(b, now)}

\* The checks of create_blackout.  The Operator's confirm_occurrence_ids must
\* be exactly the impact that is read here.
CreateBlackout(a, k, state, shape) ==
    /\ closing[a].phase = "idle"
    /\ blackout[k].state = "absent"
    /\ \A o \in Operators : closing[o].of # k
    /\ ~Clashes(k, state, shape)
    /\ closing' = [closing EXCEPT ![a] =
            [phase |-> "read", of |-> k, targets |-> Impacted(state, shape), new |-> TRUE,
             row |-> [state |-> state, deleted |-> FALSE, shape |-> shape]]]
    /\ UNCHANGED tableVars

\* The checks of update_blackout: there is no impact to confirm.
UpdateBlackout(a, k, state, shape) ==
    /\ closing[a].phase = "idle"
    /\ blackout[k].state # "absent"
    /\ ~Clashes(k, state, shape)
    /\ closing' = [closing EXCEPT ![a] =
            [phase |-> "read", of |-> k, targets |-> {}, new |-> FALSE,
             row |-> [state |-> state, deleted |-> FALSE, shape |-> shape]]]
    /\ UNCHANGED tableVars

\* Mutant: a Series that lost one occurrence is cancelled.
EmptiedWheneverTouched(targets) ==
    {s \in SeriesRequests : \E b \in targets : RequestOf[b] = s}

\* The Series of which apply_blackout_impact leaves no live occurrence.
Emptied(targets) ==
    {s \in SeriesRequests : /\ \E b \in targets : RequestOf[b] = s
                            /\ series[s].status # "cancelled"
                            /\ \A b \in Proposed(s) \ targets : ~Cancellable(b, now)}

\* insert_blackout or update_blackout, then apply_blackout_impact.
WriteBlackout(a) ==
    LET rows == closing[a].targets \cup Emptied(closing[a].targets) IN
    /\ closing[a].phase = "read"
    /\ RowsFree(rows, a)
    /\ dirty' = [dirty EXCEPT ![a] = rows]
    /\ closing' = [closing EXCEPT ![a] = [@ EXCEPT !.phase = "written"]]
    /\ UNCHANGED <<booking, series, ministry, blackout, now, lapsed>>

\* An update of a row that was deleted meanwhile affects nothing.
CommitBlackout(a) ==
    LET k == closing[a].of IN
    /\ closing[a].phase = "written"
    /\ booking' = CancelledBooking(dirty[a])
    /\ series' = CancelledSeries(dirty[a], TRUE)
    /\ blackout' = IF closing[a].new \/ (blackout[k].state # "absent" /\ ~blackout[k].deleted)
                   THEN [blackout EXCEPT ![k] = closing[a].row] ELSE blackout
    /\ dirty' = [dirty EXCEPT ![a] = {}]
    /\ closing' = [closing EXCEPT ![a] = NoClosing]
    /\ UNCHANGED <<ministry, now, lapsed>>

AbortBlackout(a) ==
    /\ closing[a].phase # "idle"
    /\ dirty' = [dirty EXCEPT ![a] = {}]
    /\ closing' = [closing EXCEPT ![a] = NoClosing]
    /\ UNCHANGED <<booking, series, ministry, blackout, now, lapsed>>

\* delete_blackout, for good or with a deletion mark.
DeleteBlackout(k) ==
    /\ blackout[k].state # "absent"
    /\ \E row \in {NoRow, [blackout[k] EXCEPT !.deleted = TRUE]} :
          blackout' = [blackout EXCEPT ![k] = row]
    /\ UNCHANGED <<booking, series, ministry, now, lapsed, dirty, closing>>

\* restore_blackout looks at nothing: neither overlap nor impact.
RestoreBlackout(k) ==
    /\ blackout[k].state # "absent"
    /\ blackout[k].deleted
    /\ blackout' = [blackout EXCEPT ![k] = [@ EXCEPT !.deleted = FALSE]]
    /\ UNCHANGED <<booking, series, ministry, now, lapsed, dirty, closing>>

-----------------------------------------------------------------------------
CloseRooms(a) ==
    \/ \E k \in Blackouts, state \in {"active", "inactive"}, shape \in Shapes :
          CreateBlackout(a, k, state, shape) \/ UpdateBlackout(a, k, state, shape)
    \/ WriteBlackout(a)
    \/ CommitBlackout(a)
    \/ AbortBlackout(a)

=============================================================================
