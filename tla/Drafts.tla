--------------------------------- MODULE Drafts ---------------------------------
(***************************************************************************)
(* One Booking Draft or Recurring Series Draft: a header row and its line  *)
(* (room) rows, which reference the header with ON DELETE CASCADE.  The    *)
(* services take no lock of their own: what serializes two requests of the *)
(* owner is PostgreSQL's row locks, statement by statement.  Any other     *)
(* member is answered 404 before the first write.                          *)
(*                                                                         *)
(* A proposal is a model value: the header keeps its title, dates and      *)
(* Ministry, every line of it one of its rooms.                            *)
(***************************************************************************)
EXTENDS Naturals, Sequences, FiniteSets

CONSTANTS Proposals,    \* what the owner may propose
          DraftWorkers, \* concurrent requests of the owner
          NoDraft       \* no header row

ASSUME DraftAssumption == NoDraft \notin Proposals

VARIABLES
  header,    \* committed header row: the proposal it was written with
  lines,     \* committed line rows: the proposals they were written with
  occupied,  \* proposals whose rooms a Series made from the Draft occupies
  drafting   \* per worker, its transaction

draftVars == <<header, lines, occupied, drafting>>

\* locks: whether the header row is locked; snap: what the DELETE statement
\* saw when it began; del, ins: line rows deleted and inserted; gone: the
\* header was deleted; made: the proposal a Series was created from.
NoRequest == [pc |-> <<"idle", 0>>, new |-> NoDraft, locks |-> FALSE, snap |-> {}, del |-> {}, ins |-> {},
              gone |-> FALSE, made |-> {}]

Continues(t, what) == drafting' = [drafting EXCEPT ![t] = what]
Quiet == UNCHANGED <<header, lines, occupied>>

Others(t) == DraftWorkers \ {t}
HeaderFree(t) == \A u \in Others(t) : ~drafting[u].locks
LinesFree(t, rows) == \A u \in Others(t) : drafting[u].del \cap rows = {}

-----------------------------------------------------------------------------
(* The statements of a request, in order.  Each is done in one step but    *)
(* the DELETE of the lines, which may have to wait for another deleter and *)
(* does not see what that one inserted.                                    *)

\* Mutation: the lines are replaced before the header is written.
update_statementsSwapped == <<"snapshot", "delete", "insert", "header", "commit">>

update_statements == <<"header", "snapshot", "delete", "insert", "commit">>
delete_statements == <<"snapshot", "delete", "drop", "commit">>
create_statements == <<"insert", "commit">>

StatementsOf(kind) == CASE kind = "update" -> update_statements
                        [] kind = "create" -> create_statements
                        [] OTHER -> delete_statements

At(t, statement) ==
  LET q == drafting[t] IN
  q.pc[2] > 0 /\ StatementsOf(q.pc[1])[q.pc[2]] = statement

After(t) == [drafting[t] EXCEPT !.pc[2] = @ + 1]

\* update_header.  Waits for the row; a row deleted meanwhile is not updated.
update_header(t) ==
  /\ At(t, "header") /\ HeaderFree(t)
  /\ Continues(t, [After(t) EXCEPT !.locks = header # NoDraft])
  /\ Quiet

\* DELETE ... WHERE booking_draft_id = ...: begins, then waits for the rows.
BeginDelete(t) ==
  /\ At(t, "snapshot")
  /\ Continues(t, [After(t) EXCEPT !.snap = lines])
  /\ Quiet

FinishDelete(t) ==
  /\ At(t, "delete") /\ LinesFree(t, drafting[t].snap \cap lines)
  /\ Continues(t, [After(t) EXCEPT !.del = drafting[t].snap \cap lines, !.snap = {}])
  /\ Quiet

\* insert_lines: the foreign key wants the header, this transaction's own or a
\* committed one that nobody is deleting.
insert_lines(t) ==
  /\ At(t, "insert")
  /\ \/ drafting[t].pc[1] = "create"
     \/ header # NoDraft /\ \A u \in Others(t) : ~drafting[u].gone
  /\ Continues(t, [After(t) EXCEPT !.ins = {drafting[t].new}])
  /\ Quiet

\* DELETE of the header, the end of delete_draft and of delete_all_for_user;
\* the cascade takes the lines that were committed meanwhile.
drop_header(t) ==
  /\ At(t, "drop") /\ HeaderFree(t)
  /\ LET there == header # NoDraft IN
     /\ there => LinesFree(t, lines)
     /\ Continues(t, [After(t) EXCEPT !.locks = there, !.gone = there, !.del = IF there THEN @ \cup lines ELSE @])
  /\ Quiet

CommittedHeader(q) ==
  IF q.gone THEN NoDraft
  ELSE IF q.pc[1] = "create" \/ (q.pc[1] = "update" /\ q.locks) THEN q.new ELSE header

\* The middleware commits: the writes become visible, the locks go.
commit_draft(t) ==
  LET q == drafting[t] IN
  /\ At(t, "commit")
  /\ header' = CommittedHeader(q)
  /\ lines' = (lines \ q.del) \cup q.ins
  /\ occupied' = occupied \cup q.made
  /\ Continues(t, NoRequest)

\* A validation error, 404, a foreign key without its header, the deadlock
\* detector (an update waits for the lines a deletion holds, the deletion for
\* the header the update holds), a lost connection.
rollback_draft(t) ==
  /\ drafting[t] # NoRequest
  /\ Continues(t, NoRequest)
  /\ Quiet

-----------------------------------------------------------------------------
(* The operations.                                                         *)

\* A new header with its lines.  (The model reuses the one id once its rows
\* are gone.)
create_draft(t, p) ==
  /\ drafting[t] = NoRequest /\ header = NoDraft
  /\ \A u \in Others(t) : drafting[u] = NoRequest
  /\ Continues(t, [NoRequest EXCEPT !.pc = <<"create", 1>>, !.new = p])
  /\ Quiet

\* _get_owned_draft_or_404, then header and lines are replaced.
update_draft(t, p) ==
  /\ drafting[t] = NoRequest /\ header # NoDraft
  /\ Continues(t, [NoRequest EXCEPT !.pc = <<"update", 1>>, !.new = p])
  /\ Quiet

delete_all_my_drafts(t) ==
  /\ drafting[t] = NoRequest
  /\ Continues(t, [NoRequest EXCEPT !.pc = <<"delete", 1>>])
  /\ Quiet

\* confirm_draft, and create_booking of a member with a Draft: get_detail is
\* two SELECTs, so that the lines may be newer than the header.
confirm_draft(t) ==
  /\ drafting[t] = NoRequest /\ header # NoDraft
  /\ Continues(t, [NoRequest EXCEPT !.pc = <<"lines", 0>>])
  /\ Quiet

get_detail(t) ==
  /\ drafting[t].pc[1] = "lines"
  /\ Continues(t, [drafting[t] EXCEPT !.pc = <<"rooms", 0>>, !.snap = lines])
  /\ Quiet

\* create_series under the locks of the rooms it proposes: a proposal without
\* rooms, or with occupied ones, is refused (rollback_draft).
create_series(t) ==
  LET rooms == drafting[t].snap IN
  /\ drafting[t].pc[1] = "rooms"
  /\ rooms # {} /\ rooms \cap occupied = {}
  /\ \A u \in Others(t) : drafting[u].made \cap rooms = {}
  /\ Continues(t, [drafting[t] EXCEPT !.pc = <<"confirm", 1>>, !.made = rooms, !.snap = {}])
  /\ Quiet

-----------------------------------------------------------------------------
DraftInit ==
  /\ header = NoDraft /\ lines = {} /\ occupied = {}
  /\ drafting = [t \in DraftWorkers |-> NoRequest]

DraftNext ==
  \E t \in DraftWorkers :
    \/ \E p \in Proposals : create_draft(t, p) \/ update_draft(t, p)
    \/ delete_all_my_drafts(t) \/ confirm_draft(t) \/ get_detail(t) \/ create_series(t)
    \/ update_header(t) \/ BeginDelete(t) \/ FinishDelete(t) \/ insert_lines(t) \/ drop_header(t)
    \/ commit_draft(t) \/ rollback_draft(t)

DraftSpec == DraftInit /\ [][DraftNext]_draftVars

-----------------------------------------------------------------------------
(* Properties.                                                             *)

\* Concurrent updates are last-write-wins: a stored Draft is one proposal, the
\* header of an update with the lines of the same update, and a Draft that was
\* confirmed or deleted leaves no line behind (update_draft, delete_draft).
DraftIsOneProposal == lines = IF header = NoDraft THEN {} ELSE {header}
=============================================================================
