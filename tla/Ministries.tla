------------------------------ MODULE Ministries ------------------------------
(***************************************************************************)
(* Ministries, their stewards and their approval, and the positions that   *)
(* own them (portal/application/org, repositories/org, models/org).        *)
(*                                                                         *)
(* Every service method reads the Ministry without a lock, decides on what *)
(* it read, and then updates by id.  Transactions run READ COMMITTED, so a *)
(* request is two or three steps here: the read with the checks, for a     *)
(* member list the DELETE of the rows it sees, and the write with its      *)
(* commit.  A request that fails a check raises and leaves nothing.        *)
(* Titles, schedules, audiences and flags no decision reads are left out.  *)
(***************************************************************************)
EXTENDS Naturals, FiniteSets, Sequences

CONSTANTS Ids,             \* Ministry ids; a deleted id is never reused
          Positions,       \* owning leadership positions
          Users,
          Callers,         \* the users that send requests or are assigned
          MemberLists,     \* member lists a command may carry: one that names a user
                           \* twice fails on the unique key and leaves nothing
          Starts,          \* start_at values an assignment may carry
          Requests,        \* concurrent requests
          None,            \* a missing id, row or list
          Gone,            \* the row of a deleted Ministry
          MaxSubmissions   \* bound: approval requests per Ministry

\* The rows of org.ministry, org.ministry_member and org.ministry_approval.
MinistryRow == [status : {"draft", "pending_approval", "active", "rejected"},
                owner : Positions \cup {None}, deleted : BOOLEAN, submitted_by : Users \cup {None}]
MemberRow == [user : Users, role : {"primary", "secondary"}]
ApprovalRow == [status : {"pending", "approved", "rejected"},
                position : Positions \cup {None}, requested_by : Users]

ASSUME MinistryAssumption ==
  /\ None \notin Users \cup Positions \cup Ids
  /\ None # Gone /\ {None, Gone} \cap MinistryRow = {}
  /\ Callers \subseteq Users /\ MemberLists \subseteq SUBSET MemberRow
  /\ \A l \in MemberLists : \A x, y \in l : x.user = y.user => x = y
  /\ Starts \subseteq Nat /\ MaxSubmissions \in Nat

VARIABLES
  ministry,    \* org.ministry: None, Gone or [status, owner, deleted, submitted_by]
  members,     \* org.ministry_member: per Ministry a set of [user, role]
  approvals,   \* org.ministry_approval: per Ministry a sequence of requests
  position,    \* org.position: which positions have a row
  incumbents,  \* org.position_assignment rows with end_at null
  request,     \* what each request has read and means to write
  rowLock,     \* the request holding the row lock of a Ministry
  sent         \* the mails of the last step

vars == <<ministry, members, approvals, position, incumbents, request, rowLock, sent>>

Idle == [pc |-> "idle"]
Row(m) == ministry[m] \notin {None, Gone}

-----------------------------------------------------------------------------
(* Reads and checks the services share.                                    *)

\* The current incumbent: an open assignment with the latest start.
_current_incumbent(p) ==
  {a.user : a \in {b \in incumbents : b.position = p
                      /\ \A c \in incumbents : c.position = p => c.start <= b.start}}

\* Mutation: a Ministry without a second steward passes.
validate_primaryOnly(list) == Cardinality({x \in list : x.role = "primary"}) = 1

\* Exactly one primary and at least one secondary member.
validate_primary_and_secondary(list) ==
  /\ Cardinality({x \in list : x.role = "primary"}) = 1
  /\ \E x \in list : x.role = "secondary"

is_user_booking_member(m, u) == \E x \in members[m] : x.user = u /\ x.role \in {"primary", "secondary"}

_require_applicant_or_steward(m, u) == ministry[m].submitted_by = u \/ is_user_booking_member(m, u)

\* An update by id misses a soft-deleted row without an error.
update_ministry(m, values) ==
  IF Row(m) /\ ~ministry[m].deleted
    THEN [ministry EXCEPT ![m] = [f \in DOMAIN @ |-> IF f \in DOMAIN values THEN values[f] ELSE @[f]]]
    ELSE ministry

insert_approval(m, owner, u) ==
  [approvals EXCEPT ![m] = Append(@, [status |-> "pending", position |-> owner, requested_by |-> u])]

\* Mutation: the update forgets to ask for pending requests.
update_approvalOfAll(m, decision) ==
  [approvals EXCEPT ![m] = [i \in DOMAIN @ |-> [@[i] EXCEPT !.status = decision]]]

update_approval(m, decision) ==
  [approvals EXCEPT ![m] = [i \in DOMAIN @ |->
     IF @[i].status = "pending" THEN [@[i] EXCEPT !.status = decision] ELSE @[i]]]

-----------------------------------------------------------------------------
(* Mail.  It is sent before the commit; that it is off or fails changes     *)
(* nothing else, so the model always sends it.                             *)

send_submit_notifications(m, owner, u) ==
  {[mail |-> "submitted", to |-> u, m |-> m]}
    \cup {[mail |-> "to_decide", to |-> v, m |-> m] : v \in _current_incumbent(owner)}

\* Mutation: the decision is mailed to the incumbent who took it.
send_decision_notificationToDecider(m, applicant, channel, owner) ==
  {[mail |-> "decision", to |-> v, m |-> m] : v \in _current_incumbent(owner)}

send_decision_notification(m, applicant, channel, owner) ==
  {[mail |-> "decision", to |-> applicant, m |-> m]}
    \cup (IF channel = "staff"
            THEN {[mail |-> "staff_decision", to |-> v, m |-> m] : v \in _current_incumbent(owner)}
            ELSE {})

-----------------------------------------------------------------------------
(* Creation, deletion and restoration of Ministries.                       *)

create_ministry(m, owner) ==
  /\ ministry[m] = None
  /\ owner # None => owner \in position
  /\ ministry' = [ministry EXCEPT ![m] =
       [status |-> "draft", owner |-> owner, deleted |-> FALSE, submitted_by |-> None]]
  /\ sent' = {}
  /\ UNCHANGED <<members, approvals, position, incumbents, request, rowLock>>

\* One transaction: a new Ministry, its members and its submission.
create_application(m, owner, list, u) ==
  /\ ministry[m] = None
  /\ owner \in position /\ _current_incumbent(owner) # {}
  /\ validate_primary_and_secondary(list)
  /\ ministry' = [ministry EXCEPT ![m] =
       [status |-> "pending_approval", owner |-> owner, deleted |-> FALSE, submitted_by |-> u]]
  /\ members' = [members EXCEPT ![m] = list]
  /\ approvals' = insert_approval(m, owner, u)
  /\ sent' = send_submit_notifications(m, owner, u)
  /\ UNCHANGED <<position, incumbents, request, rowLock>>

\* An administrator moves a Ministry to another owning position.
update_ministry_owner(m, owner) ==
  /\ Row(m) /\ ~ministry[m].deleted /\ rowLock[m] = None
  /\ owner \in position \ {ministry[m].owner}
  /\ ministry' = update_ministry(m, [owner |-> owner])
  /\ sent' = {}
  /\ UNCHANGED <<members, approvals, position, incumbents, request, rowLock>>

delete_soft(m) ==
  /\ Row(m) /\ ~ministry[m].deleted /\ rowLock[m] = None
  /\ ministry' = [ministry EXCEPT ![m].deleted = TRUE]
  /\ sent' = {}
  /\ UNCHANGED <<members, approvals, position, incumbents, request, rowLock>>

delete_hard(m) ==
  /\ Row(m) /\ rowLock[m] = None
  /\ ministry' = [ministry EXCEPT ![m] = Gone]
  /\ members' = [members EXCEPT ![m] = {}]
  /\ approvals' = [approvals EXCEPT ![m] = <<>>]
  /\ sent' = {}
  /\ UNCHANGED <<position, incumbents, request, rowLock>>

restore_ministry(m) ==
  /\ Row(m) /\ ministry[m].deleted /\ rowLock[m] = None
  /\ ministry' = [ministry EXCEPT ![m].deleted = FALSE]
  /\ sent' = {}
  /\ UNCHANGED <<members, approvals, position, incumbents, request, rowLock>>

-----------------------------------------------------------------------------
(* Reads: what each request checks before it writes.                       *)

Begin(t, what) ==
  /\ request[t] = Idle
  /\ request' = [request EXCEPT ![t] = what]
  /\ sent' = {}
  /\ UNCHANGED <<ministry, members, approvals, position, incumbents, rowLock>>

submit_read(t, m, u) ==
  /\ ministry[m].status \in {"draft", "rejected"}
  /\ ministry[m].owner # None /\ _current_incumbent(ministry[m].owner) # {}
  /\ validate_primary_and_secondary(members[m])
  /\ Begin(t, [pc |-> "submit", m |-> m, u |-> u, owner |-> ministry[m].owner])

submit_ministry_read(t, m, u) == Row(m) /\ submit_read(t, m, u)

resubmit_read(t, m, u) ==
  /\ Row(m) /\ ministry[m].status = "rejected"
  /\ _require_applicant_or_steward(m, u)
  /\ submit_read(t, m, u)

\* Staff decide under RBAC, members only as the owner position's incumbent.
decide_read(t, m, u, decision, channel) ==
  /\ Row(m) /\ ministry[m].status = "pending_approval"
  /\ channel = "incumbent" => ministry[m].owner # None /\ u \in _current_incumbent(ministry[m].owner)
  /\ Begin(t, [pc |-> "decide", m |-> m, owner |-> ministry[m].owner,
               applicant |-> ministry[m].submitted_by, decision |-> decision, channel |-> channel])

update_rejected_read(t, m, u, list) ==
  /\ Row(m) /\ ministry[m].status = "rejected"
  /\ _require_applicant_or_steward(m, u)
  /\ validate_primary_and_secondary(list)
  /\ Begin(t, [pc |-> "amend", m |-> m, list |-> list])

replace_members_read(t, m, list) ==
  /\ Row(m)
  /\ validate_primary_and_secondary(list)
  /\ Begin(t, [pc |-> "replace", m |-> m, list |-> list, seen |-> members[m]])

assign_position_read(t, p, u, start) ==
  /\ p \in position
  /\ Begin(t, [pc |-> "assign", p |-> p, u |-> u, start |-> start,
               seen |-> {a \in incumbents : a.position = p}])

-----------------------------------------------------------------------------
(* Writes.                                                                 *)

Done(t) == request' = [request EXCEPT ![t] = Idle]

\* The insert of the request fails on a missing Ministry or position.
submit_write(t) ==
  LET r == request[t] IN
  /\ r.pc = "submit" /\ rowLock[r.m] = None
  /\ IF Row(r.m) /\ r.owner \in position
       THEN /\ ministry' = update_ministry(r.m, [status |-> "pending_approval", submitted_by |-> r.u])
            /\ approvals' = insert_approval(r.m, r.owner, r.u)
            /\ sent' = send_submit_notifications(r.m, r.owner, r.u)
       ELSE UNCHANGED <<ministry, approvals>> /\ sent' = {}
  /\ Done(t)
  /\ UNCHANGED <<members, position, incumbents, rowLock>>

\* Both updates may touch no row; the mail goes out when the Ministry exists.
decide_write(t) ==
  LET r == request[t] IN
  /\ r.pc = "decide" /\ rowLock[r.m] = None
  /\ ministry' = update_ministry(r.m, [status |-> IF r.decision = "approved" THEN "active" ELSE "rejected"])
  /\ approvals' = update_approval(r.m, r.decision)
  /\ IF Row(r.m) /\ r.owner # None
       THEN sent' = send_decision_notification(r.m, r.applicant, r.channel, r.owner)
       ELSE sent' = {}
  /\ Done(t)
  /\ UNCHANGED <<members, position, incumbents, rowLock>>

\* The transaction is lost after the mail went out: nothing else remains.
decide_aborted(t) ==
  LET r == request[t] IN
  /\ r.pc = "decide" /\ rowLock[r.m] = None /\ Row(r.m) /\ r.owner # None
  /\ sent' = send_decision_notification(r.m, r.applicant, r.channel, r.owner)
  /\ Done(t)
  /\ UNCHANGED <<ministry, members, approvals, position, incumbents, rowLock>>

\* The Ministry row is updated and stays locked; then the member list.
update_rejected_write(t) ==
  LET r == request[t] IN
  /\ r.pc = "amend" /\ rowLock[r.m] = None
  /\ IF Row(r.m) /\ ~ministry[r.m].deleted
       THEN /\ request' = [request EXCEPT ![t] =
                 [pc |-> "replace", m |-> r.m, list |-> r.list, seen |-> members[r.m]]]
            /\ rowLock' = [rowLock EXCEPT ![r.m] = t]
       ELSE Done(t) /\ UNCHANGED rowLock
  /\ sent' = {}
  /\ UNCHANGED <<ministry, members, approvals, position, incumbents>>

\* Rows another transaction removed are no longer among those a DELETE or
\* UPDATE in progress will touch, even when equal rows have been inserted.
Settled(t, touched) ==
  request' = [x \in Requests |->
    IF x = t THEN Idle
    ELSE IF "seen" \in DOMAIN request[x] THEN [request[x] EXCEPT !.seen = @ \ touched]
    ELSE request[x]]

Clash(r) == \/ ~Row(r.m)
            \/ \E x \in members[r.m] \ r.seen, y \in r.list : x.user = y.user

\* The DELETE removed the rows it saw; the INSERT obeys the unique key.
replace_members_write(t) ==
  LET r == request[t] IN
  /\ r.pc = "replace"
  /\ IF Clash(r) THEN Done(t) /\ UNCHANGED members
     ELSE /\ members' = [members EXCEPT ![r.m] = (@ \ r.seen) \cup r.list]
          /\ Settled(t, r.seen)
  /\ rowLock' = [rowLock EXCEPT ![r.m] = IF @ = t THEN None ELSE @]
  /\ sent' = {}
  /\ UNCHANGED <<ministry, approvals, position, incumbents>>

\* Mutation: a user who already holds the position gets no new assignment.
assign_incumbentOnce(r) ==
  (incumbents \ r.seen) \cup
    (IF \E a \in r.seen : a.user = r.u THEN {} ELSE {[position |-> r.p, user |-> r.u, start |-> r.start]})

\* Close the open assignments, then open the new one.
assign_incumbent(r) ==
  (incumbents \ r.seen) \cup {[position |-> r.p, user |-> r.u, start |-> r.start]}

assign_position_write(t) ==
  LET r == request[t] IN
  /\ r.pc = "assign"
  /\ IF r.p \in position
       THEN /\ incumbents' = assign_incumbent(r)
            /\ Settled(t, r.seen)
       ELSE Done(t) /\ UNCHANGED <<incumbents>>
  /\ sent' = {}
  /\ UNCHANGED <<ministry, members, approvals, position, rowLock>>

\* Assignments go with the position; references to it become null.
delete_position(p) ==
  /\ p \in position
  /\ position' = position \ {p}
  /\ incumbents' = {a \in incumbents : a.position # p}
  /\ ministry' = [m \in Ids |-> IF Row(m) /\ ministry[m].owner = p
                                  THEN [ministry[m] EXCEPT !.owner = None] ELSE ministry[m]]
  /\ approvals' = [m \in Ids |-> [i \in DOMAIN approvals[m] |->
        IF approvals[m][i].position = p THEN [approvals[m][i] EXCEPT !.position = None]
                                        ELSE approvals[m][i]]]
  /\ \A m \in Ids : rowLock[m] = None
  /\ sent' = {}
  /\ UNCHANGED <<members, request, rowLock>>

-----------------------------------------------------------------------------
Init ==
  /\ ministry = [m \in Ids |-> None]
  /\ members = [m \in Ids |-> {}]
  /\ approvals = [m \in Ids |-> <<>>]
  /\ position = Positions
  /\ incumbents = {}
  /\ request = [t \in Requests |-> Idle]
  /\ rowLock = [m \in Ids |-> None]
  /\ sent = {}

OwnerReview ==
  \/ \E m \in Ids, p \in Positions \cup {None} : create_ministry(m, p)
  \/ \E m \in Ids, p \in Positions, l \in MemberLists, u \in Callers : create_application(m, p, l, u)
  \/ \E m \in Ids, p \in Positions : update_ministry_owner(m, p)
  \/ \E m \in Ids : delete_soft(m) \/ delete_hard(m) \/ restore_ministry(m)
  \/ \E p \in Positions : delete_position(p)

RequestStep(t) ==
  \/ \E m \in Ids, u \in Callers :
       \/ Len(approvals[m]) < MaxSubmissions /\ (submit_ministry_read(t, m, u) \/ resubmit_read(t, m, u))
       \/ \E d \in {"approved", "rejected"}, c \in {"incumbent", "staff"} : decide_read(t, m, u, d, c)
       \/ \E l \in MemberLists : update_rejected_read(t, m, u, l)
  \/ \E m \in Ids, l \in MemberLists : replace_members_read(t, m, l)
  \/ \E p \in Positions, u \in Callers, s \in Starts : assign_position_read(t, p, u, s)
  \/ submit_write(t) \/ decide_write(t) \/ decide_aborted(t)
  \/ update_rejected_write(t) \/ replace_members_write(t) \/ assign_position_write(t)

Next == OwnerReview \/ \E t \in Requests : RequestStep(t)

Spec == Init /\ [][Next]_vars

-----------------------------------------------------------------------------
(* Properties.                                                             *)

\* Rows have their columns, a user has at most one role in a Ministry (the
\* unique key of org.ministry_member), and only a live Ministry has rows.
MinistryTypeOK ==
  /\ \A m \in Ids : ministry[m] \in {None, Gone} \cup MinistryRow
  /\ \A m \in Ids : members[m] \subseteq MemberRow
  /\ \A m \in Ids : \A x, y \in members[m] : x.user = y.user => x = y
  /\ \A m \in Ids : approvals[m] \in Seq(ApprovalRow)
  /\ \A m \in Ids : ~Row(m) => members[m] = {} /\ approvals[m] = <<>>
  /\ incumbents \subseteq [position : position, user : Users, start : Starts]

\* A Ministry that was ever submitted keeps a primary and a secondary
\* steward, whatever edits of its member list run at the same time
\* (ministry_service.replace_members, validate_members_for_submit).
StewardsNeverMissing ==
  \A m \in Ids : Row(m) /\ ministry[m].status # "draft" =>
    {"primary", "secondary"} \subseteq {x.role : x \in members[m]}

\* A pending request whose position still exists has an incumbent who can
\* see it, through every reassignment of that position
\* (position_repository.assign_incumbent, _require_owner_position_incumbent).
RequestHasApprover ==
  \A m \in Ids : \A i \in DOMAIN approvals[m] :
    approvals[m][i].status = "pending" /\ approvals[m][i].position # None =>
      _current_incumbent(approvals[m][i].position) # {}

\* A decision, once recorded on a request, is never rewritten by a later
\* round of the same application (ministry_repository.update_approval).
DecidedRequestIsFinal ==
  [][\A m \in Ids : \A i \in DOMAIN approvals[m] :
       approvals[m][i].status # "pending" /\ ministry'[m] # Gone =>
         approvals'[m][i].status = approvals[m][i].status]_vars

\* A decision is mailed to somebody who filed a request for that very
\* Ministry, whoever resubmitted, decided or deleted it in the meantime
\* (ministry_application_mail_service.send_decision_notification).
DecisionMailReachesApplicant ==
  \A x \in sent : x.mail = "decision" =>
    \E i \in DOMAIN approvals[x.m] : approvals[x.m][i].requested_by = x.to
=============================================================================
