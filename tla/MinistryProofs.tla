---------------------------- MODULE MinistryProofs ----------------------------
(***************************************************************************)
(* Proofs about Ministries: stewards, approvers, decisions and their mail, *)
(* for every set of Ministries, positions, users and concurrent requests.  *)
(***************************************************************************)
EXTENDS Ministries, TLAPS, FiniteSetTheorems, SequenceTheorems, WellFoundedInduction

-----------------------------------------------------------------------------
(* The inductive invariant.                                                *)

AssignmentRow == [position : Positions, user : Users, start : Nat]

\* What a request between its read and its write carries.
SubmitRequest == [pc : {"submit"}, m : Ids, u : Users, owner : Positions]
DecideRequest == [pc : {"decide"}, m : Ids, owner : Positions \cup {None},
                  applicant : Users \cup {None}, decision : {"approved", "rejected"},
                  channel : {"incumbent", "staff"}]
AmendRequest == [pc : {"amend"}, m : Ids, list : SUBSET MemberRow]
ReplaceRequest == [pc : {"replace"}, m : Ids, list : SUBSET MemberRow, seen : SUBSET MemberRow]
AssignRequest == [pc : {"assign"}, p : Positions, u : Users, start : Nat, seen : SUBSET AssignmentRow]

RequestRow == {Idle} \cup SubmitRequest \cup DecideRequest \cup AmendRequest
                \cup ReplaceRequest \cup AssignRequest

Tables ==
  /\ ministry \in [Ids -> {None, Gone} \cup MinistryRow]
  /\ members \in [Ids -> SUBSET MemberRow]
  /\ approvals \in [Ids -> Seq(ApprovalRow)]
  /\ position \subseteq Positions
  /\ incumbents \in SUBSET AssignmentRow /\ IsFiniteSet(incumbents)
  /\ request \in [Requests -> RequestRow]

HasStewards(list) == {"primary", "secondary"} \subseteq {x.role : x \in list}

\* Somebody holds the position.
Held(p) == \E a \in incumbents : a.position = p

FiledBy(m, u) == \E i \in DOMAIN approvals[m] : approvals[m][i].requested_by = u

\* A Ministry beyond the draft has both stewards, and the user it names as
\* its applicant filed a request for it.
SubmittedIsWhole ==
  \A m \in Ids : Row(m) /\ ministry[m].status # "draft" =>
    HasStewards(members[m]) /\ FiledBy(m, ministry[m].submitted_by)

\* A pending request names no position, or one that exists and is held.
PendingIsHeld ==
  \A m \in Ids : \A i \in DOMAIN approvals[m] :
    approvals[m][i].status = "pending" /\ approvals[m][i].position # None =>
      approvals[m][i].position \in position /\ Held(approvals[m][i].position)

\* What a request found when it read is still so when it writes, unless the
\* Ministry or the position is gone, which the write looks at again.
SubmitHolds(r) ==
  r.pc = "submit" =>
    /\ ministry[r.m] # None /\ (Row(r.m) => HasStewards(members[r.m]))
    /\ r.owner \in position => Held(r.owner)

DecideHolds(r) ==
  r.pc = "decide" =>
    /\ ministry[r.m] # None
    /\ Row(r.m) => ministry[r.m].status # "draft" /\ FiledBy(r.m, r.applicant)

EditHolds(r) == r.pc \in {"amend", "replace"} => ministry[r.m] # None /\ HasStewards(r.list)

AssignHolds(r) == r.pc = "assign" => \A a \in r.seen : a.position = r.p

RequestHolds(r) == SubmitHolds(r) /\ DecideHolds(r) /\ EditHolds(r) /\ AssignHolds(r)

RequestsHold == \A t \in Requests : RequestHolds(request[t])

MinistryInv == /\ Tables
               /\ SubmittedIsWhole
               /\ PendingIsHeld
               /\ RequestsHold
               /\ DecisionMailReachesApplicant
-----------------------------------------------------------------------------
(* Lemmas about the operators.                                             *)

\* Among finitely many assignments, at least one, there is a latest.
LEMMA LatestAssignment ==
    ASSUME NEW S \in SUBSET AssignmentRow, IsFiniteSet(S), S # {}
    PROVE  \E b \in S : \A c \in S : c.start <= b.start
<1> DEFINE NoLatest(T) == T # {} /\ \A b \in T : \E c \in T : ~(c.start <= b.start)
           Sizes == {Cardinality(T) : T \in {U \in SUBSET S : NoLatest(U)}}
<1>1. SUFFICES ASSUME NoLatest(S) PROVE FALSE
    OBVIOUS
<1>2. \A T \in SUBSET S : IsFiniteSet(T) /\ Cardinality(T) \in Nat
    BY FS_Subset, FS_CardinalityType
<1>3. Sizes \subseteq Nat /\ Sizes # {}
    BY <1>1, <1>2
<1>4. PICK n \in Sizes : \A k \in Sizes : ~(<<k, n>> \in OpToRel(<, Nat))
    <2> HIDE DEF Sizes
    <2> QED
        BY <1>3, NatLessThanWellFounded, WFMin, Zenon
<1>5. PICK T \in SUBSET S : NoLatest(T) /\ n = Cardinality(T)
    BY <1>4
<1>6. PICK x \in T : TRUE
    BY <1>5
<1> DEFINE U == T \ {x}
<1>7. U \in SUBSET S /\ Cardinality(U) = n - 1 /\ n \in Nat
    BY <1>2, <1>5, <1>6, FS_RemoveElement
<1>8. ~NoLatest(U)
    <2>1. SUFFICES ASSUME NoLatest(U) PROVE FALSE
        OBVIOUS
    <2>2. Cardinality(U) \in Sizes
        BY <1>7, <2>1
    <2>3. Cardinality(U) < n /\ Cardinality(U) \in Nat
        BY <1>2, <1>7
    <2>4. <<Cardinality(U), n>> \in OpToRel(<, Nat)
        <3> HIDE DEF U
        <3> QED
            BY <1>7, <2>3, Zenon DEF OpToRel
    <2> QED
        BY <1>4, <2>2, <2>4
<1>9. \A a \in T : a.start \in Nat
    BY DEF AssignmentRow
<1>10. CASE U = {}
    <2>1. T = {x}
        BY <1>6, <1>10
    <2> QED
        BY <1>5, <1>9, <2>1
<1>11. CASE U # {}
    <2>1. PICK b \in U : \A c \in U : c.start <= b.start
        BY <1>8, <1>11
    <2>2. CASE x.start <= b.start
        <3>1. \A c \in T : c.start <= b.start
            BY <2>1, <2>2
        <3> QED
            BY <1>5, <2>1, <3>1
    <2>3. CASE ~(x.start <= b.start)
        <3>1. \A c \in T : c.start <= x.start
            BY <1>6, <1>9, <2>1, <2>3
        <3> QED
            BY <1>5, <1>6, <3>1
    <2> QED
        BY <2>2, <2>3
<1> QED
    BY <1>10, <1>11

\* A position is held exactly when it has a current incumbent: an open
\* assignment is enough, and no tie or gap of the start dates hides them all.
LEMMA HeldHasIncumbent ==
    ASSUME Tables, NEW p
    PROVE  Held(p) <=> _current_incumbent(p) # {}
<1> DEFINE S == {a \in incumbents : a.position = p}
<1>1. S \in SUBSET AssignmentRow /\ IsFiniteSet(S)
    BY FS_Subset DEF Tables
<1>2. ASSUME Held(p) PROVE _current_incumbent(p) # {}
    <2>1. S # {}
        BY <1>2 DEF Held
    <2>2. PICK b \in S : \A c \in S : c.start <= b.start
        <3> HIDE DEF S
        <3> QED
            BY <1>1, <2>1, LatestAssignment
    <2>3. b.user \in _current_incumbent(p)
        BY <2>2 DEF _current_incumbent
    <2> QED
        BY <2>3
<1>3. ASSUME _current_incumbent(p) # {} PROVE Held(p)
    BY <1>3 DEF _current_incumbent, Held
<1> QED
    BY <1>2, <1>3

\* A list that passes the check has both stewards.
LEMMA ValidHasStewards ==
    ASSUME NEW list, validate_primary_and_secondary(list)
    PROVE  HasStewards(list)
<1>1. {x \in list : x.role = "primary"} # {}
    BY FS_EmptySet DEF validate_primary_and_secondary
<1> QED
    BY <1>1 DEF validate_primary_and_secondary, HasStewards

\* A Ministry row is a record, and a record is neither None nor Gone.
LEMMA RowIsRecord ==
    ASSUME Tables, NEW m \in Ids
    PROVE  /\ Row(m) <=> ministry[m] \in MinistryRow
           /\ ministry[m] \in {None, Gone} <=> ~Row(m)
    BY MinistryAssumption DEF Row, Tables

\* The update by id changes the columns it names of a row that is not deleted.
LEMMA UpdateByIdRow ==
    ASSUME NEW r \in MinistryRow,
           NEW values, DOMAIN values \subseteq {"status", "owner", "submitted_by"},
           "status" \in DOMAIN values => values.status \in {"draft", "pending_approval", "active", "rejected"},
           "owner" \in DOMAIN values => values.owner \in Positions \cup {None},
           "submitted_by" \in DOMAIN values => values.submitted_by \in Users \cup {None},
           NEW q, q = [f \in DOMAIN r |-> IF f \in DOMAIN values THEN values[f] ELSE r[f]]
    PROVE  /\ q \in MinistryRow
           /\ q.status = (IF "status" \in DOMAIN values THEN values.status ELSE r.status)
           /\ q.owner = (IF "owner" \in DOMAIN values THEN values.owner ELSE r.owner)
           /\ q.submitted_by = (IF "submitted_by" \in DOMAIN values THEN values.submitted_by ELSE r.submitted_by)
           /\ q.deleted = r.deleted
<1>1. DOMAIN r = {"status", "owner", "deleted", "submitted_by"}
    BY DEF MinistryRow
<1>2. /\ q.status = (IF "status" \in DOMAIN values THEN values.status ELSE r.status)
      /\ q.owner = (IF "owner" \in DOMAIN values THEN values.owner ELSE r.owner)
      /\ q.submitted_by = (IF "submitted_by" \in DOMAIN values THEN values.submitted_by ELSE r.submitted_by)
      /\ q.deleted = r.deleted
    BY <1>1
<1>3. q = [status |-> q.status, owner |-> q.owner, deleted |-> q.deleted, submitted_by |-> q.submitted_by]
    BY <1>1
<1>4. /\ q.status \in {"draft", "pending_approval", "active", "rejected"}
      /\ q.owner \in Positions \cup {None}
      /\ q.submitted_by \in Users \cup {None}
      /\ q.deleted \in BOOLEAN
    BY <1>2 DEF MinistryRow
<1>5. q \in MinistryRow
    BY <1>3, <1>4 DEF MinistryRow
<1> QED
    BY <1>2, <1>5

\* The table after an update by id.
LEMMA UpdateById ==
    ASSUME Tables, NEW m \in Ids,
           NEW values, DOMAIN values \subseteq {"status", "owner", "submitted_by"},
           "status" \in DOMAIN values => values.status \in {"draft", "pending_approval", "active", "rejected"},
           "owner" \in DOMAIN values => values.owner \in Positions \cup {None},
           "submitted_by" \in DOMAIN values => values.submitted_by \in Users \cup {None},
           NEW n, n = update_ministry(m, values)
    PROVE  /\ n \in [Ids -> {None, Gone} \cup MinistryRow]
           /\ \A k \in Ids :
                \/ n[k] = ministry[k]
                \/ /\ k = m /\ Row(m) /\ ~ministry[m].deleted
                   /\ n[m] \in MinistryRow
                   /\ n[m].status = (IF "status" \in DOMAIN values THEN values.status ELSE ministry[m].status)
                   /\ n[m].submitted_by = (IF "submitted_by" \in DOMAIN values
                                             THEN values.submitted_by ELSE ministry[m].submitted_by)
<1>1. CASE Row(m) /\ ~ministry[m].deleted
    <2>1. ministry[m] \in MinistryRow
        BY <1>1, RowIsRecord
    <2>2. PICK q : q = [f \in DOMAIN ministry[m] |-> IF f \in DOMAIN values THEN values[f] ELSE ministry[m][f]]
        OBVIOUS
    <2>3. /\ q \in MinistryRow
          /\ q.status = (IF "status" \in DOMAIN values THEN values.status ELSE ministry[m].status)
          /\ q.submitted_by = (IF "submitted_by" \in DOMAIN values
                                 THEN values.submitted_by ELSE ministry[m].submitted_by)
        BY <2>1, <2>2, UpdateByIdRow
    <2>4. n = [ministry EXCEPT ![m] = q]
        BY <1>1, <2>2 DEF update_ministry
    <2> QED
        BY <1>1, <2>3, <2>4 DEF Tables
<1>2. CASE ~(Row(m) /\ ~ministry[m].deleted)
    BY <1>2 DEF update_ministry, Tables
<1> QED
    BY <1>1, <1>2

\* Rewriting the elements of a sequence one by one leaves a sequence.
LEMMA RewrittenApprovals ==
    ASSUME NEW s \in Seq(ApprovalRow), NEW n, n = [i \in DOMAIN s |-> n[i]],
           \A i \in DOMAIN s : n[i] \in ApprovalRow
    PROVE  n \in Seq(ApprovalRow) /\ DOMAIN n = DOMAIN s
<1>1. Len(s) \in Nat /\ DOMAIN s = 1..Len(s)
    BY LenProperties
<1>2. n \in [1..Len(s) -> ApprovalRow]
    BY <1>1
<1>3. n \in UNION {[1..k -> ApprovalRow] : k \in Nat}
    BY <1>1, <1>2
<1> QED
    BY <1>1, <1>2, <1>3, SeqDef

\* A submission adds a pending request of the user and leaves the others.
LEMMA InsertApproval ==
    ASSUME Tables, NEW m \in Ids, NEW owner \in Positions, NEW u \in Users,
           NEW n, n = insert_approval(m, owner, u)
    PROVE  /\ n \in [Ids -> Seq(ApprovalRow)]
           /\ \A k \in Ids : k # m => n[k] = approvals[k]
           /\ \A i \in DOMAIN approvals[m] : i \in DOMAIN n[m] /\ n[m][i] = approvals[m][i]
           /\ \A i \in DOMAIN n[m] : i \notin DOMAIN approvals[m] => n[m][i].position = owner
           /\ \E i \in DOMAIN n[m] : n[m][i].requested_by = u
<1> DEFINE e == [status |-> "pending", position |-> owner, requested_by |-> u]
           s == approvals[m]
<1>1. e \in ApprovalRow /\ e.position = owner /\ e.requested_by = u /\ s \in Seq(ApprovalRow)
    BY DEF ApprovalRow, Tables
<1>2. n = [approvals EXCEPT ![m] = Append(s, e)]
    BY DEF insert_approval
<1> HIDE DEF e, s
<1>3. /\ Append(s, e) \in Seq(ApprovalRow) /\ Len(Append(s, e)) = Len(s) + 1
      /\ \A i \in 1..Len(s) : Append(s, e)[i] = s[i]
      /\ Append(s, e)[Len(s) + 1] = e
    BY <1>1, AppendProperties
<1>4. /\ Len(s) \in Nat /\ DOMAIN s = 1..Len(s) /\ DOMAIN Append(s, e) = 1..(Len(s) + 1)
    BY <1>1, <1>3, LenProperties
<1>5. /\ \A i \in DOMAIN s : i \in DOMAIN Append(s, e)
      /\ \A i \in DOMAIN Append(s, e) : i \notin DOMAIN s => i = Len(s) + 1
      /\ Len(s) + 1 \in DOMAIN Append(s, e)
    BY <1>4
<1>6. n \in [Ids -> Seq(ApprovalRow)] /\ n[m] = Append(s, e) /\ \A k \in Ids : k # m => n[k] = approvals[k]
    BY <1>2, <1>3 DEF Tables
<1>7. s = approvals[m]
    BY DEF s
<1> QED
    BY <1>1, <1>3, <1>4, <1>5, <1>6, <1>7

\* A decision rewrites only the status, and only of pending requests.
LEMMA UpdateApproval ==
    ASSUME Tables, NEW m \in Ids, NEW d \in {"approved", "rejected"},
           NEW n, n = update_approval(m, d)
    PROVE  /\ n \in [Ids -> Seq(ApprovalRow)]
           /\ \A k \in Ids : DOMAIN n[k] = DOMAIN approvals[k]
           /\ \A k \in Ids : \A i \in DOMAIN approvals[k] :
                /\ n[k][i].requested_by = approvals[k][i].requested_by
                /\ n[k][i].position = approvals[k][i].position
                /\ n[k][i].status = approvals[k][i].status
                     \/ (approvals[k][i].status = "pending" /\ n[k][i].status # "pending")
<1>1. PICK q : q = [i \in DOMAIN approvals[m] |->
                      IF approvals[m][i].status = "pending"
                        THEN [approvals[m][i] EXCEPT !.status = d] ELSE approvals[m][i]]
    OBVIOUS
<1>2. approvals[m] \in Seq(ApprovalRow)
    BY DEF Tables
<1>3. ASSUME NEW i \in DOMAIN approvals[m]
      PROVE  /\ q[i] \in ApprovalRow
             /\ q[i].requested_by = approvals[m][i].requested_by
             /\ q[i].position = approvals[m][i].position
             /\ q[i].status = approvals[m][i].status
                  \/ (approvals[m][i].status = "pending" /\ q[i].status # "pending")
    <2>1. approvals[m][i] \in ApprovalRow
        BY <1>2, LenProperties
    <2>2. q[i] \in {approvals[m][i], [approvals[m][i] EXCEPT !.status = d]}
        BY <1>1
    <2>3. approvals[m][i].status # "pending" => q[i] = approvals[m][i]
        BY <1>1
    <2> QED
        BY <2>1, <2>2, <2>3 DEF ApprovalRow
<1>4. q \in Seq(ApprovalRow) /\ DOMAIN q = DOMAIN approvals[m]
    <2>1. q = [i \in DOMAIN approvals[m] |-> q[i]]
        BY <1>1
    <2>2. \A i \in DOMAIN approvals[m] : q[i] \in ApprovalRow
        BY <1>3
    <2> QED
        BY <1>2, <2>1, <2>2, RewrittenApprovals
<1>5. n = [approvals EXCEPT ![m] = q]
    BY <1>1 DEF update_approval
<1> HIDE DEF ApprovalRow
<1> QED
    BY <1>3, <1>4, <1>5 DEF Tables

\* The requests after a position is deleted.
Forgotten(p) ==
  [m \in Ids |-> [i \in DOMAIN approvals[m] |->
     IF approvals[m][i].position = p THEN [approvals[m][i] EXCEPT !.position = None]
                                     ELSE approvals[m][i]]]

\* Deleting a position leaves every request in its place, with the same
\* applicant and status, and none that names the position.
LEMMA ForgetPosition ==
    ASSUME Tables, NEW p \in Positions, NEW n, n = Forgotten(p)
    PROVE  /\ n \in [Ids -> Seq(ApprovalRow)]
           /\ \A k \in Ids : DOMAIN n[k] = DOMAIN approvals[k]
           /\ \A k \in Ids : \A i \in DOMAIN approvals[k] :
                /\ n[k][i].requested_by = approvals[k][i].requested_by
                /\ n[k][i].status = approvals[k][i].status
                /\ n[k][i].position = None
                     \/ (n[k][i].position = approvals[k][i].position /\ n[k][i].position # p)
<1>1. ASSUME NEW k \in Ids
      PROVE  /\ n[k] \in Seq(ApprovalRow) /\ DOMAIN n[k] = DOMAIN approvals[k]
             /\ \A i \in DOMAIN approvals[k] :
                /\ n[k][i].requested_by = approvals[k][i].requested_by
                /\ n[k][i].status = approvals[k][i].status
                /\ n[k][i].position = None
                     \/ (n[k][i].position = approvals[k][i].position /\ n[k][i].position # p)
    <2>1. approvals[k] \in Seq(ApprovalRow)
        BY DEF Tables
    <2>2. n[k] = [i \in DOMAIN approvals[k] |-> n[k][i]]
        BY DEF Forgotten
    <2>3. ASSUME NEW i \in DOMAIN approvals[k]
          PROVE  /\ n[k][i] \in ApprovalRow
                 /\ n[k][i].requested_by = approvals[k][i].requested_by
                 /\ n[k][i].status = approvals[k][i].status
                 /\ n[k][i].position = None
                      \/ (n[k][i].position = approvals[k][i].position /\ n[k][i].position # p)
        <3>1. approvals[k][i] \in ApprovalRow
            BY <2>1, LenProperties
        <3>2. n[k][i] = IF approvals[k][i].position = p THEN [approvals[k][i] EXCEPT !.position = None]
                                                        ELSE approvals[k][i]
            BY DEF Forgotten
        <3> QED
            BY <3>1, <3>2 DEF ApprovalRow
    <2>4. n[k] \in Seq(ApprovalRow) /\ DOMAIN n[k] = DOMAIN approvals[k]
        BY <2>1, <2>2, <2>3, RewrittenApprovals
    <2> QED
        BY <2>3, <2>4
<1>2. n = [k \in Ids |-> n[k]]
    BY DEF Forgotten
<1> QED
    BY <1>1, <1>2

-----------------------------------------------------------------------------
(* What every step leaves.                                                 *)

\* The Ministry is never new again, and never a draft again.
MinistryStays(m) ==
  ministry[m] # None =>
    /\ ministry'[m] # None
    /\ Row(m)' => Row(m) /\ (ministry[m].status # "draft" => ministry'[m].status # "draft")

\* While the Ministry is there its requests keep their applicants, and it
\* keeps its stewards.
FilingsStay(m) ==
  Row(m)' => \A i \in DOMAIN approvals[m] :
    i \in DOMAIN approvals'[m] /\ approvals'[m][i].requested_by = approvals[m][i].requested_by

StewardsStay(m) == Row(m)' /\ HasStewards(members[m]) => HasStewards(members'[m])

\* No position comes back, and one that stays is not left vacant.
HolderStays == position' \subseteq position /\ \A p \in position' : Held(p) => Held(p)'

Stays == /\ \A m \in Ids : MinistryStays(m) /\ FilingsStay(m) /\ StewardsStay(m)
         /\ HolderStays

\* A request is idle, or carried over; a change of its table by another may
\* only have taken rows from those it is about to touch.
CarriedOver(r, q) ==
  \/ q = Idle
  \/ q = r
  \/ /\ r \in ReplaceRequest \cup AssignRequest
     /\ q.seen \subseteq r.seen /\ q = [r EXCEPT !.seen = q.seen]

RequestStays == \A t \in Requests : CarriedOver(request[t], request'[t])

\* Row by row, for a changed Ministry table.
LEMMA MinistryTableStays ==
    ASSUME Tables, NEW n \in [Ids -> {None, Gone} \cup MinistryRow], ministry' = n,
           NEW m \in Ids,
           \/ ministry[m] = None
           \/ n[m] = ministry[m]
           \/ n[m] = Gone
           \/ Row(m) /\ n[m] \in MinistryRow /\ (ministry[m].status # "draft" => n[m].status # "draft")
    PROVE  MinistryStays(m)
    BY MinistryAssumption DEF MinistryStays, Row, Tables

\* What is left alone stays.
LEMMA UnchangedStays ==
    ASSUME Tables
    PROVE  /\ UNCHANGED ministry => \A m \in Ids : MinistryStays(m)
           /\ UNCHANGED approvals => \A m \in Ids : FilingsStay(m)
           /\ UNCHANGED members => \A m \in Ids : StewardsStay(m)
           /\ UNCHANGED <<position, incumbents>> => HolderStays
           /\ UNCHANGED request => RequestStays
    BY DEF MinistryStays, FilingsStay, StewardsStay, HolderStays, RequestStays, CarriedOver, Row, Held

\* Settling the rows a write touched.
LEMMA SettledStays ==
    ASSUME Tables, NEW t \in Requests, NEW touched, Settled(t, touched)
    PROVE  RequestStays /\ request' \in [Requests -> RequestRow]
<1>1. ASSUME NEW x \in Requests
      PROVE  CarriedOver(request[x], request'[x]) /\ request'[x] \in RequestRow
    <2>1. request[x] \in RequestRow
        BY DEF Tables
    <2>2. CASE x = t \/ "seen" \notin DOMAIN request[x]
        BY <2>1, <2>2 DEF Settled, CarriedOver, RequestRow
    <2>3. CASE x # t /\ "seen" \in DOMAIN request[x]
        <3>1. request[x] \in ReplaceRequest \cup AssignRequest
            BY <2>1, <2>3 DEF RequestRow, Idle, SubmitRequest, DecideRequest, AmendRequest
        <3>2. PICK r : r = request[x]
            OBVIOUS
        <3>3. PICK q : q = [r EXCEPT !.seen = r.seen \ touched]
            OBVIOUS
        <3>4. request'[x] = q
            BY <2>3, <3>2, <3>3 DEF Settled
        <3>5. CASE r \in ReplaceRequest
            <4>1. q \in ReplaceRequest /\ q.seen = r.seen \ touched
                BY <3>3, <3>5 DEF ReplaceRequest
            <4> QED
                BY <3>1, <3>2, <3>3, <3>4, <4>1 DEF CarriedOver, RequestRow
        <3>6. CASE r \in AssignRequest
            <4>1. q \in AssignRequest /\ q.seen = r.seen \ touched
                BY <3>3, <3>6 DEF AssignRequest
            <4> QED
                BY <3>1, <3>2, <3>3, <3>4, <4>1 DEF CarriedOver, RequestRow
        <3> QED
            BY <3>1, <3>2, <3>5, <3>6
    <2> QED
        BY <2>2, <2>3
<1>2. request' = [x \in Requests |-> request'[x]]
    BY DEF Settled
<1> QED
    BY <1>1, <1>2 DEF RequestStays

\* A finished request.
LEMMA DoneStays ==
    ASSUME Tables, NEW t \in Requests, Done(t)
    PROVE  RequestStays /\ request' \in [Requests -> RequestRow]
    BY DEF Tables, Done, RequestStays, CarriedOver, RequestRow

-----------------------------------------------------------------------------
(* The parts of the invariant, from what a step leaves.                    *)

\* A Ministry beyond the draft was so before, under the same applicant, or
\* the step itself saw its stewards and its request.
LEMMA WholeStays ==
    ASSUME SubmittedIsWhole, Stays,
           \A m \in Ids : Row(m)' /\ ministry'[m].status # "draft" =>
             \/ /\ Row(m) /\ ministry[m].status # "draft"
                /\ ministry'[m].submitted_by = ministry[m].submitted_by
             \/ HasStewards(members'[m]) /\ FiledBy(m, ministry[m].submitted_by)'
    PROVE  SubmittedIsWhole'
<1>1. SUFFICES ASSUME NEW m \in Ids, Row(m)', ministry'[m].status # "draft"
               PROVE  HasStewards(members'[m]) /\ FiledBy(m, ministry[m].submitted_by)'
    BY DEF SubmittedIsWhole
<1>2. CASE Row(m) /\ ministry[m].status # "draft" /\ ministry'[m].submitted_by = ministry[m].submitted_by
    <2>1. HasStewards(members[m]) /\ FiledBy(m, ministry[m].submitted_by)
        BY <1>2 DEF SubmittedIsWhole
    <2>2. HasStewards(members'[m])
        BY <1>1, <2>1 DEF Stays, StewardsStay
    <2>3. FiledBy(m, ministry[m].submitted_by)'
        BY <1>1, <1>2, <2>1 DEF Stays, FilingsStay, FiledBy
    <2> QED
        BY <2>2, <2>3
<1> QED
    BY <1>1, <1>2

\* A pending request was pending before at the same position, which is still
\* there, or names a position the step saw held.
LEMMA PendingStays ==
    ASSUME PendingIsHeld, HolderStays,
           \A m \in Ids : \A i \in DOMAIN approvals'[m] :
             approvals'[m][i].status = "pending" /\ approvals'[m][i].position # None =>
               /\ approvals'[m][i].position \in position'
               /\ \/ /\ i \in DOMAIN approvals[m] /\ approvals[m][i].status = "pending"
                     /\ approvals[m][i].position = approvals'[m][i].position
                  \/ Held(approvals'[m][i].position)
    PROVE  PendingIsHeld'
<1>1. SUFFICES ASSUME NEW m \in Ids, NEW i \in DOMAIN approvals'[m],
                      approvals'[m][i].status = "pending", approvals'[m][i].position # None
               PROVE  /\ approvals'[m][i].position \in position'
                      /\ Held(approvals[m][i].position)'
    BY DEF PendingIsHeld
<1>2. PICK p : p = approvals'[m][i].position
    OBVIOUS
<1>3. p \in position'
    BY <1>1, <1>2
<1>4. Held(p)
    BY <1>1, <1>2 DEF PendingIsHeld
<1>5. Held(p)'
    BY <1>3, <1>4 DEF HolderStays
<1> QED
    BY <1>2, <1>3, <1>5 DEF Held

\* Pending requests that nobody touches stay held.
LEMMA UnchangedPending ==
    ASSUME PendingIsHeld, HolderStays, UNCHANGED approvals, UNCHANGED position
    PROVE  PendingIsHeld'
    BY PendingStays DEF PendingIsHeld

\* A Ministry nobody touches stays whole.
LEMMA UnchangedWhole ==
    ASSUME SubmittedIsWhole, Stays, UNCHANGED ministry
    PROVE  SubmittedIsWhole'
    BY WholeStays DEF Row

\* What a request carries holds on as long as it is carried over.
LEMMA CarriedHolds ==
    ASSUME Tables, Stays, NEW r \in RequestRow, NEW q, RequestHolds(r), CarriedOver(r, q)
    PROVE  RequestHolds(q)'
<1>1. CASE q = Idle
    BY <1>1 DEF Idle, RequestHolds, SubmitHolds, DecideHolds, EditHolds, AssignHolds
<1>2. ASSUME RequestHolds(r) PROVE RequestHolds(r)'
    <2>1. r.pc \in {"submit", "decide", "amend", "replace"} => r.m \in Ids
        BY DEF RequestRow, Idle, SubmitRequest, DecideRequest, AmendRequest, ReplaceRequest, AssignRequest
    <2>2. SubmitHolds(r)'
        BY <2>1 DEF RequestHolds, SubmitHolds, Stays, MinistryStays, StewardsStay, HolderStays
    <2>3. DecideHolds(r)'
        BY <2>1 DEF RequestHolds, DecideHolds, Stays, MinistryStays, FilingsStay, FiledBy
    <2>4. EditHolds(r)'
        BY <2>1 DEF RequestHolds, EditHolds, Stays, MinistryStays
    <2>5. AssignHolds(r)'
        BY DEF RequestHolds, AssignHolds
    <2> QED
        BY <2>2, <2>3, <2>4, <2>5 DEF RequestHolds
<1>3. CASE r \in ReplaceRequest /\ q = [r EXCEPT !.seen = q.seen]
    <2>1. q.pc = "replace" /\ q.m = r.m /\ q.list = r.list /\ r.pc = "replace"
        BY <1>3 DEF ReplaceRequest
    <2>2. EditHolds(q)'
        BY <1>2, <2>1 DEF RequestHolds, EditHolds
    <2> QED
        BY <2>1, <2>2 DEF RequestHolds, SubmitHolds, DecideHolds, AssignHolds
<1>4. CASE r \in AssignRequest /\ q = [r EXCEPT !.seen = q.seen] /\ q.seen \subseteq r.seen
    <2>1. q.pc = "assign" /\ q.p = r.p /\ r.pc = "assign"
        BY <1>4 DEF AssignRequest
    <2>2. AssignHolds(q)'
        BY <1>2, <1>4, <2>1 DEF RequestHolds, AssignHolds
    <2> QED
        BY <2>1, <2>2 DEF RequestHolds, SubmitHolds, DecideHolds, EditHolds
<1> QED
    BY <1>1, <1>2, <1>3, <1>4 DEF CarriedOver

\* So a step that starts no request leaves every request sound.
LEMMA RequestsCarried ==
    ASSUME Tables, RequestsHold, Stays, RequestStays
    PROVE  RequestsHold'
    BY CarriedHolds DEF Tables, RequestsHold, RequestStays

-----------------------------------------------------------------------------
(* Actions outside the requests.                                           *)

\* A decided request keeps its decision while the Ministry is there.
DecisionsStand ==
  \A m \in Ids : \A i \in DOMAIN approvals[m] :
    approvals[m][i].status # "pending" /\ ministry'[m] # Gone =>
      approvals'[m][i].status = approvals[m][i].status

TablesHold == Tables /\ SubmittedIsWhole /\ PendingIsHeld

\* What an action owes to the tables.
TablesKept == TablesHold' /\ Stays /\ DecisionsStand

\* A step that leaves the tables alone.
LEMMA TablesUntouched ==
    ASSUME TablesHold, UNCHANGED <<ministry, members, approvals, position, incumbents>>,
           request' \in [Requests -> RequestRow]
    PROVE  TablesKept
<1>1. Tables' /\ DecisionsStand
    BY DEF TablesHold, Tables, DecisionsStand
<1>2. Stays
    BY UnchangedStays DEF TablesHold, Stays
<1>3. SubmittedIsWhole' /\ PendingIsHeld'
    BY <1>2, UnchangedWhole, UnchangedPending DEF TablesHold, Stays
<1> QED
    BY <1>1, <1>2, <1>3 DEF TablesKept, TablesHold

\* A step that changes only the Ministry table.
LEMMA OnlyMinistries ==
    ASSUME TablesHold, UNCHANGED <<members, approvals, position, incumbents>>,
           request' \in [Requests -> RequestRow],
           NEW n \in [Ids -> {None, Gone} \cup MinistryRow], ministry' = n,
           \A m \in Ids :
             \/ n[m] = ministry[m]
             \/ ministry[m] = None /\ n[m].status = "draft"
             \/ /\ Row(m) /\ n[m] \in MinistryRow
                /\ n[m].status = ministry[m].status /\ n[m].submitted_by = ministry[m].submitted_by
    PROVE  TablesKept
<1>1. Tables' /\ DecisionsStand
    BY DEF TablesHold, Tables, DecisionsStand
<1>2. Stays
    <2>1. \A m \in Ids : MinistryStays(m)
        BY MinistryTableStays DEF TablesHold
    <2> QED
        BY <2>1, UnchangedStays DEF TablesHold, Stays
<1>3. SubmittedIsWhole'
    BY <1>2, WholeStays DEF TablesHold, Row
<1>4. PendingIsHeld'
    BY <1>2, UnchangedPending DEF TablesHold, Stays
<1> QED
    BY <1>1, <1>2, <1>3, <1>4 DEF TablesKept, TablesHold

\* A new Ministry is a draft.
LEMMA CreateMinistry ==
    ASSUME TablesHold, NEW m \in Ids, NEW p \in Positions \cup {None}, create_ministry(m, p)
    PROVE  TablesKept
<1>1. PICK q : q = [status |-> "draft", owner |-> p, deleted |-> FALSE, submitted_by |-> None]
    OBVIOUS
<1>2. q \in MinistryRow /\ q.status = "draft"
    BY <1>1 DEF MinistryRow
<1>3. PICK n : n = [ministry EXCEPT ![m] = q]
    OBVIOUS
<1>4. ministry' = n /\ ministry[m] = None
    BY <1>1, <1>3 DEF create_ministry
<1>5. n \in [Ids -> {None, Gone} \cup MinistryRow] /\ n[m] = q /\ \A k \in Ids : k # m => n[k] = ministry[k]
    BY <1>2, <1>3 DEF TablesHold, Tables
<1>6. \A k \in Ids : n[k] = ministry[k] \/ (ministry[k] = None /\ n[k].status = "draft")
    BY <1>2, <1>4, <1>5
<1>7. UNCHANGED <<members, approvals, position, incumbents>> /\ request' \in [Requests -> RequestRow]
    BY DEF create_ministry, TablesHold, Tables
<1> QED
    BY <1>4, <1>5, <1>6, <1>7, OnlyMinistries

\* Another owning position changes nothing the requests rely on.
LEMMA ChangeOwner ==
    ASSUME TablesHold, NEW m \in Ids, NEW p \in Positions, update_ministry_owner(m, p)
    PROVE  TablesKept
<1>1. PICK v : v = [owner |-> p]
    OBVIOUS
<1>2. PICK n : n = update_ministry(m, v)
    OBVIOUS
<1>3. DOMAIN v = {"owner"} /\ v.owner = p
    BY <1>1
<1>4. Tables
    BY DEF TablesHold
<1>5. /\ n \in [Ids -> {None, Gone} \cup MinistryRow]
      /\ \A k \in Ids :
           \/ n[k] = ministry[k]
           \/ /\ k = m /\ Row(m) /\ n[m] \in MinistryRow
              /\ n[m].status = ministry[m].status /\ n[m].submitted_by = ministry[m].submitted_by
    BY <1>2, <1>3, <1>4, UpdateById
<1>6. ministry' = n
    BY <1>1, <1>2 DEF update_ministry_owner
<1>7. UNCHANGED <<members, approvals, position, incumbents>> /\ request' \in [Requests -> RequestRow]
    BY DEF update_ministry_owner, TablesHold, Tables
<1> QED
    BY <1>5, <1>6, <1>7, OnlyMinistries

\* Neither does moving a Ministry to the bin and back.
LEMMA SoftDeleteOrRestore ==
    ASSUME TablesHold, NEW m \in Ids, delete_soft(m) \/ restore_ministry(m)
    PROVE  TablesKept
<1>1. PICK d \in BOOLEAN : ministry' = [ministry EXCEPT ![m].deleted = d]
    BY DEF delete_soft, restore_ministry
<1>2. Row(m) /\ ministry[m] \in MinistryRow
    BY RowIsRecord DEF delete_soft, restore_ministry, TablesHold
<1>3. PICK q : q = [ministry[m] EXCEPT !.deleted = d]
    OBVIOUS
<1>4. q \in MinistryRow /\ q.status = ministry[m].status /\ q.submitted_by = ministry[m].submitted_by
    BY <1>2, <1>3 DEF MinistryRow
<1>5. PICK n : n = [ministry EXCEPT ![m] = q]
    OBVIOUS
<1>6. ministry' = n
    BY <1>1, <1>3, <1>5
<1>7. n \in [Ids -> {None, Gone} \cup MinistryRow] /\ n[m] = q /\ \A k \in Ids : k # m => n[k] = ministry[k]
    BY <1>4, <1>5 DEF TablesHold, Tables
<1>8. UNCHANGED <<members, approvals, position, incumbents>> /\ request' \in [Requests -> RequestRow]
    BY DEF delete_soft, restore_ministry, TablesHold, Tables
<1> QED
    BY <1>2, <1>4, <1>6, <1>7, <1>8, OnlyMinistries

\* A Ministry deleted for good takes its members and requests along.
LEMMA HardDelete ==
    ASSUME TablesHold, NEW m \in Ids, delete_hard(m)
    PROVE  TablesKept
<1>1. /\ ministry'[m] = Gone /\ ~Row(m)'
      /\ \A k \in Ids : k # m => /\ ministry'[k] = ministry[k] /\ members'[k] = members[k]
                                 /\ approvals'[k] = approvals[k]
    BY DEF delete_hard, TablesHold, Tables, Row
<1>2. Tables'
    <2>1. <<>> \in Seq(ApprovalRow)
        BY EmptySeq
    <2> QED
        BY <2>1 DEF delete_hard, TablesHold, Tables
<1>3. DecisionsStand
    BY <1>1 DEF DecisionsStand
<1>4. HolderStays
    BY UnchangedStays DEF delete_hard, TablesHold
<1>5. Stays
    BY <1>1, <1>4, MinistryAssumption DEF Stays, MinistryStays, FilingsStay, StewardsStay, Row
<1>6. SubmittedIsWhole'
    BY <1>1, <1>5, WholeStays DEF TablesHold, Row
<1>7. PendingIsHeld'
    <2>1. approvals'[m] = <<>> /\ position' = position
        BY DEF delete_hard, TablesHold, Tables
    <2>2. DOMAIN approvals'[m] = {}
        BY <2>1, EmptySeq, LenProperties
    <2> QED
        BY <1>1, <1>4, <2>1, <2>2, PendingStays DEF TablesHold, PendingIsHeld
<1> QED
    BY <1>2, <1>3, <1>5, <1>6, <1>7 DEF TablesKept, TablesHold

\* An application is created whole: stewards, request and a held position.
LEMMA CreateApplication ==
    ASSUME TablesHold, NEW m \in Ids, NEW p \in Positions, NEW l \in MemberLists, NEW u \in Callers,
           create_application(m, p, l, u)
    PROVE  TablesKept
<1>1. PICK q : q = [status |-> "pending_approval", owner |-> p, deleted |-> FALSE, submitted_by |-> u]
    OBVIOUS
<1>2. q \in MinistryRow /\ q.submitted_by = u /\ u \in Users /\ l \in SUBSET MemberRow
    BY <1>1, MinistryAssumption DEF MinistryRow
<1>3. /\ ministry[m] = None /\ ministry' = [ministry EXCEPT ![m] = q]
      /\ members' = [members EXCEPT ![m] = l]
      /\ p \in position /\ _current_incumbent(p) # {} /\ HasStewards(l)
      /\ UNCHANGED <<position, incumbents, request>>
    BY <1>1, ValidHasStewards DEF create_application
<1>4. PICK n : n = insert_approval(m, p, u)
    OBVIOUS
<1>5. approvals' = n
    BY <1>4 DEF create_application
<1>6. /\ n \in [Ids -> Seq(ApprovalRow)]
      /\ \A k \in Ids : k # m => n[k] = approvals[k]
      /\ \A i \in DOMAIN approvals[m] : i \in DOMAIN n[m] /\ n[m][i] = approvals[m][i]
      /\ \A i \in DOMAIN n[m] : i \notin DOMAIN approvals[m] => n[m][i].position = p
      /\ \E i \in DOMAIN n[m] : n[m][i].requested_by = u
    BY <1>2, <1>4, InsertApproval DEF TablesHold
<1>7. /\ \A k \in Ids : k # m => ministry'[k] = ministry[k] /\ members'[k] = members[k]
      /\ ministry'[m] = q /\ members'[m] = l
    BY <1>3 DEF TablesHold, Tables
<1>8. Tables'
    BY <1>2, <1>3, <1>5, <1>6 DEF TablesHold, Tables
<1>9. Held(p)
    BY <1>3, HeldHasIncumbent DEF TablesHold
<1>10. HolderStays
    BY <1>3, UnchangedStays DEF TablesHold
<1>11. Stays
    <2>1. \A k \in Ids : MinistryStays(k)
        BY <1>3, <1>7 DEF MinistryStays, Row
    <2>2. \A k \in Ids : FilingsStay(k) /\ StewardsStay(k)
        BY <1>3, <1>5, <1>6, <1>7 DEF FilingsStay, StewardsStay
    <2> QED
        BY <1>10, <2>1, <2>2 DEF Stays
<1>12. DecisionsStand
    BY <1>5, <1>6 DEF DecisionsStand
<1>13. SubmittedIsWhole'
    <2>1. HasStewards(members'[m]) /\ FiledBy(m, ministry[m].submitted_by)'
        BY <1>2, <1>3, <1>5, <1>6, <1>7 DEF FiledBy
    <2> QED
        BY <1>7, <1>11, <2>1, WholeStays DEF TablesHold, Row
<1>14. PendingIsHeld'
    <2>1. ASSUME NEW k \in Ids, NEW i \in DOMAIN n[k], n[k][i].status = "pending", n[k][i].position # None
          PROVE  /\ n[k][i].position \in position
                 /\ \/ /\ i \in DOMAIN approvals[k] /\ approvals[k][i].status = "pending"
                       /\ approvals[k][i].position = n[k][i].position
                    \/ Held(n[k][i].position)
        <3>1. CASE i \in DOMAIN approvals[k]
            <4>1. n[k][i] = approvals[k][i]
                BY <1>6, <3>1
            <4> QED
                BY <2>1, <3>1, <4>1 DEF TablesHold, PendingIsHeld
        <3>2. CASE i \notin DOMAIN approvals[k]
            BY <1>3, <1>6, <1>9, <3>2
        <3> QED
            BY <3>1, <3>2
    <2> QED
        BY <1>3, <1>5, <1>10, <2>1, PendingStays DEF TablesHold
<1> QED
    BY <1>8, <1>11, <1>12, <1>13, <1>14 DEF TablesKept, TablesHold

\* A deleted position takes its assignments along and leaves no request that
\* names it.
LEMMA DeletePosition ==
    ASSUME TablesHold, NEW p \in Positions, delete_position(p)
    PROVE  TablesKept
<1>1. /\ position' = position \ {p}
      /\ incumbents' = {a \in incumbents : a.position # p}
      /\ UNCHANGED <<members, request>>
    BY DEF delete_position
<1>2. PICK n : n = Forgotten(p)
    OBVIOUS
<1>3. approvals' = n
    BY <1>2 DEF delete_position, Forgotten
<1>4. /\ n \in [Ids -> Seq(ApprovalRow)]
      /\ \A k \in Ids : DOMAIN n[k] = DOMAIN approvals[k]
      /\ \A k \in Ids : \A i \in DOMAIN approvals[k] :
           /\ n[k][i].requested_by = approvals[k][i].requested_by
           /\ n[k][i].status = approvals[k][i].status
           /\ n[k][i].position = None
                \/ (n[k][i].position = approvals[k][i].position /\ n[k][i].position # p)
    BY <1>2, ForgetPosition DEF TablesHold
<1>5. ASSUME NEW m \in Ids
      PROVE  \/ ministry'[m] = ministry[m]
             \/ /\ Row(m) /\ ministry'[m] \in MinistryRow
                /\ ministry'[m].status = ministry[m].status
                /\ ministry'[m].submitted_by = ministry[m].submitted_by
    <2>1. CASE Row(m) /\ ministry[m].owner = p
        <3>1. ministry[m] \in MinistryRow
            BY <2>1, RowIsRecord DEF TablesHold
        <3>2. ministry'[m] = [ministry[m] EXCEPT !.owner = None]
            BY <2>1 DEF delete_position
        <3> QED
            BY <2>1, <3>1, <3>2 DEF MinistryRow
    <2>2. CASE ~(Row(m) /\ ministry[m].owner = p)
        BY <2>2 DEF delete_position
    <2> QED
        BY <2>1, <2>2
<1>6. ministry' \in [Ids -> {None, Gone} \cup MinistryRow]
    <2>1. ministry' = [m \in Ids |-> ministry'[m]]
        BY DEF delete_position
    <2> QED
        BY <1>5, <2>1 DEF TablesHold, Tables
<1>7. Tables'
    <2>1. IsFiniteSet(incumbents')
        BY <1>1, FS_Subset DEF TablesHold, Tables
    <2> QED
        BY <1>1, <1>3, <1>4, <1>6, <2>1 DEF TablesHold, Tables
<1>8. HolderStays
    BY <1>1 DEF HolderStays, Held
<1>9. Stays
    <2>1. \A m \in Ids : MinistryStays(m)
        BY <1>5, <1>6, MinistryTableStays DEF TablesHold
    <2>2. \A m \in Ids : StewardsStay(m)
        BY <1>1, UnchangedStays DEF TablesHold
    <2>3. \A m \in Ids : FilingsStay(m)
        BY <1>3, <1>4 DEF FilingsStay
    <2> QED
        BY <1>8, <2>1, <2>2, <2>3 DEF Stays
<1>10. DecisionsStand
    BY <1>3, <1>4 DEF DecisionsStand
<1>11. SubmittedIsWhole'
    BY <1>5, <1>9, WholeStays DEF TablesHold, Row
<1>12. PendingIsHeld'
    BY <1>1, <1>3, <1>4, <1>8, PendingStays DEF TablesHold, PendingIsHeld
<1> QED
    BY <1>7, <1>9, <1>10, <1>11, <1>12 DEF TablesKept, TablesHold

\* None of these actions touches a request, and none mails a decision.
LEMMA OwnerReviewKeeps ==
    ASSUME MinistryInv, OwnerReview
    PROVE  MinistryInv' /\ DecisionsStand
<1>1. TablesHold
    BY DEF MinistryInv, TablesHold
<1>2. TablesKept
    BY <1>1, CreateMinistry, CreateApplication, ChangeOwner, SoftDeleteOrRestore, HardDelete, DeletePosition
       DEF OwnerReview
<1>3. UNCHANGED request
    BY DEF OwnerReview, create_ministry, create_application, update_ministry_owner, delete_soft, delete_hard,
       restore_ministry, delete_position
<1>4. RequestsHold'
    BY <1>2, <1>3, RequestsCarried, UnchangedStays DEF MinistryInv, TablesKept
<1>5. \A x \in sent' : x.mail # "decision"
    <2>1. \A m \in Ids, p \in Positions, u \in Callers : \A x \in send_submit_notifications(m, p, u) : x.mail # "decision"
        BY DEF send_submit_notifications
    <2>2. \/ sent' = {}
          \/ \E m \in Ids, p \in Positions, u \in Callers : sent' = send_submit_notifications(m, p, u)
        BY DEF OwnerReview, create_ministry, create_application, update_ministry_owner, delete_soft, delete_hard,
           restore_ministry, delete_position
    <2> QED
        BY <2>1, <2>2
<1> QED
    BY <1>2, <1>4, <1>5 DEF MinistryInv, TablesKept, TablesHold, DecisionMailReachesApplicant

-----------------------------------------------------------------------------
(* The reads.                                                              *)

\* A request may start with anything that holds of the tables it read.
LEMMA BeginKeeps ==
    ASSUME MinistryInv, NEW t \in Requests, NEW what \in RequestRow, RequestHolds(what), Begin(t, what)
    PROVE  MinistryInv' /\ DecisionsStand
<1>1. /\ request' = [request EXCEPT ![t] = what] /\ sent' = {}
      /\ UNCHANGED <<ministry, members, approvals, position, incumbents>>
    BY DEF Begin
<1>2. request' \in [Requests -> RequestRow]
    BY <1>1 DEF MinistryInv, Tables
<1>3. TablesKept
    BY <1>1, <1>2, TablesUntouched DEF MinistryInv, TablesHold
<1>4. RequestHolds(what)'
    BY <1>1, <1>3, CarriedHolds DEF MinistryInv, TablesKept, CarriedOver
<1>5. ASSUME NEW x \in Requests PROVE RequestHolds(request[x])'
    <2>1. CASE x = t
        BY <1>1, <1>4, <2>1 DEF MinistryInv, Tables
    <2>2. CASE x # t
        <3>1. PICK r : r = request[x]
            OBVIOUS
        <3>2. r \in RequestRow /\ RequestHolds(r) /\ request'[x] = r
            BY <1>1, <2>2, <3>1 DEF MinistryInv, Tables, RequestsHold
        <3>3. RequestHolds(r)'
            BY <1>3, <3>2, CarriedHolds DEF MinistryInv, TablesKept, CarriedOver
        <3> QED
            BY <3>2, <3>3
    <2> QED
        BY <2>1, <2>2
<1>6. DecisionMailReachesApplicant'
    BY <1>1 DEF DecisionMailReachesApplicant
<1> QED
    BY <1>3, <1>5, <1>6 DEF MinistryInv, TablesKept, TablesHold, RequestsHold

\* A submission starts on a Ministry with stewards and a held owner position.
LEMMA SubmitRead ==
    ASSUME MinistryInv, NEW t \in Requests, NEW m \in Ids, NEW u \in Callers,
           Row(m), submit_read(t, m, u)
    PROVE  MinistryInv' /\ DecisionsStand
<1>1. PICK what : what = [pc |-> "submit", m |-> m, u |-> u, owner |-> ministry[m].owner]
    OBVIOUS
<1>2. ministry[m] \in MinistryRow /\ u \in Users /\ ministry[m].owner # None
    BY RowIsRecord, MinistryAssumption DEF MinistryInv, submit_read
<1>3. what \in SubmitRequest
    BY <1>1, <1>2 DEF SubmitRequest, MinistryRow
<1>4. HasStewards(members[m]) /\ Held(ministry[m].owner)
    BY ValidHasStewards, HeldHasIncumbent DEF MinistryInv, submit_read
<1>5. what.pc = "submit" /\ what.m = m /\ what.owner = ministry[m].owner
    BY <1>1
<1>6. RequestHolds(what)
    BY <1>4, <1>5 DEF RequestHolds, SubmitHolds, DecideHolds, EditHolds, AssignHolds, Row
<1>7. Begin(t, what)
    BY <1>1 DEF submit_read
<1> QED
    BY <1>3, <1>6, <1>7, BeginKeeps DEF RequestRow

\* A decision starts on a pending Ministry, whose applicant filed a request.
LEMMA DecideRead ==
    ASSUME MinistryInv, NEW t \in Requests, NEW m \in Ids, NEW u \in Callers,
           NEW d \in {"approved", "rejected"}, NEW c \in {"incumbent", "staff"}, decide_read(t, m, u, d, c)
    PROVE  MinistryInv' /\ DecisionsStand
<1>1. PICK what : what = [pc |-> "decide", m |-> m, owner |-> ministry[m].owner,
                          applicant |-> ministry[m].submitted_by, decision |-> d, channel |-> c]
    OBVIOUS
<1>2. Row(m) /\ ministry[m] \in MinistryRow /\ ministry[m].status = "pending_approval"
    BY RowIsRecord DEF MinistryInv, decide_read
<1>3. what \in DecideRequest
    BY <1>1, <1>2 DEF DecideRequest, MinistryRow
<1>4. what.pc = "decide" /\ what.m = m /\ what.applicant = ministry[m].submitted_by
    BY <1>1
<1>5. FiledBy(m, ministry[m].submitted_by)
    BY <1>2 DEF MinistryInv, SubmittedIsWhole
<1>6. RequestHolds(what)
    BY <1>2, <1>4, <1>5 DEF RequestHolds, SubmitHolds, DecideHolds, EditHolds, AssignHolds, Row
<1>7. Begin(t, what)
    BY <1>1 DEF decide_read
<1> QED
    BY <1>3, <1>6, <1>7, BeginKeeps DEF RequestRow

\* An edit of the members starts with a list that has both stewards.
LEMMA EditRead ==
    ASSUME MinistryInv, NEW t \in Requests, NEW m \in Ids, NEW l \in MemberLists,
           \/ \E u \in Callers : update_rejected_read(t, m, u, l)
           \/ replace_members_read(t, m, l)
    PROVE  MinistryInv' /\ DecisionsStand
<1>1. Row(m) /\ HasStewards(l) /\ l \in SUBSET MemberRow /\ ministry[m] # None
    BY ValidHasStewards, MinistryAssumption DEF update_rejected_read, replace_members_read, Row
<1>2. PICK amend : amend = [pc |-> "amend", m |-> m, list |-> l]
    OBVIOUS
<1>3. PICK replace : replace = [pc |-> "replace", m |-> m, list |-> l, seen |-> members[m]]
    OBVIOUS
<1>4. amend \in AmendRequest /\ replace \in ReplaceRequest
    BY <1>1, <1>2, <1>3 DEF AmendRequest, ReplaceRequest, MinistryInv, Tables
<1>5. amend.pc = "amend" /\ amend.m = m /\ amend.list = l
    BY <1>2
<1>6. replace.pc = "replace" /\ replace.m = m /\ replace.list = l
    BY <1>3
<1>7. RequestHolds(amend) /\ RequestHolds(replace)
    BY <1>1, <1>5, <1>6 DEF RequestHolds, SubmitHolds, DecideHolds, EditHolds, AssignHolds
<1>8. Begin(t, amend) \/ Begin(t, replace)
    BY <1>2, <1>3 DEF update_rejected_read, replace_members_read
<1> QED
    BY <1>4, <1>7, <1>8, BeginKeeps DEF RequestRow

\* An assignment will close only assignments of its own position.
LEMMA AssignRead ==
    ASSUME MinistryInv, NEW t \in Requests, NEW p \in Positions, NEW u \in Callers, NEW s \in Starts,
           assign_position_read(t, p, u, s)
    PROVE  MinistryInv' /\ DecisionsStand
<1>1. PICK what : what = [pc |-> "assign", p |-> p, u |-> u, start |-> s,
                          seen |-> {a \in incumbents : a.position = p}]
    OBVIOUS
<1>2. what \in AssignRequest
    BY <1>1, MinistryAssumption DEF AssignRequest, MinistryInv, Tables
<1>3. what.pc = "assign" /\ what.p = p /\ \A a \in what.seen : a.position = p
    BY <1>1
<1>4. RequestHolds(what)
    BY <1>3 DEF RequestHolds, SubmitHolds, DecideHolds, EditHolds, AssignHolds
<1>5. Begin(t, what)
    BY <1>1 DEF assign_position_read
<1> QED
    BY <1>2, <1>4, <1>5, BeginKeeps DEF RequestRow

-----------------------------------------------------------------------------
(* The writes.                                                             *)

\* The program counter tells what a request carries.
LEMMA RequestKinds ==
    ASSUME NEW r \in RequestRow
    PROVE  /\ r.pc = "submit" => r \in SubmitRequest
           /\ r.pc = "decide" => r \in DecideRequest
           /\ r.pc = "amend" => r \in AmendRequest
           /\ r.pc = "replace" => r \in ReplaceRequest
           /\ r.pc = "assign" => r \in AssignRequest
    BY DEF RequestRow, Idle, SubmitRequest, DecideRequest, AmendRequest, ReplaceRequest, AssignRequest

\* A write that finishes its request and mails no decision owes only the tables.
LEMMA WriteKeeps ==
    ASSUME MinistryInv, TablesKept, RequestStays, \A x \in sent' : x.mail # "decision"
    PROVE  MinistryInv' /\ DecisionsStand
<1>1. RequestsHold'
    BY RequestsCarried DEF MinistryInv, TablesKept
<1>2. DecisionMailReachesApplicant'
    BY DEF DecisionMailReachesApplicant
<1> QED
    BY <1>1, <1>2 DEF MinistryInv, TablesKept, TablesHold

\* The submission is written on a Ministry that still has its stewards and,
\* since the position is still there, with somebody to decide.
LEMMA SubmitWrite ==
    ASSUME MinistryInv, NEW t \in Requests, submit_write(t)
    PROVE  MinistryInv' /\ DecisionsStand
<1>1. PICK r : r = request[t]
    OBVIOUS
<1>2. r \in SubmitRequest /\ SubmitHolds(r) /\ r.pc = "submit"
    BY <1>1, RequestKinds DEF submit_write, MinistryInv, Tables, RequestsHold, RequestHolds
<1>3. r.m \in Ids /\ r.u \in Users /\ r.owner \in Positions
    BY <1>2 DEF SubmitRequest
<1>4. RequestStays /\ request' \in [Requests -> RequestRow]
    BY DoneStays DEF submit_write, MinistryInv
<1>5. TablesHold /\ Tables /\ UNCHANGED <<members, position, incumbents>>
    BY DEF MinistryInv, TablesHold, submit_write
<1>6. CASE ~(Row(r.m) /\ r.owner \in position)
    <2>1. UNCHANGED <<ministry, approvals>> /\ sent' = {}
        BY <1>1, <1>6 DEF submit_write
    <2>2. TablesKept
        BY <1>4, <1>5, <2>1, TablesUntouched
    <2> QED
        BY <1>4, <2>1, <2>2, WriteKeeps
<1>7. CASE Row(r.m) /\ r.owner \in position
    <2>1. PICK v : v = [status |-> "pending_approval", submitted_by |-> r.u]
        OBVIOUS
    <2>2. PICK q : q = update_ministry(r.m, v)
        OBVIOUS
    <2>3. PICK n : n = insert_approval(r.m, r.owner, r.u)
        OBVIOUS
    <2>4. ministry' = q /\ approvals' = n /\ sent' = send_submit_notifications(r.m, r.owner, r.u)
        BY <1>1, <1>7, <2>1, <2>2, <2>3 DEF submit_write
    <2>5. DOMAIN v = {"status", "submitted_by"} /\ v.status = "pending_approval" /\ v.submitted_by = r.u
        BY <2>1
    <2>6. /\ q \in [Ids -> {None, Gone} \cup MinistryRow]
          /\ \A k \in Ids :
               \/ q[k] = ministry[k]
               \/ /\ k = r.m /\ Row(k) /\ q[k] \in MinistryRow
                  /\ q[k].status = "pending_approval" /\ q[k].submitted_by = r.u
        BY <1>3, <1>5, <2>2, <2>5, UpdateById
    <2>7. /\ n \in [Ids -> Seq(ApprovalRow)]
          /\ \A k \in Ids : k # r.m => n[k] = approvals[k]
          /\ \A i \in DOMAIN approvals[r.m] : i \in DOMAIN n[r.m] /\ n[r.m][i] = approvals[r.m][i]
          /\ \A i \in DOMAIN n[r.m] : i \notin DOMAIN approvals[r.m] => n[r.m][i].position = r.owner
          /\ \E i \in DOMAIN n[r.m] : n[r.m][i].requested_by = r.u
        BY <1>3, <1>5, <2>3, InsertApproval
    <2>8. Tables'
        BY <1>4, <1>5, <2>4, <2>6, <2>7 DEF Tables
    <2>9. Stays
        <3>1. \A k \in Ids : MinistryStays(k)
            BY <1>5, <2>4, <2>6, MinistryTableStays
        <3>2. \A k \in Ids : FilingsStay(k)
            BY <2>4, <2>7 DEF FilingsStay
        <3> QED
            BY <1>5, <3>1, <3>2, UnchangedStays DEF Stays
    <2>10. DecisionsStand
        BY <2>4, <2>7 DEF DecisionsStand
    <2>11. SubmittedIsWhole'
        <3>1. HasStewards(members'[r.m])
            BY <1>2, <1>5, <1>7 DEF SubmitHolds
        <3>2. ASSUME NEW k \in Ids, Row(k)', ministry'[k].status # "draft"
              PROVE  \/ /\ Row(k) /\ ministry[k].status # "draft"
                        /\ ministry'[k].submitted_by = ministry[k].submitted_by
                     \/ HasStewards(members'[k]) /\ FiledBy(k, ministry[k].submitted_by)'
            BY <2>4, <2>6, <2>7, <3>1, <3>2 DEF FiledBy, Row
        <3> QED
            BY <1>5, <2>9, <3>2, WholeStays DEF TablesHold
    <2>12. PendingIsHeld'
        <3>1. Held(r.owner)
            BY <1>2, <1>7 DEF SubmitHolds
        <3>2. ASSUME NEW k \in Ids, NEW i \in DOMAIN n[k], n[k][i].status = "pending", n[k][i].position # None
              PROVE  /\ n[k][i].position \in position
                     /\ \/ /\ i \in DOMAIN approvals[k] /\ approvals[k][i].status = "pending"
                           /\ approvals[k][i].position = n[k][i].position
                        \/ Held(n[k][i].position)
            <4>1. CASE i \in DOMAIN approvals[k]
                <5>1. n[k][i] = approvals[k][i]
                    BY <2>7, <4>1
                <5> QED
                    BY <1>5, <3>2, <4>1, <5>1 DEF TablesHold, PendingIsHeld
            <4>2. CASE i \notin DOMAIN approvals[k]
                BY <1>7, <2>7, <3>1, <4>2
            <4> QED
                BY <4>1, <4>2
        <3> QED
            BY <1>5, <2>4, <2>9, <3>2, PendingStays DEF TablesHold, Stays
    <2>13. \A x \in sent' : x.mail # "decision"
        BY <2>4 DEF send_submit_notifications
    <2>14. TablesKept
        BY <2>8, <2>9, <2>10, <2>11, <2>12 DEF TablesKept, TablesHold
    <2> QED
        BY <1>4, <2>13, <2>14, WriteKeeps
<1> QED
    BY <1>6, <1>7

\* The mail of a decision, committed or lost, names somebody who filed a
\* request for the Ministry.
LEMMA DecisionMail ==
    ASSUME MinistryInv, Stays, NEW r \in DecideRequest, DecideHolds(r), Row(r.m), Row(r.m)',
           sent' = send_decision_notification(r.m, r.applicant, r.channel, r.owner)
    PROVE  DecisionMailReachesApplicant'
<1>1. r.pc = "decide" /\ r.m \in Ids
    BY DEF DecideRequest
<1>2. FiledBy(r.m, r.applicant)'
    BY <1>1 DEF DecideHolds, Stays, FilingsStay, FiledBy
<1>3. ASSUME NEW x \in sent', x.mail = "decision" PROVE x.to = r.applicant /\ x.m = r.m
    <2>1. CASE x = [mail |-> "decision", to |-> r.applicant, m |-> r.m]
        BY <2>1
    <2>2. CASE \E v \in _current_incumbent(r.owner) : x = [mail |-> "staff_decision", to |-> v, m |-> r.m]
        BY <1>3, <2>2
    <2> QED
        BY <2>1, <2>2 DEF send_decision_notification
<1> QED
    BY <1>2, <1>3 DEF DecisionMailReachesApplicant, FiledBy

\* A decision rewrites the Ministry and its pending requests, and the mail
\* goes to the applicant it read.
LEMMA DecideWrite ==
    ASSUME MinistryInv, NEW t \in Requests, decide_write(t)
    PROVE  MinistryInv' /\ DecisionsStand
<1>1. PICK r : r = request[t]
    OBVIOUS
<1>2. r \in DecideRequest /\ DecideHolds(r) /\ r.pc = "decide"
    BY <1>1, RequestKinds DEF decide_write, MinistryInv, Tables, RequestsHold, RequestHolds
<1>3. r.m \in Ids /\ r.decision \in {"approved", "rejected"}
    BY <1>2 DEF DecideRequest
<1>4. RequestStays /\ request' \in [Requests -> RequestRow]
    BY DoneStays DEF decide_write, MinistryInv
<1>5. TablesHold /\ Tables /\ UNCHANGED <<members, position, incumbents>>
    BY DEF MinistryInv, TablesHold, decide_write
<1>6. PICK s : s = IF r.decision = "approved" THEN "active" ELSE "rejected"
    OBVIOUS
<1>7. PICK v : v = [status |-> s]
    OBVIOUS
<1>8. PICK q : q = update_ministry(r.m, v)
    OBVIOUS
<1>9. PICK n : n = update_approval(r.m, r.decision)
    OBVIOUS
<1>10. ministry' = q /\ approvals' = n
    BY <1>1, <1>6, <1>7, <1>8, <1>9 DEF decide_write
<1>11. DOMAIN v = {"status"} /\ v.status = s /\ s \in {"active", "rejected"}
    BY <1>6, <1>7
<1>12. /\ q \in [Ids -> {None, Gone} \cup MinistryRow]
       /\ \A k \in Ids :
            \/ q[k] = ministry[k]
            \/ /\ k = r.m /\ Row(k) /\ q[k] \in MinistryRow
               /\ q[k].status = s /\ q[k].submitted_by = ministry[k].submitted_by
    BY <1>3, <1>5, <1>8, <1>11, UpdateById
<1>13. /\ n \in [Ids -> Seq(ApprovalRow)]
       /\ \A k \in Ids : DOMAIN n[k] = DOMAIN approvals[k]
       /\ \A k \in Ids : \A i \in DOMAIN approvals[k] :
            /\ n[k][i].requested_by = approvals[k][i].requested_by
            /\ n[k][i].position = approvals[k][i].position
            /\ n[k][i].status = approvals[k][i].status
                 \/ (approvals[k][i].status = "pending" /\ n[k][i].status # "pending")
    BY <1>3, <1>5, <1>9, UpdateApproval
<1>14. Tables'
    BY <1>4, <1>5, <1>10, <1>12, <1>13 DEF Tables
<1>15. Stays
    <2>1. \A k \in Ids : MinistryStays(k)
        BY <1>5, <1>10, <1>11, <1>12, MinistryTableStays
    <2>2. \A k \in Ids : FilingsStay(k)
        BY <1>10, <1>13 DEF FilingsStay
    <2> QED
        BY <1>5, <2>1, <2>2, UnchangedStays DEF Stays
<1>16. DecisionsStand
    BY <1>10, <1>13 DEF DecisionsStand
<1>17. SubmittedIsWhole'
    <2>1. Row(r.m) => ministry[r.m].status # "draft"
        BY <1>2 DEF DecideHolds
    <2> QED
        BY <1>5, <1>10, <1>12, <1>15, <2>1, WholeStays DEF TablesHold, Row
<1>18. PendingIsHeld'
    BY <1>5, <1>10, <1>13, <1>15, PendingStays DEF TablesHold, PendingIsHeld, Stays
<1>19. DecisionMailReachesApplicant'
    <2>1. CASE Row(r.m) /\ r.owner # None
        <3>1. Row(r.m)'
            BY <1>3, <1>10, <1>12, <2>1, MinistryAssumption DEF Row
        <3>2. sent' = send_decision_notification(r.m, r.applicant, r.channel, r.owner)
            BY <1>1, <2>1 DEF decide_write
        <3> QED
            BY <1>2, <1>15, <2>1, <3>1, <3>2, DecisionMail
    <2>2. CASE ~(Row(r.m) /\ r.owner # None)
        BY <1>1, <2>2 DEF decide_write, DecisionMailReachesApplicant
    <2> QED
        BY <2>1, <2>2
<1>20. RequestsHold'
    BY <1>4, <1>15, RequestsCarried DEF MinistryInv
<1> QED
    BY <1>14, <1>16, <1>17, <1>18, <1>19, <1>20 DEF MinistryInv

\* A decision lost after its mail leaves the tables as they were.
LEMMA DecideAborted ==
    ASSUME MinistryInv, NEW t \in Requests, decide_aborted(t)
    PROVE  MinistryInv' /\ DecisionsStand
<1>1. PICK r : r = request[t]
    OBVIOUS
<1>2. r \in DecideRequest /\ DecideHolds(r) /\ Row(r.m) /\ Row(r.m)'
    BY <1>1, RequestKinds DEF decide_aborted, MinistryInv, Tables, RequestsHold, RequestHolds, Row
<1>3. RequestStays /\ request' \in [Requests -> RequestRow]
    BY DoneStays DEF decide_aborted, MinistryInv
<1>4. TablesKept
    BY <1>3, TablesUntouched DEF decide_aborted, MinistryInv, TablesHold
<1>5. sent' = send_decision_notification(r.m, r.applicant, r.channel, r.owner)
    BY <1>1 DEF decide_aborted
<1>6. DecisionMailReachesApplicant'
    BY <1>2, <1>4, <1>5, DecisionMail DEF TablesKept
<1>7. RequestsHold'
    BY <1>3, <1>4, RequestsCarried DEF MinistryInv, TablesKept
<1> QED
    BY <1>4, <1>6, <1>7 DEF MinistryInv, TablesKept, TablesHold

\* The amendment locks the Ministry row and goes on to the member list.
LEMMA AmendWrite ==
    ASSUME MinistryInv, NEW t \in Requests, update_rejected_write(t)
    PROVE  MinistryInv' /\ DecisionsStand
<1>1. PICK r : r = request[t]
    OBVIOUS
<1>2. r \in AmendRequest /\ EditHolds(r) /\ r.pc = "amend"
    BY <1>1, RequestKinds DEF update_rejected_write, MinistryInv, Tables, RequestsHold, RequestHolds
<1>3. PICK q : q = [pc |-> "replace", m |-> r.m, list |-> r.list, seen |-> members[r.m]]
    OBVIOUS
<1>4. q \in ReplaceRequest /\ q.pc = "replace" /\ q.m = r.m /\ q.list = r.list
    BY <1>2, <1>3 DEF AmendRequest, ReplaceRequest, MinistryInv, Tables
<1>5. q \in RequestRow /\ RequestHolds(q)
    BY <1>2, <1>4 DEF RequestRow, RequestHolds, SubmitHolds, DecideHolds, EditHolds, AssignHolds
<1>6. request' = [request EXCEPT ![t] = q] \/ Done(t)
    BY <1>1, <1>3 DEF update_rejected_write
<1>7. sent' = {} /\ UNCHANGED <<ministry, members, approvals, position, incumbents>>
    BY DEF update_rejected_write
<1>8. CASE Done(t)
    <2>1. RequestStays /\ request' \in [Requests -> RequestRow]
        BY <1>8, DoneStays DEF MinistryInv
    <2>2. TablesKept
        BY <1>7, <2>1, TablesUntouched DEF MinistryInv, TablesHold
    <2> QED
        BY <1>7, <2>1, <2>2, WriteKeeps
<1>9. CASE request' = [request EXCEPT ![t] = q]
    <2>1. request' \in [Requests -> RequestRow]
        BY <1>5, <1>9 DEF MinistryInv, Tables
    <2>2. TablesKept
        BY <1>7, <2>1, TablesUntouched DEF MinistryInv, TablesHold
    <2>3. ASSUME NEW x \in Requests PROVE RequestHolds(request[x])'
        <3>1. PICK y : y = request'[x]
            OBVIOUS
        <3>2. y \in RequestRow /\ RequestHolds(y)
            BY <1>5, <1>9, <3>1 DEF MinistryInv, Tables, RequestsHold
        <3>3. RequestHolds(y)'
            BY <2>2, <3>2, CarriedHolds DEF MinistryInv, TablesKept, CarriedOver
        <3> QED
            BY <3>1, <3>3
    <2> QED
        BY <1>7, <2>2, <2>3
           DEF MinistryInv, TablesKept, TablesHold, RequestsHold, DecisionMailReachesApplicant
<1> QED
    BY <1>6, <1>8, <1>9

\* Whatever the DELETE saw, the list that is inserted has both stewards.
LEMMA ReplaceWrite ==
    ASSUME MinistryInv, NEW t \in Requests, replace_members_write(t)
    PROVE  MinistryInv' /\ DecisionsStand
<1>1. PICK r : r = request[t]
    OBVIOUS
<1>2. r \in ReplaceRequest /\ EditHolds(r) /\ r.pc = "replace"
    BY <1>1, RequestKinds DEF replace_members_write, MinistryInv, Tables, RequestsHold, RequestHolds
<1>3. r.m \in Ids /\ r.list \in SUBSET MemberRow /\ HasStewards(r.list)
    BY <1>2 DEF ReplaceRequest, EditHolds
<1>4. sent' = {} /\ UNCHANGED <<ministry, approvals, position, incumbents>>
    BY DEF replace_members_write
<1>5. CASE Clash(r)
    <2>1. RequestStays /\ request' \in [Requests -> RequestRow] /\ UNCHANGED members
        BY <1>1, <1>5, DoneStays DEF replace_members_write, MinistryInv
    <2>2. TablesKept
        BY <1>4, <2>1, TablesUntouched DEF MinistryInv, TablesHold
    <2> QED
        BY <1>4, <2>1, <2>2, WriteKeeps
<1>6. CASE ~Clash(r)
    <2>1. members' = [members EXCEPT ![r.m] = (@ \ r.seen) \cup r.list] /\ Settled(t, r.seen)
        BY <1>1, <1>6 DEF replace_members_write
    <2>2. RequestStays /\ request' \in [Requests -> RequestRow]
        BY <2>1, SettledStays DEF MinistryInv
    <2>3. Tables'
        BY <1>3, <1>4, <2>1, <2>2 DEF MinistryInv, Tables
    <2>4. \A k \in Ids : StewardsStay(k)
        BY <1>3, <2>1 DEF StewardsStay, HasStewards, MinistryInv, Tables
    <2>5. Stays
        BY <1>4, <2>4, UnchangedStays DEF MinistryInv, Stays
    <2>6. SubmittedIsWhole' /\ PendingIsHeld' /\ DecisionsStand
        BY <1>4, <2>5, UnchangedWhole, UnchangedPending DEF MinistryInv, Stays, DecisionsStand
    <2>7. TablesKept
        BY <2>3, <2>5, <2>6 DEF TablesKept, TablesHold
    <2> QED
        BY <1>4, <2>2, <2>7, WriteKeeps
<1> QED
    BY <1>5, <1>6

\* A reassignment closes only assignments of its position and opens one.
LEMMA AssignWrite ==
    ASSUME MinistryInv, NEW t \in Requests, assign_position_write(t)
    PROVE  MinistryInv' /\ DecisionsStand
<1>1. PICK r : r = request[t]
    OBVIOUS
<1>2. r \in AssignRequest /\ AssignHolds(r) /\ r.pc = "assign"
    BY <1>1, RequestKinds DEF assign_position_write, MinistryInv, Tables, RequestsHold, RequestHolds
<1>3. sent' = {} /\ UNCHANGED <<ministry, members, approvals, position>>
    BY DEF assign_position_write
<1>4. CASE r.p \notin position
    <2>1. RequestStays /\ request' \in [Requests -> RequestRow] /\ UNCHANGED incumbents
        BY <1>1, <1>4, DoneStays DEF assign_position_write, MinistryInv
    <2>2. TablesKept
        BY <1>3, <2>1, TablesUntouched DEF MinistryInv, TablesHold
    <2> QED
        BY <1>3, <2>1, <2>2, WriteKeeps
<1>5. CASE r.p \in position
    <2>1. PICK a : a = [position |-> r.p, user |-> r.u, start |-> r.start]
        OBVIOUS
    <2>2. a \in AssignmentRow /\ a.position = r.p
        BY <1>2, <2>1 DEF AssignRequest, AssignmentRow
    <2>3. incumbents' = (incumbents \ r.seen) \cup {a} /\ Settled(t, r.seen)
        BY <1>1, <1>5, <2>1 DEF assign_position_write, assign_incumbent
    <2>4. RequestStays /\ request' \in [Requests -> RequestRow]
        BY <2>3, SettledStays DEF MinistryInv
    <2>5. IsFiniteSet(incumbents')
        <3>1. IsFiniteSet(incumbents \ r.seen)
            BY FS_Subset DEF MinistryInv, Tables
        <3> QED
            BY <2>3, <3>1, FS_AddElement
    <2>6. Tables'
        BY <1>3, <2>2, <2>3, <2>4, <2>5 DEF MinistryInv, Tables
    <2>7. HolderStays
        BY <1>2, <1>3, <2>2, <2>3 DEF HolderStays, Held, AssignHolds
    <2>8. Stays
        BY <1>3, <2>7, UnchangedStays DEF MinistryInv, Stays
    <2>9. SubmittedIsWhole' /\ PendingIsHeld' /\ DecisionsStand
        BY <1>3, <2>7, <2>8, UnchangedWhole, UnchangedPending DEF MinistryInv, DecisionsStand
    <2>10. TablesKept
        BY <2>6, <2>8, <2>9 DEF TablesKept, TablesHold
    <2> QED
        BY <1>3, <2>4, <2>10, WriteKeeps
<1> QED
    BY <1>4, <1>5

-----------------------------------------------------------------------------
(* The theorems.                                                           *)

\* Every step keeps the invariant, and no step rewrites a decision.
LEMMA NextMinistry == MinistryInv /\ [Next]_vars => MinistryInv' /\ (Next => DecisionsStand)
<1>1. SUFFICES ASSUME MinistryInv, [Next]_vars PROVE MinistryInv' /\ (Next => DecisionsStand)
    OBVIOUS
<1>2. ASSUME NEW t \in Requests, RequestStep(t) PROVE MinistryInv' /\ DecisionsStand
    <2>1. CASE \E m \in Ids, u \in Callers : submit_ministry_read(t, m, u) \/ resubmit_read(t, m, u)
        BY <1>1, <2>1, SubmitRead DEF submit_ministry_read, resubmit_read
    <2>2. CASE \E m \in Ids, u \in Callers, d \in {"approved", "rejected"}, c \in {"incumbent", "staff"} :
                 decide_read(t, m, u, d, c)
        BY <1>1, <2>2, DecideRead
    <2>3. CASE \E m \in Ids, l \in MemberLists :
                 (\E u \in Callers : update_rejected_read(t, m, u, l)) \/ replace_members_read(t, m, l)
        BY <1>1, <2>3, EditRead
    <2>4. CASE \E p \in Positions, u \in Callers, s \in Starts : assign_position_read(t, p, u, s)
        BY <1>1, <2>4, AssignRead
    <2>5. CASE submit_write(t) \/ decide_write(t) \/ decide_aborted(t)
        BY <1>1, <2>5, SubmitWrite, DecideWrite, DecideAborted
    <2>6. CASE update_rejected_write(t) \/ replace_members_write(t) \/ assign_position_write(t)
        BY <1>1, <2>6, AmendWrite, ReplaceWrite, AssignWrite
    <2> QED
        BY <1>2, <2>1, <2>2, <2>3, <2>4, <2>5, <2>6 DEF RequestStep
<1>3. CASE Next
    BY <1>1, <1>2, <1>3, OwnerReviewKeeps DEF Next
<1>4. CASE UNCHANGED vars /\ ~Next
    <2>1. TablesKept
        BY <1>1, <1>4, TablesUntouched DEF vars, MinistryInv, TablesHold, Tables
    <2>2. RequestsHold'
        BY <1>1, <1>4, <2>1, UnchangedStays, RequestsCarried DEF vars, MinistryInv, TablesKept
    <2>3. DecisionMailReachesApplicant'
        BY <1>1, <1>4 DEF vars, MinistryInv, DecisionMailReachesApplicant
    <2> QED
        BY <1>4, <2>1, <2>2, <2>3 DEF MinistryInv, TablesKept, TablesHold
<1> QED
    BY <1>1, <1>3, <1>4

\* It holds of the empty tables.
LEMMA InitMinistry == Init => MinistryInv
<1>1. SUFFICES ASSUME Init PROVE MinistryInv
    OBVIOUS
<1>2. <<>> \in Seq(ApprovalRow) /\ DOMAIN <<>> = {}
    BY EmptySeq, LenProperties
<1>3. Tables
    BY <1>1, <1>2, FS_EmptySet DEF Init, Tables, RequestRow
<1>4. SubmittedIsWhole /\ DecisionMailReachesApplicant
    BY <1>1 DEF Init, SubmittedIsWhole, DecisionMailReachesApplicant, Row
<1>5. PendingIsHeld
    BY <1>1, <1>2 DEF Init, PendingIsHeld
<1>6. RequestsHold
    BY <1>1 DEF Init, Idle, RequestsHold, RequestHolds, SubmitHolds, DecideHolds, EditHolds, AssignHolds
<1> QED
    BY <1>3, <1>4, <1>5, <1>6 DEF MinistryInv

\* So it always holds.
LEMMA MinistryInvariant == Spec => []MinistryInv
    BY InitMinistry, NextMinistry, PTL DEF Spec

\* A Ministry that was ever submitted keeps a primary and a secondary steward,
\* however many edits of its member list and submissions overlap: every list a
\* DELETE-and-INSERT leaves contains the whole of a list that was validated.
THEOREM StewardsAreKept == Spec => []StewardsNeverMissing
<1>1. MinistryInv => StewardsNeverMissing
    BY DEF MinistryInv, SubmittedIsWhole, StewardsNeverMissing, HasStewards
<1> QED
    BY <1>1, MinistryInvariant, PTL

\* A pending request at a position that still exists has somebody to decide on
\* it: concurrent reassignments close only what they saw and always open one.
THEOREM RequestsCanBeDecided == Spec => []RequestHasApprover
<1>1. MinistryInv => RequestHasApprover
    BY HeldHasIncumbent DEF MinistryInv, PendingIsHeld, RequestHasApprover
<1> QED
    BY <1>1, MinistryInvariant, PTL

\* A decision is mailed only to a user who filed a request for that Ministry,
\* the mail of a decision whose transaction is lost included.
THEOREM DecisionMailIsAddressed == Spec => []DecisionMailReachesApplicant
<1>1. MinistryInv => DecisionMailReachesApplicant
    BY DEF MinistryInv
<1> QED
    BY <1>1, MinistryInvariant, PTL

\* No step rewrites the decision on a request.
THEOREM DecisionsAreFinal == Spec => DecidedRequestIsFinal
<1>1. MinistryInv /\ [Next]_vars =>
        [\A m \in Ids : \A i \in DOMAIN approvals[m] :
           approvals[m][i].status # "pending" /\ ministry'[m] # Gone =>
             approvals'[m][i].status = approvals[m][i].status]_vars
    BY NextMinistry DEF DecisionsStand
<1> QED
    BY <1>1, MinistryInvariant, PTL DEF Spec, DecidedRequestIsFinal

-----------------------------------------------------------------------------
(* The rows.                                                               *)

\* The unique key of org.ministry_member.
OneRoleEach(list) == \A x, y \in list : x.user = y.user => x = y

\* Only a Ministry with a row has members and requests.
RowsOfLive(m) == ~Row(m) => members[m] = {} /\ approvals[m] = <<>>

\* An assignment is of a position with a row, from a date somebody sent.
Assignment(p, u, s) == p \in position /\ u \in Users /\ s \in Starts

\* What a request is about to insert obeys the unique key and carries a date
\* of a command.
Carries(r) == /\ r.pc \in {"amend", "replace"} => OneRoleEach(r.list)
              /\ r.pc = "assign" => r.start \in Starts

RosterInv == /\ MinistryInv
             /\ \A m \in Ids : OneRoleEach(members[m]) /\ RowsOfLive(m)
             /\ \A a \in incumbents : Assignment(a.position, a.user, a.start)
             /\ \A t \in Requests : Carries(request[t])

\* The parts, for a step.
MembersKept == \A m \in Ids : OneRoleEach(members'[m])
LiveKept == \A m \in Ids : RowsOfLive(m)'
AssignmentsKept == \A a \in incumbents' : Assignment(a.position, a.user, a.start)'

\* No Ministry loses its row.
RowsStay == \A m \in Ids : Row(m) => Row(m)'

\* A sequence without elements is the empty one.
LEMMA NoElements ==
    ASSUME NEW s \in Seq(ApprovalRow), DOMAIN s = {}
    PROVE  s = <<>>
<1>1. Len(s) \in Nat /\ DOMAIN s = 1..Len(s)
    BY LenProperties
<1>2. Len(s) = 0
    BY <1>1
<1> QED
    BY <1>2, EmptySeq

\* An update by id neither creates nor removes a row.
LEMMA UpdatedRowsStay ==
    ASSUME Tables, NEW n \in [Ids -> {None, Gone} \cup MinistryRow], ministry' = n,
           \A k \in Ids : n[k] = ministry[k] \/ (Row(k) /\ n[k] \in MinistryRow)
    PROVE  RowsStay
    BY RowIsRecord, MinistryAssumption DEF RowsStay, Row

\* Rows that are left alone, or of Ministries that keep theirs, stay in order.
LEMMA LiveStays ==
    ASSUME Tables, Tables', \A m \in Ids : RowsOfLive(m), RowsStay,
           \A m \in Ids : members'[m] = members[m] \/ Row(m)',
           \A m \in Ids : DOMAIN approvals'[m] = DOMAIN approvals[m] \/ Row(m)'
    PROVE  LiveKept
<1>1. SUFFICES ASSUME NEW m \in Ids, ~Row(m)' PROVE members'[m] = {} /\ approvals'[m] = <<>>
    BY DEF LiveKept, RowsOfLive, Row
<1>2. ~Row(m)
    BY <1>1 DEF RowsStay
<1>3. members'[m] = {} /\ DOMAIN approvals'[m] = DOMAIN approvals[m] /\ approvals[m] = <<>>
    BY <1>1, <1>2 DEF RowsOfLive
<1>4. DOMAIN approvals'[m] = {} /\ approvals'[m] \in Seq(ApprovalRow)
    BY <1>3, EmptySeq, LenProperties DEF Tables
<1> QED
    BY <1>3, <1>4, NoElements

\* Assignments that are left alone stay while the positions do.
LEMMA AssignmentsStay ==
    ASSUME RosterInv, incumbents' \subseteq incumbents,
           \A a \in incumbents' : a.position \in position'
    PROVE  AssignmentsKept
    BY DEF AssignmentsKept, RosterInv, Assignment

-----------------------------------------------------------------------------
(* The actions.                                                            *)

\* What OwnerReview does to the rows.
LEMMA OwnerReviewRows ==
    ASSUME RosterInv, Tables', OwnerReview
    PROVE  MembersKept /\ LiveKept /\ AssignmentsKept
<1>1. Tables /\ (\A m \in Ids : OneRoleEach(members[m]) /\ RowsOfLive(m))
    BY DEF RosterInv, MinistryInv
<1>2. ASSUME NEW m \in Ids, NEW p \in Positions \cup {None}, create_ministry(m, p)
      PROVE  MembersKept /\ LiveKept /\ AssignmentsKept
    <2>1. /\ ministry[m] = None
          /\ ministry' = [ministry EXCEPT ![m] =
               [status |-> "draft", owner |-> p, deleted |-> FALSE, submitted_by |-> None]]
          /\ UNCHANGED <<members, approvals, position, incumbents>>
        BY <1>2 DEF create_ministry
    <2>2. RowsStay
        BY <1>1, <2>1 DEF RowsStay, Row, Tables
    <2>3. LiveKept
        BY <1>1, <2>1, <2>2, LiveStays
    <2>4. AssignmentsKept
        BY <2>1, AssignmentsStay DEF RosterInv, Assignment
    <2> QED
        BY <1>1, <2>1, <2>3, <2>4 DEF MembersKept
<1>3. ASSUME NEW m \in Ids, NEW p \in Positions, NEW l \in MemberLists, NEW u \in Callers,
             create_application(m, p, l, u)
      PROVE  MembersKept /\ LiveKept /\ AssignmentsKept
    <2>1. PICK q : q = [status |-> "pending_approval", owner |-> p, deleted |-> FALSE, submitted_by |-> u]
        OBVIOUS
    <2>2. /\ ministry[m] = None /\ ministry' = [ministry EXCEPT ![m] = q]
          /\ members' = [members EXCEPT ![m] = l]
          /\ UNCHANGED <<position, incumbents>>
        BY <1>3, <2>1 DEF create_application
    <2>3. q \in MinistryRow
        BY <2>1, MinistryAssumption DEF MinistryRow
    <2>4. Row(m)' /\ RowsStay
        BY <1>1, <2>2, <2>3, MinistryAssumption DEF RowsStay, Row, Tables
    <2>5. PICK n : n = insert_approval(m, p, u)
        OBVIOUS
    <2>6. approvals' = n /\ \A k \in Ids : k # m => n[k] = approvals[k]
        BY <1>1, <1>3, <2>5 DEF create_application, insert_approval, Tables
    <2>7. OneRoleEach(l)
        BY MinistryAssumption DEF OneRoleEach
    <2>8. MembersKept
        BY <1>1, <2>2, <2>7 DEF MembersKept, Tables
    <2>9. \A k \in Ids : members'[k] = members[k] \/ Row(k)'
        BY <1>1, <2>2, <2>4 DEF Tables
    <2>10. LiveKept
        BY <1>1, <2>4, <2>6, <2>9, LiveStays
    <2>11. AssignmentsKept
        BY <2>2, AssignmentsStay DEF RosterInv, Assignment
    <2> QED
        BY <2>8, <2>10, <2>11
<1>4. ASSUME NEW m \in Ids, NEW p \in Positions, update_ministry_owner(m, p)
      PROVE  MembersKept /\ LiveKept /\ AssignmentsKept
    <2>1. PICK v : v = [owner |-> p]
        OBVIOUS
    <2>2. PICK n : n = update_ministry(m, v)
        OBVIOUS
    <2>3. DOMAIN v = {"owner"} /\ v.owner = p
        BY <2>1
    <2>4. /\ n \in [Ids -> {None, Gone} \cup MinistryRow]
          /\ \A k \in Ids : n[k] = ministry[k] \/ (Row(k) /\ n[k] \in MinistryRow)
        BY <1>1, <2>2, <2>3, UpdateById
    <2>5. ministry' = n /\ UNCHANGED <<members, approvals, position, incumbents>>
        BY <1>4, <2>1, <2>2 DEF update_ministry_owner
    <2>6. RowsStay
        BY <1>1, <2>4, <2>5, UpdatedRowsStay
    <2>7. LiveKept
        BY <1>1, <2>5, <2>6, LiveStays
    <2>8. AssignmentsKept
        BY <2>5, AssignmentsStay DEF RosterInv, Assignment
    <2> QED
        BY <1>1, <2>5, <2>7, <2>8 DEF MembersKept
<1>5. ASSUME NEW m \in Ids, delete_soft(m) \/ restore_ministry(m)
      PROVE  MembersKept /\ LiveKept /\ AssignmentsKept
    <2>1. PICK d \in BOOLEAN : ministry' = [ministry EXCEPT ![m].deleted = d]
        BY <1>5 DEF delete_soft, restore_ministry
    <2>2. Row(m) /\ ministry[m] \in MinistryRow /\ UNCHANGED <<members, approvals, position, incumbents>>
        BY <1>1, <1>5, RowIsRecord DEF delete_soft, restore_ministry
    <2>3. PICK q : q = [ministry[m] EXCEPT !.deleted = d]
        OBVIOUS
    <2>4. q \in MinistryRow /\ ministry' = [ministry EXCEPT ![m] = q]
        BY <2>1, <2>2, <2>3 DEF MinistryRow
    <2>5. RowsStay
        BY <1>1, <2>4, MinistryAssumption DEF RowsStay, Row, Tables
    <2>6. LiveKept
        BY <1>1, <2>2, <2>5, LiveStays
    <2>7. AssignmentsKept
        BY <2>2, AssignmentsStay DEF RosterInv, Assignment
    <2> QED
        BY <1>1, <2>2, <2>6, <2>7 DEF MembersKept
<1>6. ASSUME NEW m \in Ids, delete_hard(m)
      PROVE  MembersKept /\ LiveKept /\ AssignmentsKept
    <2>1. /\ ministry' = [ministry EXCEPT ![m] = Gone]
          /\ members' = [members EXCEPT ![m] = {}]
          /\ approvals' = [approvals EXCEPT ![m] = <<>>]
          /\ UNCHANGED <<position, incumbents>>
        BY <1>6 DEF delete_hard
    <2>2. ASSUME NEW k \in Ids
          PROVE  OneRoleEach(members'[k]) /\ RowsOfLive(k)'
        <3>1. CASE k = m
            BY <1>1, <2>1, <3>1 DEF Tables, OneRoleEach, RowsOfLive
        <3>2. CASE k # m
            <4>1. /\ ministry'[k] = ministry[k] /\ members'[k] = members[k] /\ approvals'[k] = approvals[k]
                BY <1>1, <2>1, <3>2 DEF Tables
            <4>2. OneRoleEach(members[k]) /\ RowsOfLive(k)
                BY <1>1
            <4> QED
                BY <4>1, <4>2 DEF RowsOfLive, Row
        <3> QED
            BY <3>1, <3>2
    <2>3. AssignmentsKept
        BY <2>1, AssignmentsStay DEF RosterInv, Assignment
    <2> QED
        BY <2>2, <2>3 DEF MembersKept, LiveKept
<1>7. ASSUME NEW p \in Positions, delete_position(p)
      PROVE  MembersKept /\ LiveKept /\ AssignmentsKept
    <2>1. /\ position' = position \ {p}
          /\ incumbents' = {a \in incumbents : a.position # p}
          /\ UNCHANGED members
        BY <1>7 DEF delete_position
    <2>2. RowsStay
        <3>1. ASSUME NEW m \in Ids, Row(m) PROVE Row(m)'
            <4>1. ministry[m] \in MinistryRow
                BY <1>1, <3>1, RowIsRecord
            <4>2. ministry'[m] \in {ministry[m], [ministry[m] EXCEPT !.owner = None]}
                BY <1>7 DEF delete_position
            <4>3. ministry'[m] \in MinistryRow
                BY <4>1, <4>2 DEF MinistryRow
            <4> QED
                BY <4>3, MinistryAssumption DEF Row
        <3> QED
            BY <3>1 DEF RowsStay
    <2>3. \A m \in Ids : DOMAIN approvals'[m] = DOMAIN approvals[m]
        BY <1>7 DEF delete_position
    <2>4. LiveKept
        BY <1>1, <2>1, <2>2, <2>3, LiveStays
    <2>5. AssignmentsKept
        BY <2>1, AssignmentsStay DEF RosterInv, Assignment
    <2> QED
        BY <1>1, <2>1, <2>4, <2>5 DEF MembersKept
<1> QED
    BY <1>2, <1>3, <1>4, <1>5, <1>6, <1>7 DEF OwnerReview

\* A step that leaves all rows alone.
LEMMA RowsUntouched ==
    ASSUME RosterInv, Tables', UNCHANGED <<ministry, members, approvals, position, incumbents>>
    PROVE  MembersKept /\ LiveKept /\ AssignmentsKept
<1>1. MembersKept /\ LiveKept
    BY DEF RosterInv, MembersKept, LiveKept, RowsOfLive, Row
<1>2. AssignmentsKept
    BY AssignmentsStay DEF RosterInv, Assignment
<1> QED
    BY <1>1, <1>2

\* What the submissions and decisions do to the rows.
LEMMA StatusWrites ==
    ASSUME RosterInv, Tables', NEW t \in Requests, submit_write(t) \/ decide_write(t)
    PROVE  MembersKept /\ LiveKept /\ AssignmentsKept
<1>1. Tables /\ (\A m \in Ids : OneRoleEach(members[m]) /\ RowsOfLive(m))
    BY DEF RosterInv, MinistryInv
<1>2. PICK r : r = request[t]
    OBVIOUS
<1>3. UNCHANGED <<members, position, incumbents>>
    BY DEF submit_write, decide_write
<1>4. AssignmentsKept /\ MembersKept
    BY <1>1, <1>3, AssignmentsStay DEF RosterInv, Assignment, MembersKept
<1>5. CASE submit_write(t)
    <2>1. r \in SubmitRequest
        BY <1>1, <1>2, <1>5, RequestKinds DEF submit_write, Tables
    <2>2. r.m \in Ids /\ r.u \in Users /\ r.owner \in Positions
        BY <2>1 DEF SubmitRequest
    <2>3. CASE ~(Row(r.m) /\ r.owner \in position)
        BY <1>2, <1>3, <1>5, <2>3, RowsUntouched DEF submit_write
    <2>4. CASE Row(r.m) /\ r.owner \in position
        <3>1. PICK v : v = [status |-> "pending_approval", submitted_by |-> r.u]
            OBVIOUS
        <3>2. PICK q : q = update_ministry(r.m, v)
            OBVIOUS
        <3>3. DOMAIN v = {"status", "submitted_by"} /\ v.status = "pending_approval" /\ v.submitted_by = r.u
            BY <3>1
        <3>4. /\ q \in [Ids -> {None, Gone} \cup MinistryRow]
              /\ \A k \in Ids : q[k] = ministry[k] \/ (Row(k) /\ q[k] \in MinistryRow)
            BY <1>1, <2>2, <3>2, <3>3, UpdateById
        <3>5. PICK n : n = insert_approval(r.m, r.owner, r.u)
            OBVIOUS
        <3>6. ministry' = q /\ approvals' = n
            BY <1>2, <1>5, <2>4, <3>1, <3>2, <3>5 DEF submit_write
        <3>7. RowsStay /\ Row(r.m)'
            BY <1>1, <2>2, <2>4, <3>4, <3>6, UpdatedRowsStay DEF RowsStay
        <3>8. \A k \in Ids : k # r.m => n[k] = approvals[k]
            BY <1>1, <2>2, <3>5, InsertApproval
        <3>9. LiveKept
            BY <1>1, <1>3, <3>6, <3>7, <3>8, LiveStays
        <3> QED
            BY <1>4, <3>9
    <2> QED
        BY <2>3, <2>4
<1>6. CASE decide_write(t)
    <2>1. r \in DecideRequest
        BY <1>1, <1>2, <1>6, RequestKinds DEF decide_write, Tables
    <2>2. r.m \in Ids /\ r.decision \in {"approved", "rejected"}
        BY <2>1 DEF DecideRequest
    <2>3. PICK s : s = IF r.decision = "approved" THEN "active" ELSE "rejected"
        OBVIOUS
    <2>4. PICK v : v = [status |-> s]
        OBVIOUS
    <2>5. PICK q : q = update_ministry(r.m, v)
        OBVIOUS
    <2>6. PICK n : n = update_approval(r.m, r.decision)
        OBVIOUS
    <2>7. ministry' = q /\ approvals' = n
        BY <1>2, <1>6, <2>3, <2>4, <2>5, <2>6 DEF decide_write
    <2>8. DOMAIN v = {"status"} /\ v.status = s /\ s \in {"active", "rejected"}
        BY <2>3, <2>4
    <2>9. /\ q \in [Ids -> {None, Gone} \cup MinistryRow]
          /\ \A k \in Ids : q[k] = ministry[k] \/ (Row(k) /\ q[k] \in MinistryRow)
        BY <1>1, <2>2, <2>5, <2>8, UpdateById
    <2>10. RowsStay
        BY <1>1, <2>7, <2>9, UpdatedRowsStay
    <2>11. \A k \in Ids : DOMAIN n[k] = DOMAIN approvals[k]
        BY <1>1, <2>2, <2>6, UpdateApproval
    <2>12. LiveKept
        BY <1>1, <1>3, <2>7, <2>10, <2>11, LiveStays
    <2> QED
        BY <1>4, <2>12
<1> QED
    BY <1>5, <1>6

\* The DELETE leaves rows of others, and the INSERT meets none of their users.
LEMMA ReplaceRows ==
    ASSUME RosterInv, Tables', NEW t \in Requests, replace_members_write(t)
    PROVE  MembersKept /\ LiveKept /\ AssignmentsKept
<1>1. Tables /\ (\A m \in Ids : OneRoleEach(members[m]) /\ RowsOfLive(m))
    BY DEF RosterInv, MinistryInv
<1>2. PICK r : r = request[t]
    OBVIOUS
<1>3. r \in ReplaceRequest /\ OneRoleEach(r.list)
    BY <1>1, <1>2, RequestKinds DEF replace_members_write, Tables, RosterInv, Carries
<1>4. r.m \in Ids
    BY <1>3 DEF ReplaceRequest
<1>5. UNCHANGED <<ministry, approvals, position, incumbents>>
    BY DEF replace_members_write
<1>6. CASE Clash(r)
    BY <1>2, <1>5, <1>6, RowsUntouched DEF replace_members_write
<1>7. CASE ~Clash(r)
    <2>1. PICK kept : kept = members[r.m] \ r.seen
        OBVIOUS
    <2>2. members' = [members EXCEPT ![r.m] = kept \cup r.list]
        BY <1>2, <1>7, <2>1 DEF replace_members_write
    <2>3. Row(r.m) /\ \A x \in kept, y \in r.list : x.user # y.user
        BY <1>7, <2>1 DEF Clash
    <2>4. OneRoleEach(kept \cup r.list)
        BY <1>1, <1>3, <1>4, <2>1, <2>3 DEF OneRoleEach
    <2>5. MembersKept
        BY <1>1, <1>4, <2>2, <2>4 DEF MembersKept, Tables
    <2>6. RowsStay /\ Row(r.m)'
        BY <1>5, <2>3 DEF RowsStay, Row
    <2>7. \A k \in Ids : members'[k] = members[k] \/ Row(k)'
        BY <1>1, <1>4, <2>2, <2>6 DEF Tables
    <2>8. LiveKept
        BY <1>1, <1>5, <2>6, <2>7, LiveStays
    <2>9. AssignmentsKept
        BY <1>5, AssignmentsStay DEF RosterInv, Assignment
    <2> QED
        BY <2>5, <2>8, <2>9
<1> QED
    BY <1>6, <1>7

\* An assignment is opened at a position that is still there.
LEMMA AssignRows ==
    ASSUME RosterInv, Tables', NEW t \in Requests, assign_position_write(t)
    PROVE  MembersKept /\ LiveKept /\ AssignmentsKept
<1>1. Tables
    BY DEF RosterInv, MinistryInv
<1>2. PICK r : r = request[t]
    OBVIOUS
<1>3. r \in AssignRequest /\ r.start \in Starts
    BY <1>1, <1>2, RequestKinds DEF assign_position_write, Tables, RosterInv, Carries
<1>4. UNCHANGED <<ministry, members, approvals, position>>
    BY DEF assign_position_write
<1>5. MembersKept /\ LiveKept
    BY <1>4 DEF RosterInv, MembersKept, LiveKept, RowsOfLive, Row
<1>6. CASE r.p \notin position
    BY <1>2, <1>4, <1>6, RowsUntouched DEF assign_position_write
<1>7. CASE r.p \in position
    <2>1. PICK a : a = [position |-> r.p, user |-> r.u, start |-> r.start]
        OBVIOUS
    <2>2. incumbents' = (incumbents \ r.seen) \cup {a}
        BY <1>2, <1>7, <2>1 DEF assign_position_write, assign_incumbent
    <2>3. a.position \in position /\ a.user \in Users /\ a.start \in Starts
        BY <1>3, <1>7, <2>1 DEF AssignRequest
    <2>4. AssignmentsKept
        BY <1>4, <2>2, <2>3 DEF AssignmentsKept, Assignment, RosterInv
    <2> QED
        BY <1>5, <2>4
<1> QED
    BY <1>6, <1>7

\* What a request carries stays with it.
LEMMA StillCarries ==
    ASSUME NEW r \in RequestRow, NEW q, Carries(r), CarriedOver(r, q)
    PROVE  Carries(q)
<1>1. CASE q = Idle
    BY <1>1 DEF Idle, Carries
<1>2. CASE r \in ReplaceRequest /\ q = [r EXCEPT !.seen = q.seen]
    <2>1. q.pc = "replace" /\ q.list = r.list /\ r.pc = "replace"
        BY <1>2 DEF ReplaceRequest
    <2> QED
        BY <2>1 DEF Carries
<1>3. CASE r \in AssignRequest /\ q = [r EXCEPT !.seen = q.seen]
    <2>1. q.pc = "assign" /\ q.start = r.start /\ r.pc = "assign"
        BY <1>3 DEF AssignRequest
    <2> QED
        BY <2>1 DEF Carries
<1> QED
    BY <1>1, <1>2, <1>3 DEF CarriedOver

\* A request that starts, or goes on, with something it may carry.
LEMMA StartedCarries ==
    ASSUME RosterInv, NEW t \in Requests, NEW what, Carries(what), request' = [request EXCEPT ![t] = what]
    PROVE  \A x \in Requests : Carries(request'[x])
    BY DEF RosterInv, MinistryInv, Tables

\* Every request carries what the unique key and the commands allow.
LEMMA RequestsCarry ==
    ASSUME RosterInv, [Next]_vars
    PROVE  \A x \in Requests : Carries(request'[x])
<1>1. Tables /\ \A x \in Requests : Carries(request[x]) /\ request[x] \in RequestRow
    BY DEF RosterInv, MinistryInv, Tables
<1>2. ASSUME RequestStays PROVE \A x \in Requests : Carries(request'[x])
    BY <1>1, <1>2, StillCarries DEF RequestStays
<1>3. CASE UNCHANGED request
    BY <1>1, <1>3
<1>4. \A l \in MemberLists : OneRoleEach(l)
    BY MinistryAssumption DEF OneRoleEach
<1>5. ASSUME NEW t \in Requests, RequestStep(t) PROVE \A x \in Requests : Carries(request'[x])
    <2>1. ASSUME NEW m \in Ids, NEW u \in Callers, submit_read(t, m, u)
          PROVE  \A x \in Requests : Carries(request'[x])
        <3>1. PICK what : what = [pc |-> "submit", m |-> m, u |-> u, owner |-> ministry[m].owner]
            OBVIOUS
        <3>2. request' = [request EXCEPT ![t] = what] /\ what.pc = "submit"
            BY <2>1, <3>1 DEF submit_read, Begin
        <3> QED
            BY <3>2, StartedCarries DEF Carries
    <2>2. ASSUME NEW m \in Ids, NEW u \in Callers, NEW d, NEW c, decide_read(t, m, u, d, c)
          PROVE  \A x \in Requests : Carries(request'[x])
        <3>1. PICK what : what = [pc |-> "decide", m |-> m, owner |-> ministry[m].owner,
                                  applicant |-> ministry[m].submitted_by, decision |-> d, channel |-> c]
            OBVIOUS
        <3>2. request' = [request EXCEPT ![t] = what] /\ what.pc = "decide"
            BY <2>2, <3>1 DEF decide_read, Begin
        <3> QED
            BY <3>2, StartedCarries DEF Carries
    <2>3. ASSUME NEW m \in Ids, NEW u \in Callers, NEW l \in MemberLists, update_rejected_read(t, m, u, l)
          PROVE  \A x \in Requests : Carries(request'[x])
        <3>1. PICK what : what = [pc |-> "amend", m |-> m, list |-> l]
            OBVIOUS
        <3>2. request' = [request EXCEPT ![t] = what] /\ what.pc = "amend" /\ what.list = l
            BY <2>3, <3>1 DEF update_rejected_read, Begin
        <3> QED
            BY <1>4, <3>2, StartedCarries DEF Carries
    <2>4. ASSUME NEW m \in Ids, NEW l \in MemberLists, replace_members_read(t, m, l)
          PROVE  \A x \in Requests : Carries(request'[x])
        <3>1. PICK what : what = [pc |-> "replace", m |-> m, list |-> l, seen |-> members[m]]
            OBVIOUS
        <3>2. request' = [request EXCEPT ![t] = what] /\ what.pc = "replace" /\ what.list = l
            BY <2>4, <3>1 DEF replace_members_read, Begin
        <3> QED
            BY <1>4, <3>2, StartedCarries DEF Carries
    <2>5. ASSUME NEW p \in Positions, NEW u \in Callers, NEW s \in Starts, assign_position_read(t, p, u, s)
          PROVE  \A x \in Requests : Carries(request'[x])
        <3>1. PICK what : what = [pc |-> "assign", p |-> p, u |-> u, start |-> s,
                                  seen |-> {a \in incumbents : a.position = p}]
            OBVIOUS
        <3>2. request' = [request EXCEPT ![t] = what] /\ what.pc = "assign" /\ what.start = s
            BY <2>5, <3>1 DEF assign_position_read, Begin
        <3> QED
            BY <3>2, StartedCarries DEF Carries
    <2>6. CASE submit_write(t) \/ decide_write(t) \/ decide_aborted(t)
        BY <1>1, <1>2, <2>6, DoneStays DEF submit_write, decide_write, decide_aborted
    <2>7. CASE replace_members_write(t) \/ assign_position_write(t)
        BY <1>1, <1>2, <2>7, DoneStays, SettledStays DEF replace_members_write, assign_position_write
    <2>8. CASE update_rejected_write(t)
        <3>1. PICK r : r = request[t]
            OBVIOUS
        <3>2. r.pc = "amend" /\ Carries(r)
            BY <1>1, <2>8, <3>1 DEF update_rejected_write
        <3>3. PICK q : q = [pc |-> "replace", m |-> r.m, list |-> r.list, seen |-> members[r.m]]
            OBVIOUS
        <3>4. q.pc = "replace" /\ q.list = r.list
            BY <3>3
        <3>5. Carries(q)
            BY <3>2, <3>4 DEF Carries
        <3>6. request' = [request EXCEPT ![t] = q] \/ Done(t)
            BY <2>8, <3>1, <3>3 DEF update_rejected_write
        <3> QED
            BY <1>1, <1>2, <3>5, <3>6, StartedCarries, DoneStays
    <2> QED
        BY <1>5, <2>1, <2>2, <2>3, <2>4, <2>5, <2>6, <2>7, <2>8
           DEF RequestStep, submit_ministry_read, resubmit_read
<1>6. CASE OwnerReview
    BY <1>3, <1>6 DEF OwnerReview, create_ministry, create_application, update_ministry_owner, delete_soft,
       delete_hard, restore_ministry, delete_position
<1>7. CASE UNCHANGED vars
    BY <1>3, <1>7 DEF vars
<1> QED
    BY <1>5, <1>6, <1>7 DEF Next

-----------------------------------------------------------------------------
(* The theorem.                                                            *)

\* Every step keeps the rows in order.
LEMMA NextRoster == RosterInv /\ [Next]_vars => RosterInv'
<1>1. SUFFICES ASSUME RosterInv, [Next]_vars PROVE RosterInv'
    OBVIOUS
<1>2. MinistryInv' /\ Tables'
    BY <1>1, NextMinistry DEF RosterInv, MinistryInv
<1>3. \A x \in Requests : Carries(request'[x])
    BY <1>1, RequestsCarry
<1>4. MembersKept /\ LiveKept /\ AssignmentsKept
    <2>1. CASE OwnerReview
        BY <1>1, <1>2, <2>1, OwnerReviewRows
    <2>2. CASE UNCHANGED vars
        BY <1>1, <1>2, <2>2, RowsUntouched DEF vars
    <2>3. ASSUME NEW t \in Requests, RequestStep(t) PROVE MembersKept /\ LiveKept /\ AssignmentsKept
        <3>1. CASE submit_write(t) \/ decide_write(t)
            BY <1>1, <1>2, <3>1, StatusWrites
        <3>2. CASE replace_members_write(t)
            BY <1>1, <1>2, <3>2, ReplaceRows
        <3>3. CASE assign_position_write(t)
            BY <1>1, <1>2, <3>3, AssignRows
        <3>4. CASE ~(submit_write(t) \/ decide_write(t) \/ replace_members_write(t) \/ assign_position_write(t))
            <4>1. UNCHANGED <<ministry, members, approvals, position, incumbents>>
                BY <2>3, <3>4 DEF RequestStep, submit_ministry_read, resubmit_read, submit_read, decide_read,
                   update_rejected_read, replace_members_read, assign_position_read, Begin, decide_aborted,
                   update_rejected_write
            <4> QED
                BY <1>1, <1>2, <4>1, RowsUntouched
        <3> QED
            BY <3>1, <3>2, <3>3, <3>4
    <2> QED
        BY <1>1, <2>1, <2>2, <2>3 DEF Next
<1> QED
    BY <1>2, <1>3, <1>4 DEF RosterInv, MembersKept, LiveKept, AssignmentsKept

\* The rows of Ministries are what the tables allow: one role for a user in a
\* Ministry, members and requests only of Ministries that exist, open
\* assignments only of positions that exist
\* (unique key and foreign keys of portal/models/org).
THEOREM RosterIsInOrder == Spec => []MinistryTypeOK
<1>1. Init => RosterInv
    <2>1. SUFFICES ASSUME Init PROVE RosterInv
        OBVIOUS
    <2>2. MinistryInv
        BY <2>1, InitMinistry
    <2>3. \A m \in Ids : members[m] = {} /\ approvals[m] = <<>>
        BY <2>1 DEF Init
    <2>4. \A t \in Requests : request[t].pc = "idle"
        BY <2>1 DEF Init, Idle
    <2> QED
        BY <2>1, <2>2, <2>3, <2>4 DEF RosterInv, OneRoleEach, RowsOfLive, Carries, Init
<1>2. RosterInv => MinistryTypeOK
    <2>1. SUFFICES ASSUME RosterInv PROVE MinistryTypeOK
        OBVIOUS
    <2>2. Tables
        BY <2>1 DEF RosterInv, MinistryInv
    <2>3. \A m \in Ids : /\ ministry[m] \in {None, Gone} \cup MinistryRow
                         /\ members[m] \subseteq MemberRow /\ approvals[m] \in Seq(ApprovalRow)
        BY <2>2 DEF Tables
    <2>4. incumbents \subseteq [position : position, user : Users, start : Starts]
        <3>1. ASSUME NEW a \in incumbents PROVE a \in [position : position, user : Users, start : Starts]
            <4>1. a \in AssignmentRow /\ a.position \in position /\ a.user \in Users /\ a.start \in Starts
                BY <2>1, <2>2 DEF RosterInv, Assignment, Tables
            <4> QED
                BY <4>1 DEF AssignmentRow
        <3> QED
            BY <3>1
    <2>5. \A m \in Ids : OneRoleEach(members[m]) /\ RowsOfLive(m)
        BY <2>1 DEF RosterInv
    <2> QED
        BY <2>3, <2>4, <2>5 DEF MinistryTypeOK, OneRoleEach, RowsOfLive
<1> QED
    BY <1>1, <1>2, NextRoster, PTL DEF Spec
=============================================================================
