----------------------------- MODULE AccessProofs -----------------------------
(***************************************************************************)
(* Proofs about AccessControl: what the permission cache can hold, also    *)
(* after an account's roles were replaced, and what an edit of a role       *)
(* leaves, for every set of accounts, roles, permissions and requests in    *)
(* flight and any number of operations.                                     *)
(***************************************************************************)
EXTENDS AccessControl, TLAPS

-----------------------------------------------------------------------------
(* The inductive invariant.                                                *)

Loading == {"perms", "clear", "fill", "expire"}
TaskRow == [at : Loading \cup {"idle", "edit", "bind", "bind_commit"},
            user : Users \cup {NoUser}, role : Roles \cup {NoRole}, super : BOOLEAN,
            codes : SUBSET Perms, was : SUBSET (Perms \cup Roles), want : SUBSET (Perms \cup Roles),
            upsert : BOOLEAN, active : BOOLEAN, lost : BOOLEAN, overlapped : BOOLEAN]

AccountsTyped ==
  /\ users \in [Users -> [able : BOOLEAN, admin : BOOLEAN, super : BOOLEAN]]
  /\ bound \in [Users -> SUBSET (Perms \cup Roles)]

LinksTyped ==
  /\ roles \in [Roles -> AuthRole] /\ perms \in [Perms -> AuthPermission]
  /\ grants \subseteq Roles \X Perms
  /\ asked \in [Roles -> SUBSET Perms]

LoadsTyped ==
  /\ permCache \in [Users -> SUBSET Perms]
  /\ held \in [Users -> SUBSET Perms]
  /\ task \in [Tasks -> TaskRow]
  /\ admitted \subseteq Users \X AdminEndpoints

\* A load carries, and the cache holds, only codes the account was entitled to.
LoadHolds(e) ==
  e.at \in Loading => e.user \in Users /\ (e.at \in {"clear", "fill"} => e.codes \subseteq held[e.user])

LoadsHold == /\ \A t \in Tasks : LoadHolds(task[t])
             /\ \A u \in Users : permCache[u] \subseteq held[u]

\* Links are of roles and permissions that exist.
GrantsExist ==
  \A r \in Roles, p \in Perms : <<r, p>> \in grants => roles[r].there /\ perms[p].there

\* An edit in flight wants permissions that exist, and unless it is going to
\* fail or was overtaken, what it read is what the role has.
EditHolds(e) ==
  e.at = "edit" =>
    /\ e.role \in Roles /\ e.want \subseteq Existing /\ e.was \subseteq Perms
    /\ ~e.lost /\ ~e.overlapped => e.was = GrantsOf(e.role)

EditsHold == \A t \in Tasks : EditHolds(task[t])

LoadInv == LoadsTyped /\ LoadsHold /\ AdmittedOnHeldCode
LinkInv == LinksTyped /\ GrantsExist /\ EditsHold /\ EditIsExact
AccessInv == AccountsTyped /\ LoadInv /\ LinkInv

-----------------------------------------------------------------------------
(* Lemmas about the operators.                                             *)

\* The history only grows, and holds what the account is entitled to.
LEMMA HeldGrows ==
    ASSUME LoadsTyped, Remember
    PROVE  /\ held' \in [Users -> SUBSET Perms]
           /\ \A u \in Users : held[u] \subseteq held'[u] /\ Entitled(u) \subseteq held'[u]
<1>1. \A u \in Users : Entitled(u) \subseteq Perms /\ Entitled(u)' \subseteq Perms
    BY DEF Entitled, Granted, list_all_permissions, list_user_role_permissions
<1> QED
    BY <1>1 DEF Remember, LoadsTyped

\* What the two queries of a load may give is within what the account is
\* entitled to, whether or not it is still, or has become, a superuser.
LEMMA LoadedIsEntitled ==
    ASSUME NEW t \in Tasks, NEW u \in Users, task[t].at = "perms", task[t].user = u,
           NEW codes,
           codes = IF task[t].super THEN list_all_permissions ELSE list_user_role_permissions(u)
    PROVE  codes \subseteq Entitled(u) /\ codes \subseteq Perms
<1>1. CASE task[t].super
    BY <1>1 DEF Entitled, list_all_permissions
<1>2. CASE ~task[t].super
    BY <1>2 DEF Entitled, Granted, list_all_permissions, list_user_role_permissions, Usable
<1> QED
    BY <1>1, <1>2

\* Somebody who is not a superuser passes the check on a code of the cache.
LEMMA AdmittedFromCache ==
    ASSUME NEW u \in Users, NEW e \in AdminEndpoints, ~users[u].super,
           ConfigOf[e].codes # {} => _check_permissions(u, ConfigOf[e])
    PROVE  ConfigOf[e].codes \cap permCache[u] # {}
    BY EndpointsAskForCodes DEF _check_permissions, has_any_permission, has_permission

\* So whatever an operation records stays within the history.
LEMMA AdmissionHolds ==
    ASSUME LoadInv, Remember,
           UNCHANGED admitted \/ \E e \in AdminEndpoints : Operation(e)
    PROVE  admitted' \subseteq Users \X AdminEndpoints /\ AdmittedOnHeldCode'
<1>1. \A u \in Users : held[u] \subseteq held'[u] /\ permCache[u] \subseteq held'[u]
    BY HeldGrows DEF LoadInv, LoadsHold
<1>2. ASSUME NEW a \in admitted PROVE ConfigOf[a[2]].codes \cap held'[a[1]] # {}
    <2>1. a[1] \in Users /\ ConfigOf[a[2]].codes \cap held[a[1]] # {}
        BY DEF LoadInv, LoadsTyped, AdmittedOnHeldCode
    <2> QED
        BY <1>1, <2>1
<1>3. CASE UNCHANGED admitted
    BY <1>2, <1>3 DEF LoadInv, LoadsTyped, AdmittedOnHeldCode
<1>4. ASSUME NEW e \in AdminEndpoints, Operation(e)
      PROVE  admitted' \subseteq Users \X AdminEndpoints /\ AdmittedOnHeldCode'
    <2>1. PICK u \in Users : Admit(u, e)
        BY <1>4 DEF Operation
    <2>2. CASE users[u].super
        BY <1>2, <2>1, <2>2 DEF Admit, LoadInv, LoadsTyped, AdmittedOnHeldCode
    <2>3. CASE ~users[u].super
        <3>1. ConfigOf[e].codes \cap held'[u] # {}
            BY <1>1, <2>1, <2>3, AdmittedFromCache DEF Admit
        <3>2. admitted' = admitted \cup {<<u, e>>}
            BY <2>1, <2>3 DEF Admit
        <3> HIDE DEF ConfigOf, AdminEndpoints
        <3>3. ASSUME NEW a \in admitted' PROVE ConfigOf[a[2]].codes \cap held'[a[1]] # {}
            <4>1. CASE a \in admitted
                BY <1>2, <4>1
            <4>2. CASE a = <<u, e>>
                BY <3>1, <4>2
            <4> QED
                BY <3>2, <4>1, <4>2
        <3> QED
            BY <3>2, <3>3 DEF LoadInv, LoadsTyped, AdmittedOnHeldCode
    <2> QED
        BY <2>2, <2>3
<1> QED
    BY <1>3, <1>4

\* Marking a task, or taking a deleted row out of it, leaves what it loads.
LEMMA MarkedTask ==
    ASSUME NEW e \in TaskRow, NEW x, NEW f,
           f \in {e, [e EXCEPT !.overlapped = TRUE], [e EXCEPT !.lost = TRUE], Without(e, x)}
    PROVE  f \in TaskRow /\ f.at = e.at /\ f.user = e.user /\ f.codes = e.codes
<1>1. CASE f = e
    BY <1>1
<1>2. CASE f = [e EXCEPT !.overlapped = TRUE] \/ f = [e EXCEPT !.lost = TRUE]
    BY <1>2 DEF TaskRow
<1>3. CASE f = Without(e, x)
    BY <1>3 DEF TaskRow, Without
<1> QED
    BY <1>1, <1>2, <1>3

-----------------------------------------------------------------------------
(* The cache and the loads.                                                *)

\* A load that goes on with what it had still holds.
LEMMA LoadStays ==
    ASSUME LoadInv, Remember, NEW t \in Tasks, NEW f,
           f.at \in Loading => f.at = task[t].at /\ f.user = task[t].user /\ f.codes = task[t].codes
    PROVE  LoadHolds(f)'
<1>1. LoadHolds(task[t])
    BY DEF LoadInv, LoadsHold
<1> QED
    BY <1>1, HeldGrows DEF LoadInv, LoadHolds

\* The invariant of the loads, from what a step does to the tasks and the cache.
LEMMA LoadStep ==
    ASSUME LoadInv, Remember,
           UNCHANGED admitted \/ \E e \in AdminEndpoints : Operation(e),
           permCache' \in [Users -> SUBSET Perms],
           \A u \in Users : permCache'[u] \subseteq held'[u],
           task' \in [Tasks -> TaskRow],
           \A t \in Tasks : LoadHolds(task[t])'
    PROVE  LoadInv'
<1>1. admitted' \subseteq Users \X AdminEndpoints /\ AdmittedOnHeldCode'
    BY AdmissionHolds
<1>2. held' \in [Users -> SUBSET Perms]
    BY HeldGrows DEF LoadInv
<1> QED
    BY <1>1, <1>2 DEF LoadInv, LoadsTyped, LoadsHold

\* The cache is as it was, or a key of it is dropped.
CacheShrinks == \/ UNCHANGED permCache
                \/ \E u \in Users : permCache' = [permCache EXCEPT ![u] = {}]

\* Either way it stays within the history.
LEMMA ShrunkCache ==
    ASSUME LoadInv, Remember, CacheShrinks
    PROVE  permCache' \in [Users -> SUBSET Perms] /\ \A u \in Users : permCache'[u] \subseteq held'[u]
    BY HeldGrows DEF LoadInv, LoadsTyped, LoadsHold, CacheShrinks

\* One task goes on; the others are as they were.
LEMMA OneTask ==
    ASSUME LoadInv, Remember,
           UNCHANGED admitted \/ \E e \in AdminEndpoints : Operation(e),
           permCache' \in [Users -> SUBSET Perms],
           \A u \in Users : permCache'[u] \subseteq held'[u],
           NEW t \in Tasks, NEW f \in TaskRow, task' = [task EXCEPT ![t] = f], LoadHolds(f)'
    PROVE  LoadInv'
<1>1. task' \in [Tasks -> TaskRow]
    BY DEF LoadInv, LoadsTyped
<1>2. ASSUME NEW x \in Tasks PROVE LoadHolds(task[x])'
    <2>1. CASE x = t
        BY <2>1 DEF LoadInv, LoadsTyped
    <2>2. CASE x # t
        <3>1. task'[x] = task[x]
            BY <2>2 DEF LoadInv, LoadsTyped
        <3>2. PICK g : g = task'[x]
            OBVIOUS
        <3>3. LoadHolds(g)'
            BY <3>1, <3>2, LoadStays
        <3> QED
            BY <3>2, <3>3
    <2> QED
        BY <2>1, <2>2
<1> QED
    BY <1>1, <1>2, LoadStep

\* An idle task is a task, and loads nothing.
LEMMA IdleTask == Idle \in TaskRow /\ Idle.at = "idle" /\ LoadHolds(Idle)' /\ EditHolds(Idle)'
    BY DEF Idle, TaskRow, Loading, LoadHolds, EditHolds

\* The tasks are as they were, or marked; at most they are still loading what
\* they were loading.
LEMMA MarkedTasks ==
    ASSUME LoadInv, Remember, CacheShrinks,
           UNCHANGED admitted \/ \E e \in AdminEndpoints : Operation(e),
           task' = [t \in Tasks |-> task'[t]],
           \A t \in Tasks : /\ task'[t] \in TaskRow
                            /\ \/ task'[t].at \notin Loading
                               \/ /\ task'[t].at = task[t].at /\ task'[t].user = task[t].user
                                  /\ task'[t].codes = task[t].codes
    PROVE  LoadInv'
<1>1. task' \in [Tasks -> TaskRow]
    OBVIOUS
<1>2. ASSUME NEW t \in Tasks PROVE LoadHolds(task[t])'
    <2>1. PICK g : g = task'[t]
        OBVIOUS
    <2>2. LoadHolds(g)'
        BY <2>1, LoadStays
    <2> QED
        BY <2>1, <2>2
<1> QED
    BY <1>1, <1>2, LoadStep, ShrunkCache

\* A sign-in begins.
LEMMA LoginLoads ==
    ASSUME LoadInv, Remember, NEW t \in Tasks, NEW u \in Users, complete_admin_login(t, u),
           AccountsTyped
    PROVE  LoadInv'
<1>1. PICK f : f = [Idle EXCEPT !.at = "perms", !.user = u, !.super = users[u].super]
    OBVIOUS
<1>2. f \in TaskRow /\ f.at = "perms" /\ f.user = u
    BY <1>1 DEF Idle, TaskRow, Loading, AccountsTyped
<1>3. LoadHolds(f)'
    BY <1>2 DEF LoadHolds
<1>4. task' = [task EXCEPT ![t] = f] /\ CacheShrinks /\ UNCHANGED admitted
    BY <1>1 DEF complete_admin_login, CacheShrinks, caches
<1> QED
    BY <1>2, <1>3, <1>4, OneTask, ShrunkCache

\* It lists the codes, by what it knew of the account.
LEMMA ReadLoads ==
    ASSUME LoadInv, Remember, NEW t \in Tasks, ReadPermissions(t)
    PROVE  LoadInv'
<1>1. task[t] \in TaskRow /\ task[t].at = "perms" /\ task[t].user \in Users
    BY DEF ReadPermissions, LoadInv, LoadsTyped, LoadsHold, LoadHolds, Loading
<1>2. PICK codes : codes = IF task[t].super THEN list_all_permissions ELSE list_user_role_permissions(task[t].user)
    OBVIOUS
<1>3. PICK f : f = [[task[t] EXCEPT !.codes = codes] EXCEPT !.at = "clear"]
    OBVIOUS
<1>4. codes \subseteq Perms /\ codes \subseteq held'[task[t].user]
    BY <1>1, <1>2, LoadedIsEntitled, HeldGrows DEF LoadInv
<1>5. f \in TaskRow /\ f.at = "clear" /\ f.user = task[t].user /\ f.codes = codes
    BY <1>1, <1>3, <1>4 DEF TaskRow, Loading
<1>6. LoadHolds(f)'
    BY <1>1, <1>4, <1>5 DEF LoadHolds
<1>7. task' = [task EXCEPT ![t] = f]
    BY <1>2, <1>3 DEF ReadPermissions, LoadInv, LoadsTyped
<1>8. CacheShrinks /\ UNCHANGED admitted
    BY DEF ReadPermissions, CacheShrinks, caches
<1> QED
    BY <1>5, <1>6, <1>7, <1>8, OneTask, ShrunkCache

\* It drops the key,
LEMMA ClearLoads ==
    ASSUME LoadInv, Remember, NEW t \in Tasks, clear_user_permissions_cache(t)
    PROVE  LoadInv'
<1>1. task[t] \in TaskRow /\ task[t].at = "clear" /\ task[t].user \in Users
    BY DEF clear_user_permissions_cache, LoadInv, LoadsTyped, LoadsHold, LoadHolds, Loading
<1>2. PICK f : f = IF task[t].codes = {} THEN Idle ELSE [task[t] EXCEPT !.at = "fill"]
    OBVIOUS
<1>3. task' = [task EXCEPT ![t] = f] /\ CacheShrinks /\ UNCHANGED admitted
    BY <1>1, <1>2 DEF clear_user_permissions_cache, CacheShrinks
<1>4. CASE task[t].codes = {}
    BY <1>2, <1>3, <1>4, IdleTask, OneTask, ShrunkCache
<1>5. CASE task[t].codes # {}
    <2>1. f \in TaskRow /\ f.at = "fill" /\ f.user = task[t].user /\ f.codes = task[t].codes
        BY <1>1, <1>2, <1>5 DEF TaskRow, Loading
    <2>2. task[t].codes \subseteq held'[task[t].user]
        BY <1>1, HeldGrows DEF LoadInv, LoadsHold, LoadHolds, Loading
    <2>3. LoadHolds(f)'
        BY <1>1, <2>1, <2>2 DEF LoadHolds
    <2> QED
        BY <1>3, <2>1, <2>3, OneTask, ShrunkCache
<1> QED
    BY <1>4, <1>5

\* writes one code after the other,
LEMMA FillLoads ==
    ASSUME LoadInv, Remember, NEW t \in Tasks, hset(t)
    PROVE  LoadInv'
<1>1. task[t] \in TaskRow /\ task[t].at = "fill" /\ task[t].user \in Users
    BY DEF hset, LoadInv, LoadsTyped, LoadsHold, LoadHolds, Loading
<1>2. task[t].codes \subseteq held'[task[t].user]
    BY <1>1, HeldGrows DEF LoadInv, LoadsHold, LoadHolds, Loading
<1>3. PICK code \in task[t].codes :
        /\ permCache' = [permCache EXCEPT ![task[t].user] = @ \cup {code}]
        /\ task' = [task EXCEPT ![t].codes = @ \ {code},
                                ![t].at = IF task[t].codes = {code} THEN "expire" ELSE "fill"]
    BY DEF hset
<1>4. PICK a : a = IF task[t].codes = {code} THEN "expire" ELSE "fill"
    OBVIOUS
<1>5. PICK f : f = [[task[t] EXCEPT !.codes = task[t].codes \ {code}] EXCEPT !.at = a]
    OBVIOUS
<1>6. f \in TaskRow /\ f.at = a /\ f.user = task[t].user /\ f.codes = task[t].codes \ {code}
    BY <1>1, <1>4, <1>5 DEF TaskRow, Loading
<1>7. LoadHolds(f)'
    BY <1>1, <1>2, <1>4, <1>6 DEF LoadHolds, Loading
<1>8. task' = [task EXCEPT ![t] = f]
    BY <1>3, <1>4, <1>5 DEF LoadInv, LoadsTyped
<1>9. /\ permCache' \in [Users -> SUBSET Perms]
      /\ \A u \in Users : permCache'[u] \subseteq held'[u]
    <2>1. code \in Perms /\ code \in held'[task[t].user]
        BY <1>1, <1>2 DEF TaskRow
    <2> QED
        BY <1>1, <1>3, <2>1, HeldGrows DEF LoadInv, LoadsTyped, LoadsHold
<1>10. UNCHANGED admitted
    BY DEF hset
<1> QED
    BY <1>6, <1>7, <1>8, <1>9, <1>10, OneTask

-----------------------------------------------------------------------------
(* The links and the edits.                                                *)

\* The rows and the history of the links are as they were, but for columns
\* other than their existence.
LinksStay ==
  /\ UNCHANGED <<grants, asked, mixed>>
  /\ roles' \in [Roles -> AuthRole] /\ perms' \in [Perms -> AuthPermission]
  /\ \A r \in Roles : roles'[r].there = roles[r].there
  /\ \A p \in Perms : perms'[p].there = perms[p].there

\* Then the edits hold as they did, whichever of them go on.
LEMMA LinksUntouched ==
    ASSUME LinkInv, LinksStay, \A t \in Tasks : task'[t] = task[t] \/ EditHolds(task[t])'
    PROVE  LinkInv'
<1>1. LinksTyped' /\ GrantsExist' /\ EditIsExact'
    BY DEF LinkInv, LinksStay, LinksTyped, GrantsExist, EditIsExact, GrantsOf
<1>2. ASSUME NEW t \in Tasks, task'[t] = task[t] PROVE EditHolds(task[t])'
    <2>1. EditHolds(task[t])
        BY DEF LinkInv, EditsHold
    <2> QED
        BY <1>2, <2>1 DEF EditHolds, LinksStay, Existing, GrantsOf
<1>3. EditsHold'
    BY <1>2 DEF EditsHold
<1> QED
    BY <1>1, <1>3 DEF LinkInv

\* An edit that is not there holds.
LEMMA NoEdit == ASSUME NEW t \in Tasks, task'[t].at # "edit" PROVE EditHolds(task[t])'
    BY DEF EditHolds

\* Nothing of the links changes.
LEMMA RowsStay ==
    ASSUME LinkInv, UNCHANGED <<roles, perms, grants, asked, mixed>>
    PROVE  LinksStay
    BY DEF LinkInv, LinksTyped, LinksStay

\* One task goes on to something that is not an edit.
LEMMA OneTaskNoEdit ==
    ASSUME LoadInv, LinkInv, LinksStay, NEW t \in Tasks, NEW f, task' = [task EXCEPT ![t] = f], f.at # "edit"
    PROVE  LinkInv'
<1>1. \A x \in Tasks : x # t => task'[x] = task[x]
    BY DEF LoadInv, LoadsTyped
<1>2. task'[t].at # "edit"
    BY DEF LoadInv, LoadsTyped
<1> QED
    BY <1>1, <1>2, LinksUntouched, NoEdit

\* The loads leave the links alone.
LEMMA LoadLinks ==
    ASSUME LoadInv, LinkInv, NEW t \in Tasks, Load(t)
    PROVE  LinkInv'
<1>1. LinksStay
    BY RowsStay DEF Load, complete_admin_login, ReadPermissions, clear_user_permissions_cache, hset, expire, rows
<1>2. \A x \in Tasks : x # t => task'[x] = task[x]
    BY DEF Load, complete_admin_login, ReadPermissions, clear_user_permissions_cache, hset, expire, LoadInv, LoadsTyped
<1>3. task[t] \in TaskRow
    BY DEF LoadInv, LoadsTyped
<1>4. task'[t].at # "edit"
    <2>1. ASSUME NEW u \in Users, complete_admin_login(t, u) PROVE task'[t].at # "edit"
        BY <2>1 DEF complete_admin_login, Idle, LoadInv, LoadsTyped
    <2>2. CASE ReadPermissions(t)
        BY <1>3, <2>2 DEF ReadPermissions, LoadInv, LoadsTyped, TaskRow
    <2>3. CASE clear_user_permissions_cache(t)
        BY <1>3, <2>3 DEF clear_user_permissions_cache, LoadInv, LoadsTyped, TaskRow, Idle
    <2>4. CASE hset(t)
        BY <1>3, <2>4 DEF hset, LoadInv, LoadsTyped, TaskRow
    <2>5. CASE expire(t)
        BY <2>5 DEF expire, LoadInv, LoadsTyped, Idle
    <2> QED
        BY <2>1, <2>2, <2>3, <2>4, <2>5 DEF Load
<1> QED
    BY <1>1, <1>2, <1>4, LinksUntouched, NoEdit

\* An edit starts with what the role has, and with permissions that exist.
LEMMA EditStarts ==
    ASSUME LoadInv, LinkInv, Remember, NEW t \in Tasks, NEW r \in Roles, NEW want \in SUBSET Existing,
           NEW upsert \in BOOLEAN, NEW active \in BOOLEAN, EditRead(t, r, want, upsert, active)
    PROVE  LoadInv' /\ LinkInv'
<1>1. PICK f : f = [Idle EXCEPT !.at = "edit", !.role = r, !.was = GrantsOf(r), !.want = want,
                               !.upsert = upsert, !.active = active]
    OBVIOUS
<1>2. f \in TaskRow /\ f.at = "edit" /\ f.role = r /\ f.was = GrantsOf(r) /\ f.want = want
    BY <1>1 DEF Idle, TaskRow, Existing, GrantsOf
<1>3. task' = [task EXCEPT ![t] = f]
    BY <1>1 DEF EditRead
<1>4. /\ UNCHANGED <<roles, perms, grants, asked, mixed>> /\ CacheShrinks
      /\ \E e \in AdminEndpoints : Operation(e)
    BY DEF EditRead, rows, caches, CacheShrinks, AdminEndpoints
<1>5. LoadHolds(f)'
    BY <1>2 DEF LoadHolds, Loading
<1>6. LoadInv'
    BY <1>2, <1>3, <1>4, <1>5, OneTask, ShrunkCache
<1>7. EditHolds(f)'
    BY <1>2, <1>4 DEF EditHolds, Existing, GrantsOf
<1>8. \A x \in Tasks : x # t => task'[x] = task[x]
    BY <1>3 DEF LoadInv, LoadsTyped
<1>9. EditHolds(task[t])'
    BY <1>3, <1>7 DEF LoadInv, LoadsTyped
<1>10. LinkInv'
    BY <1>4, <1>8, <1>9, RowsStay, LinksUntouched
<1> QED
    BY <1>6, <1>10

\* Binding of roles to an account, step by step.
LEMMA BindSteps ==
    ASSUME LoadInv, LinkInv, Remember, NEW t \in Tasks,
           \/ \E u \in Users, want \in SUBSET Roles : bound[u] \subseteq Perms \cup Roles /\ BindRead(t, u, want)
           \/ BindClear(t)
           \/ BindCommit(t)
    PROVE  LoadInv' /\ LinkInv'
<1>1. task[t] \in TaskRow
    BY DEF LoadInv, LoadsTyped
<1>2. UNCHANGED <<roles, perms, grants, asked, mixed>>
    BY DEF BindRead, BindClear, BindCommit, rows
<1>3. UNCHANGED admitted \/ \E e \in AdminEndpoints : Operation(e)
    BY DEF BindRead, BindClear, BindCommit, AdminEndpoints
<1>4. CacheShrinks
    <2>1. UNCHANGED permCache \/ permCache' = [permCache EXCEPT ![task[t].user] = {}]
        BY DEF BindRead, BindClear, BindCommit, caches
    <2>2. permCache \in [Users -> SUBSET Perms]
        BY DEF LoadInv, LoadsTyped
    <2>3. task[t].user \notin Users => [permCache EXCEPT ![task[t].user] = {}] = permCache
        BY <2>2
    <2> QED
        BY <2>1, <2>3 DEF CacheShrinks
<1>5. PICK f \in TaskRow : task' = [task EXCEPT ![t] = f] /\ f.at \in {"idle", "bind", "bind_commit"}
    <2>1. ASSUME NEW u \in Users, NEW want \in SUBSET Roles, bound[u] \subseteq Perms \cup Roles,
                 BindRead(t, u, want)
          PROVE  \E f \in TaskRow : task' = [task EXCEPT ![t] = f] /\ f.at = "bind"
        <3>1. PICK f : f = [Idle EXCEPT !.at = "bind", !.user = u, !.was = bound[u], !.want = want]
            OBVIOUS
        <3>2. f \in TaskRow /\ f.at = "bind"
            BY <2>1, <3>1 DEF Idle, TaskRow
        <3> QED
            BY <2>1, <3>1, <3>2 DEF BindRead
    <2>2. CASE BindClear(t)
        <3>1. PICK f : f = [task[t] EXCEPT !.at = "bind_commit"]
            OBVIOUS
        <3>2. f \in TaskRow /\ f.at = "bind_commit"
            BY <1>1, <3>1 DEF TaskRow
        <3>3. task' = [task EXCEPT ![t] = f] \/ task' = [task EXCEPT ![t] = Idle]
            BY <2>2, <3>1 DEF BindClear
        <3> QED
            BY <3>2, <3>3, IdleTask
    <2>3. CASE BindCommit(t)
        BY <2>3, IdleTask DEF BindCommit
    <2> QED
        BY <2>1, <2>2, <2>3
<1>6. LoadHolds(f)'
    BY <1>5 DEF LoadHolds, Loading
<1>7. LoadInv'
    BY <1>3, <1>4, <1>5, <1>6, OneTask, ShrunkCache
<1>8. LinkInv'
    BY <1>2, <1>5, RowsStay, OneTaskNoEdit
<1> QED
    BY <1>7, <1>8

\* The tasks after a commit to role r.
LEMMA OvertakenTasks ==
    ASSUME LoadInv, NEW r
    PROVE  /\ Overtaken(r) \in [Tasks -> TaskRow]
           /\ \A t \in Tasks :
                /\ Overtaken(r)[t].at = task[t].at /\ Overtaken(r)[t].user = task[t].user
                /\ Overtaken(r)[t].codes = task[t].codes
                /\ task[t].role # r => Overtaken(r)[t] = task[t]
                /\ task[t].role = r => /\ Overtaken(r)[t].overlapped /\ Overtaken(r)[t].role = r
                                       /\ Overtaken(r)[t].want = task[t].want /\ Overtaken(r)[t].was = task[t].was
                                       /\ Overtaken(r)[t].lost = task[t].lost
<1>1. ASSUME NEW t \in Tasks
      PROVE  /\ Overtaken(r)[t] \in TaskRow
             /\ Overtaken(r)[t].at = task[t].at /\ Overtaken(r)[t].user = task[t].user
             /\ Overtaken(r)[t].codes = task[t].codes
             /\ task[t].role # r => Overtaken(r)[t] = task[t]
             /\ task[t].role = r => /\ Overtaken(r)[t].overlapped /\ Overtaken(r)[t].role = r
                                    /\ Overtaken(r)[t].want = task[t].want /\ Overtaken(r)[t].was = task[t].was
                                    /\ Overtaken(r)[t].lost = task[t].lost
    <2>1. task[t] \in TaskRow
        BY DEF LoadInv, LoadsTyped
    <2>2. CASE task[t].role = r
        <3>1. PICK f : f = [task[t] EXCEPT !.overlapped = TRUE]
            OBVIOUS
        <3>2. Overtaken(r)[t] = f
            BY <2>2, <3>1 DEF Overtaken
        <3>3. f \in TaskRow /\ f.at = task[t].at /\ f.user = task[t].user /\ f.codes = task[t].codes
              /\ f.overlapped /\ f.role = task[t].role /\ f.want = task[t].want /\ f.was = task[t].was
              /\ f.lost = task[t].lost
            BY <2>1, <3>1 DEF TaskRow
        <3> QED
            BY <2>2, <3>2, <3>3
    <2>3. CASE task[t].role # r
        BY <2>1, <2>3 DEF Overtaken
    <2> QED
        BY <2>2, <2>3
<1>2. Overtaken(r) = [t \in Tasks |-> Overtaken(r)[t]]
    BY DEF Overtaken
<1> QED
    BY <1>1, <1>2

\* The difference, applied to rows that are as they were read, leaves exactly
\* what was wanted; and it never touches another role.
LEMMA DifferenceIsExact ==
    ASSUME LinksTyped, NEW r \in Roles, NEW was \in SUBSET Perms, NEW want \in SUBSET Perms,
           NEW g, g = Replaced(r, was, want)
    PROVE  /\ g \subseteq Roles \X Perms
           /\ \A s \in Roles, p \in Perms : s # r => (<<s, p>> \in g <=> <<s, p>> \in grants)
           /\ \A p \in Perms : <<r, p>> \in g => <<r, p>> \in grants \/ p \in want \ was
           /\ was = GrantsOf(r) => {p \in Perms : <<r, p>> \in g} = want
    BY DEF LinksTyped, Replaced, GrantsOf

\* An edit is written: unless it was overtaken the role has what it wanted, and
\* every other edit of that role in flight is overtaken now.
LEMMA EditCommits ==
    ASSUME LoadInv, LinkInv, Remember, NEW t \in Tasks, EditCommit(t)
    PROVE  LoadInv' /\ LinkInv'
<1>1. PICK e : e = task[t]
    OBVIOUS
<1>2. e \in TaskRow /\ e.at = "edit" /\ EditHolds(e)
    BY <1>1 DEF EditCommit, LoadInv, LoadsTyped, LinkInv, EditsHold
<1>3. /\ e.role \in Roles /\ e.want \subseteq Existing /\ e.want \in SUBSET Perms /\ e.was \in SUBSET Perms
      /\ e.lost \in BOOLEAN /\ e.upsert \in BOOLEAN /\ e.active \in BOOLEAN /\ e.overlapped \in BOOLEAN
    BY <1>2 DEF EditHolds, Existing, TaskRow
<1>4. UNCHANGED <<permCache, admitted, perms>> /\ CacheShrinks
    BY DEF EditCommit, caches, CacheShrinks
<1>5. CASE ~(~e.lost /\ (e.upsert \/ roles[e.role].there \/ e.want \ e.was = {}))
    <2>1. task' = [task EXCEPT ![t] = Idle] /\ UNCHANGED <<grants, roles, asked, mixed>>
        BY <1>1, <1>5 DEF EditCommit
    <2>2. LoadInv'
        BY <1>4, <2>1, IdleTask, OneTask, ShrunkCache
    <2>3. LinkInv'
        BY <1>4, <2>1, IdleTask, RowsStay, OneTaskNoEdit
    <2> QED
        BY <2>2, <2>3
<1>6. CASE ~e.lost /\ (e.upsert \/ roles[e.role].there \/ e.want \ e.was = {})
    <2>1. /\ grants' = Replaced(e.role, e.was, e.want)
          /\ roles' = IF e.upsert THEN [roles EXCEPT ![e.role] = [there |-> TRUE, active |-> e.active,
                                          deleted |-> roles[e.role].there /\ roles[e.role].deleted]]
                      ELSE roles
          /\ asked' = [asked EXCEPT ![e.role] = e.want]
          /\ mixed' = IF e.overlapped THEN mixed \cup {e.role} ELSE mixed \ {e.role}
          /\ task' = [Overtaken(e.role) EXCEPT ![t] = Idle]
        BY <1>1, <1>6 DEF EditCommit
    <2>2. PICK over : over = Overtaken(e.role)
        OBVIOUS
    <2>3. /\ over \in [Tasks -> TaskRow]
          /\ \A x \in Tasks :
               /\ over[x].at = task[x].at /\ over[x].user = task[x].user /\ over[x].codes = task[x].codes
               /\ task[x].role # e.role => over[x] = task[x]
               /\ task[x].role = e.role => /\ over[x].overlapped /\ over[x].role = e.role
                                           /\ over[x].want = task[x].want /\ over[x].was = task[x].was
                                           /\ over[x].lost = task[x].lost
        BY <2>2, OvertakenTasks
    <2>4. /\ task' \in [Tasks -> TaskRow] /\ task'[t] = Idle
          /\ \A x \in Tasks : x # t => task'[x] = over[x]
        BY <2>1, <2>2, <2>3, IdleTask
    <2>5. LoadInv'
        <3>1. task' = [x \in Tasks |-> task'[x]]
            BY <2>4
        <3>2. \A x \in Tasks : /\ task'[x] \in TaskRow
                               /\ \/ task'[x].at \notin Loading
                                  \/ /\ task'[x].at = task[x].at /\ task'[x].user = task[x].user
                                     /\ task'[x].codes = task[x].codes
            BY <2>3, <2>4, IdleTask DEF Loading
        <3> QED
            BY <1>4, <3>1, <3>2, MarkedTasks
    <2>6. PICK g : g = Replaced(e.role, e.was, e.want)
        OBVIOUS
    <2>7. /\ g \subseteq Roles \X Perms
          /\ \A s \in Roles, p \in Perms : s # e.role => (<<s, p>> \in g <=> <<s, p>> \in grants)
          /\ \A p \in Perms : <<e.role, p>> \in g => <<e.role, p>> \in grants \/ p \in e.want \ e.was
          /\ e.was = GrantsOf(e.role) => {p \in Perms : <<e.role, p>> \in g} = e.want
        BY <1>3, <2>6, DifferenceIsExact DEF LinkInv
    <2>8. grants' = g
        BY <2>1, <2>6
    <2>9. /\ roles' \in [Roles -> AuthRole]
          /\ \A s \in Roles : roles[s].there => roles'[s].there
          /\ e.upsert => roles'[e.role].there
        <3>1. PICK row : row = [there |-> TRUE, active |-> e.active, deleted |-> roles[e.role].there /\ roles[e.role].deleted]
            OBVIOUS
        <3>2. row \in AuthRole /\ row.there
            BY <1>3, <3>1 DEF AuthRole
        <3>3. roles' = IF e.upsert THEN [roles EXCEPT ![e.role] = row] ELSE roles
            BY <2>1, <3>1
        <3> QED
            BY <1>3, <3>2, <3>3 DEF LinkInv, LinksTyped
    <2>10. LinksTyped'
        BY <1>3, <1>4, <2>1, <2>7, <2>8, <2>9 DEF LinkInv, LinksTyped
    <2>11. GrantsExist'
        <3>1. ASSUME NEW s \in Roles, NEW p \in Perms, <<s, p>> \in g PROVE roles'[s].there /\ perms[p].there
            <4>1. CASE <<s, p>> \in grants
                BY <2>9, <4>1 DEF LinkInv, GrantsExist
            <4>2. CASE <<s, p>> \notin grants
                <5>1. s = e.role /\ p \in e.want \ e.was
                    BY <2>7, <3>1, <4>2
                <5>2. roles'[s].there
                    BY <1>6, <2>9, <5>1
                <5>3. perms[p].there
                    BY <1>3, <5>1 DEF Existing
                <5> QED
                    BY <5>2, <5>3
            <4> QED
                BY <4>1, <4>2
        <3> QED
            BY <1>4, <2>8, <3>1 DEF GrantsExist
    <2>12. \A s \in Roles : s # e.role => GrantsOf(s)' = GrantsOf(s)
        BY <2>7, <2>8 DEF GrantsOf
    <2>13. EditIsExact'
        <3>1. ASSUME NEW s \in Roles \ mixed' PROVE GrantsOf(s)' = asked'[s]
            <4>1. CASE s # e.role
                <5>1. s \notin mixed /\ asked'[s] = asked[s]
                    BY <2>1, <3>1, <4>1 DEF LinkInv, LinksTyped
                <5> QED
                    BY <2>12, <4>1, <5>1 DEF LinkInv, EditIsExact
            <4>2. CASE s = e.role
                <5>1. ~e.overlapped /\ asked'[s] = e.want
                    BY <1>3, <2>1, <3>1, <4>2 DEF LinkInv, LinksTyped
                <5>2. e.was = GrantsOf(e.role)
                    BY <1>2, <1>6, <5>1 DEF EditHolds
                <5>3. GrantsOf(s)' = {p \in Perms : <<e.role, p>> \in g}
                    BY <2>8, <4>2 DEF GrantsOf
                <5> QED
                    BY <2>7, <5>1, <5>2, <5>3
            <4> QED
                BY <4>1, <4>2
        <3> QED
            BY <3>1 DEF EditIsExact
    <2>14. ASSUME NEW x \in Tasks PROVE EditHolds(task[x])'
        <3>1. CASE x = t
            BY <2>4, <3>1, IdleTask, NoEdit
        <3>2. CASE x # t /\ task[x].role # e.role
            <4>1. PICK f : f = task[x]
                OBVIOUS
            <4>2. EditHolds(f) /\ f.role # e.role /\ task'[x] = f
                BY <2>3, <2>4, <3>2, <4>1 DEF LinkInv, EditsHold
            <4>3. EditHolds(f)'
                BY <1>4, <2>12, <4>2 DEF EditHolds, Existing
            <4> QED
                BY <4>2, <4>3
        <3>3. CASE x # t /\ task[x].role = e.role
            <4>1. PICK f : f = task'[x]
                OBVIOUS
            <4>2. /\ f.at = task[x].at /\ f.overlapped /\ f.role = task[x].role
                  /\ f.want = task[x].want /\ f.was = task[x].was /\ EditHolds(task[x])
                BY <2>3, <2>4, <3>3, <4>1 DEF LinkInv, EditsHold
            <4>3. EditHolds(f)'
                BY <1>4, <4>2 DEF EditHolds, Existing
            <4> QED
                BY <4>1, <4>3
        <3> QED
            BY <3>1, <3>2, <3>3
    <2> QED
        BY <2>5, <2>10, <2>11, <2>13, <2>14 DEF LinkInv, EditsHold
<1> QED
    BY <1>5, <1>6

-----------------------------------------------------------------------------
(* The operations of one statement.                                        *)

\* What such an operation does to the loads: it leaves the cache alone, and the
\* tasks but for marks.
LEMMA SingleLoads ==
    ASSUME LoadInv, Remember, NEW endpoint \in AdminEndpoints, Operation(endpoint), UNCHANGED permCache,
           task' = [t \in Tasks |-> task'[t]],
           \A t \in Tasks : \E x : task'[t] \in {task[t], [task[t] EXCEPT !.overlapped = TRUE],
                                                 [task[t] EXCEPT !.lost = TRUE], Without(task[t], x)}
    PROVE  LoadInv'
<1>1. ASSUME NEW t \in Tasks
      PROVE  /\ task'[t] \in TaskRow /\ task'[t].at = task[t].at /\ task'[t].user = task[t].user
             /\ task'[t].codes = task[t].codes
    <2>1. task[t] \in TaskRow
        BY DEF LoadInv, LoadsTyped
    <2>2. PICK e : e = task[t]
        OBVIOUS
    <2>3. PICK f : f = task'[t]
        OBVIOUS
    <2>4. PICK x : f \in {e, [e EXCEPT !.overlapped = TRUE], [e EXCEPT !.lost = TRUE], Without(e, x)}
        BY <2>2, <2>3
    <2> QED
        BY <2>1, <2>2, <2>3, <2>4, MarkedTask
<1>2. CacheShrinks
    BY DEF CacheShrinks
<1> QED
    BY <1>1, <1>2, MarkedTasks

\* A role that is created has no links yet; an edit of an older role with the
\* same code is going to fail.
LEMMA RoleCreated ==
    ASSUME LoadInv, LinkInv, Remember, NEW r \in Roles, NEW active \in BOOLEAN, create_role(r, active)
    PROVE  LoadInv' /\ LinkInv'
<1>1. /\ ~roles[r].there /\ roles' = [roles EXCEPT ![r] = [Kept EXCEPT !.active = active]]
      /\ task' = [t \in Tasks |-> IF task[t].role = r THEN [task[t] EXCEPT !.lost = TRUE] ELSE task[t]]
      /\ UNCHANGED <<perms, mixed, permCache>>
    BY DEF create_role, Single, caches
<1>2. PICK want \in SUBSET Existing :
        grants' = grants \cup {<<r, p>> : p \in want} /\ asked' = [asked EXCEPT ![r] = want]
    BY DEF create_role
<1>3. LoadInv'
    <2>1. \A t \in Tasks : task'[t] \in {task[t], [task[t] EXCEPT !.lost = TRUE]}
        BY <1>1
    <2>2. task' = [t \in Tasks |-> task'[t]]
        BY <1>1
    <2>3. "create_role" \in AdminEndpoints /\ Operation("create_role")
        BY DEF create_role, AdminEndpoints
    <2> QED
        BY <1>1, <2>1, <2>2, <2>3, SingleLoads
<1>4. want \in SUBSET Perms
    BY DEF Existing
<1>5. /\ roles' \in [Roles -> AuthRole] /\ roles'[r].there
      /\ \A s \in Roles : s # r => roles'[s] = roles[s]
    BY <1>1 DEF LinkInv, LinksTyped, Kept, AuthRole
<1>6. LinksTyped'
    BY <1>1, <1>2, <1>4, <1>5 DEF LinkInv, LinksTyped
<1>7. GrantsExist'
    BY <1>1, <1>2, <1>5 DEF LinkInv, GrantsExist, Existing
<1>8. \A s \in Roles : s # r => GrantsOf(s)' = GrantsOf(s)
    BY <1>2 DEF GrantsOf
<1>9. GrantsOf(r)' = want
    BY <1>1, <1>2, <1>4 DEF LinkInv, GrantsExist, GrantsOf
<1>10. EditIsExact'
    BY <1>1, <1>2, <1>8, <1>9 DEF LinkInv, LinksTyped, EditIsExact
<1>11. ASSUME NEW t \in Tasks PROVE EditHolds(task[t])'
    <2>1. PICK f : f = task'[t]
        OBVIOUS
    <2>2. task[t] \in TaskRow /\ EditHolds(task[t])
        BY DEF LoadInv, LoadsTyped, LinkInv, EditsHold
    <2>3. CASE task[t].role # r
        <3>1. f = task[t]
            BY <1>1, <2>1, <2>3
        <3>2. EditHolds(f)'
            BY <1>1, <1>8, <2>2, <2>3, <3>1 DEF EditHolds, Existing
        <3> QED
            BY <2>1, <3>2
    <2>4. CASE task[t].role = r
        <3>1. f = [task[t] EXCEPT !.lost = TRUE]
            BY <1>1, <2>1, <2>4
        <3>2. f.at = task[t].at /\ f.role = task[t].role /\ f.want = task[t].want /\ f.was = task[t].was /\ f.lost
            BY <2>2, <3>1 DEF TaskRow
        <3>3. EditHolds(f)'
            BY <1>1, <2>2, <3>2 DEF EditHolds, Existing
        <3> QED
            BY <2>1, <3>3
    <2> QED
        BY <2>3, <2>4
<1> QED
    BY <1>3, <1>6, <1>7, <1>10, <1>11 DEF LinkInv, EditsHold

\* A role that is deleted for good loses its links, and its edits are overtaken.
LEMMA RoleDeleted ==
    ASSUME LoadInv, LinkInv, Remember, NEW r \in Roles, delete_role(r, TRUE)
    PROVE  LoadInv' /\ LinkInv'
<1>1. /\ roles' = [roles EXCEPT ![r] = [there |-> FALSE, active |-> FALSE, deleted |-> FALSE]]
      /\ grants' = {g \in grants : g[1] # r}
      /\ asked' = [asked EXCEPT ![r] = {}] /\ mixed' = mixed \ {r}
      /\ task' = [t \in Tasks |-> IF task[t].at \in {"bind", "bind_commit"}
                                   THEN Without(task[t], r) ELSE Overtaken(r)[t]]
      /\ UNCHANGED <<perms, permCache>>
    BY DEF delete_role, Single, caches
<1>2. ASSUME NEW t \in Tasks
      PROVE  \/ task'[t] = Without(task[t], r) /\ task[t].at # "edit"
             \/ task'[t] = [task[t] EXCEPT !.overlapped = TRUE] /\ task[t].role = r
             \/ task'[t] = task[t] /\ task[t].role # r
    BY <1>1 DEF Overtaken
<1>3. LoadInv'
    <2>1. task' = [t \in Tasks |-> task'[t]]
        BY <1>1
    <2>2. "delete_role" \in AdminEndpoints /\ Operation("delete_role")
        BY DEF delete_role, AdminEndpoints
    <2> QED
        BY <1>1, <1>2, <2>1, <2>2, SingleLoads
<1>4. /\ roles' \in [Roles -> AuthRole]
      /\ \A s \in Roles : s # r => roles'[s] = roles[s]
    BY <1>1 DEF LinkInv, LinksTyped, AuthRole
<1>5. LinksTyped'
    BY <1>1, <1>4 DEF LinkInv, LinksTyped
<1>6. \A s \in Roles, p \in Perms : <<s, p>> \in grants' <=> <<s, p>> \in grants /\ s # r
    BY <1>1
<1>7. GrantsExist'
    BY <1>1, <1>4, <1>6 DEF LinkInv, GrantsExist
<1>8. GrantsOf(r)' = {} /\ \A s \in Roles : s # r => GrantsOf(s)' = GrantsOf(s)
    BY <1>6 DEF GrantsOf
<1>9. EditIsExact'
    BY <1>1, <1>8 DEF LinkInv, LinksTyped, EditIsExact
<1>10. ASSUME NEW t \in Tasks PROVE EditHolds(task[t])'
    <2>1. PICK f : f = task'[t]
        OBVIOUS
    <2>2. task[t] \in TaskRow /\ EditHolds(task[t])
        BY DEF LoadInv, LoadsTyped, LinkInv, EditsHold
    <2>3. CASE f = Without(task[t], r) /\ task[t].at # "edit"
        <3>1. f.at = task[t].at
            BY <2>2, <2>3, MarkedTask
        <3> QED
            BY <2>1, <2>3, <3>1, NoEdit
    <2>4. CASE f = [task[t] EXCEPT !.overlapped = TRUE] /\ task[t].role = r
        <3>1. f.at = task[t].at /\ f.role = task[t].role /\ f.want = task[t].want /\ f.was = task[t].was /\ f.overlapped
            BY <2>2, <2>4 DEF TaskRow
        <3>2. EditHolds(f)'
            BY <1>1, <2>2, <3>1 DEF EditHolds, Existing
        <3> QED
            BY <2>1, <3>2
    <2>5. CASE f = task[t] /\ task[t].role # r
        <3>1. EditHolds(f)'
            BY <1>1, <1>8, <2>2, <2>5 DEF EditHolds, Existing
        <3> QED
            BY <2>1, <3>1
    <2> QED
        BY <1>2, <2>1, <2>3, <2>4, <2>5
<1> QED
    BY <1>3, <1>5, <1>7, <1>9, <1>10 DEF LinkInv, EditsHold

\* A role goes to the bin and comes back with its links.
LEMMA RoleBinned ==
    ASSUME LoadInv, LinkInv, Remember, NEW r \in Roles, delete_role(r, FALSE) \/ restore_role(r)
    PROVE  LoadInv' /\ LinkInv'
<1>1. /\ UNCHANGED <<perms, grants, asked, mixed, permCache, task>>
      /\ \E d \in BOOLEAN : roles' = [roles EXCEPT ![r].deleted = d]
    BY DEF delete_role, restore_role, Single, caches
<1>2. \E e \in {"delete_role", "restore_role"} : Operation(e)
    BY DEF delete_role, restore_role
<1>3. LoadInv'
    <2>1. task' = [t \in Tasks |-> task'[t]] /\ \A t \in Tasks : task'[t] = task[t]
        BY <1>1 DEF LoadInv, LoadsTyped
    <2>2. \E e \in AdminEndpoints : Operation(e)
        BY <1>2 DEF AdminEndpoints
    <2> QED
        BY <1>1, <2>1, <2>2, SingleLoads
<1>4. LinksStay
    BY <1>1 DEF LinkInv, LinksTyped, LinksStay, AuthRole
<1>5. LinkInv'
    BY <1>1, <1>4, LinksUntouched
<1> QED
    BY <1>3, <1>5

\* A permission that is saved stays with its links; one that is deleted for
\* good takes them along, out of the edits in flight too.
LEMMA PermissionSaved ==
    ASSUME LoadInv, LinkInv, Remember, NEW p \in Perms, NEW endpoint \in AdminEndpoints,
           NEW row \in AuthPermission, SavePermission(p, endpoint, row)
    PROVE  LoadInv' /\ LinkInv'
<1>1. /\ perms' = [perms EXCEPT ![p] = row]
      /\ grants' = IF row.there THEN grants ELSE {g \in grants : g[2] # p}
      /\ asked' = IF row.there THEN asked ELSE [r \in Roles |-> asked[r] \ {p}]
      /\ task' = IF row.there THEN task
                 ELSE [t \in Tasks |-> IF task[t].at = "edit" THEN Without(task[t], p) ELSE task[t]]
      /\ UNCHANGED <<roles, mixed, permCache>> /\ Operation(endpoint)
    BY DEF SavePermission, Single, caches
<1>2. task' = [t \in Tasks |-> task'[t]] /\ \A t \in Tasks : task'[t] \in {task[t], Without(task[t], p)}
    BY <1>1 DEF LoadInv, LoadsTyped
<1>3. LoadInv'
    BY <1>1, <1>2, SingleLoads
<1>4. /\ perms' \in [Perms -> AuthPermission] /\ perms'[p] = row
      /\ \A q \in Perms : q # p => perms'[q] = perms[q]
    BY <1>1 DEF LinkInv, LinksTyped
<1>5. LinksTyped'
    BY <1>1, <1>4 DEF LinkInv, LinksTyped
<1>6. \A r \in Roles, q \in Perms : <<r, q>> \in grants' <=> <<r, q>> \in grants /\ (row.there \/ q # p)
    BY <1>1
<1>7. GrantsExist'
    BY <1>1, <1>4, <1>6 DEF LinkInv, GrantsExist
<1>8. CASE row.there
    <2>1. UNCHANGED <<grants, asked, mixed, task>>
        BY <1>1, <1>8
    <2>2. EditIsExact'
        BY <2>1 DEF LinkInv, EditIsExact, GrantsOf
    <2>3. Existing \subseteq Existing'
        BY <1>4, <1>8 DEF Existing
    <2>4. EditsHold'
        BY <2>1, <2>3 DEF LinkInv, EditsHold, EditHolds, GrantsOf
    <2> QED
        BY <1>3, <1>5, <1>7, <2>2, <2>4 DEF LinkInv
<1>9. CASE ~row.there
    <2>1. \A r \in Roles : GrantsOf(r)' = GrantsOf(r) \ {p} /\ asked'[r] = asked[r] \ {p}
        BY <1>1, <1>6, <1>9 DEF GrantsOf
    <2>2. EditIsExact'
        BY <1>1, <2>1 DEF LinkInv, EditIsExact
    <2>3. Existing' = Existing \ {p}
        BY <1>4, <1>9 DEF Existing
    <2>4. ASSUME NEW t \in Tasks PROVE EditHolds(task[t])'
        <3>1. PICK f : f = task'[t]
            OBVIOUS
        <3>2. task[t] \in TaskRow /\ EditHolds(task[t])
            BY DEF LoadInv, LoadsTyped, LinkInv, EditsHold
        <3>3. CASE task[t].at # "edit"
            BY <1>1, <1>9, <3>3, NoEdit
        <3>4. CASE task[t].at = "edit"
            <4>1. f = Without(task[t], p)
                BY <1>1, <1>9, <3>1, <3>4
            <4>2. /\ f.at = "edit" /\ f.role = task[t].role /\ f.overlapped = task[t].overlapped
                  /\ f.was = task[t].was \ {p} /\ f.want = task[t].want \ {p}
                  /\ ~f.lost => ~task[t].lost
                BY <3>2, <3>4, <4>1 DEF Without, TaskRow
            <4>3. EditHolds(f)'
                BY <2>1, <2>3, <3>2, <3>4, <4>2 DEF EditHolds
            <4> QED
                BY <3>1, <4>3
        <3> QED
            BY <3>3, <3>4
    <2> QED
        BY <1>3, <1>5, <1>7, <2>2, <2>4 DEF LinkInv, EditsHold
<1> QED
    BY <1>8, <1>9

\* The four operations on permissions are such saves.
LEMMA PermissionSteps ==
    ASSUME LoadInv, LinkInv, Remember, NEW p \in Perms,
           \/ restore_permission(p)
           \/ \E flag \in BOOLEAN : create_permission(p, flag) \/ update_permission(p, flag) \/ delete_permission(p, flag)
    PROVE  LoadInv' /\ LinkInv'
<1>1. perms[p] \in AuthPermission
    BY DEF LinkInv, LinksTyped
<1>2. PICK endpoint \in {"create_permission", "restore_permission", "update_permission", "delete_permission"},
           row \in AuthPermission : SavePermission(p, endpoint, row)
    <2>1. ASSUME NEW flag \in BOOLEAN, create_permission(p, flag)
          PROVE  \E row \in AuthPermission : SavePermission(p, "create_permission", row)
        <3>1. [Kept EXCEPT !.active = flag] \in AuthPermission
            BY DEF Kept, AuthPermission, AuthRole
        <3> QED
            BY <2>1, <3>1 DEF create_permission
    <2>2. CASE restore_permission(p)
        <3>1. [perms[p] EXCEPT !.deleted = FALSE] \in AuthPermission
            BY <1>1 DEF AuthPermission, AuthRole
        <3> QED
            BY <2>2, <3>1 DEF restore_permission
    <2>3. ASSUME NEW flag \in BOOLEAN, update_permission(p, flag)
          PROVE  \E row \in AuthPermission : SavePermission(p, "update_permission", row)
        <3>1. [perms[p] EXCEPT !.active = flag] \in AuthPermission
            BY <1>1 DEF AuthPermission, AuthRole
        <3> QED
            BY <2>3, <3>1 DEF update_permission
    <2>4. ASSUME NEW flag \in BOOLEAN, delete_permission(p, flag)
          PROVE  \E row \in AuthPermission : SavePermission(p, "delete_permission", row)
        <3>1. /\ [there |-> FALSE, active |-> FALSE, deleted |-> FALSE] \in AuthPermission
              /\ [perms[p] EXCEPT !.deleted = TRUE] \in AuthPermission
            BY <1>1 DEF AuthPermission, AuthRole
        <3> QED
            BY <2>4, <3>1 DEF delete_permission
    <2> QED
        BY <2>1, <2>2, <2>3, <2>4
<1>3. endpoint \in AdminEndpoints
    BY <1>2 DEF AdminEndpoints
<1> QED
    BY <1>2, <1>3, PermissionSaved

\* Edits of resources and of accounts, and the two cached lists, leave the
\* tasks, the links and the codes as they are.
LEMMA OtherSteps ==
    ASSUME LoadInv, LinkInv, Remember,
           UNCHANGED <<task, permCache, roles, perms, grants, asked, mixed>>,
           UNCHANGED admitted \/ \E e \in AdminEndpoints : Operation(e)
    PROVE  LoadInv' /\ LinkInv'
<1>1. task' = [t \in Tasks |-> task'[t]] /\ \A t \in Tasks : task'[t] = task[t] /\ task'[t] \in TaskRow
    BY DEF LoadInv, LoadsTyped
<1>2. LoadInv'
    BY <1>1, MarkedTasks DEF CacheShrinks
<1>3. LinkInv'
    BY <1>1, RowsStay, LinksUntouched
<1> QED
    BY <1>2, <1>3

\* A request ends, or dies.
LEMMA TaskEnds ==
    ASSUME LoadInv, LinkInv, Remember, NEW t \in Tasks, expire(t) \/ Die(t)
    PROVE  LoadInv' /\ LinkInv'
<1>1. /\ task' = [task EXCEPT ![t] = Idle] /\ UNCHANGED <<roles, perms, grants, asked, mixed, admitted>>
      /\ CacheShrinks
    BY DEF expire, Die, rows, caches, CacheShrinks
<1> QED
    BY <1>1, IdleTask, OneTask, ShrunkCache, RowsStay, OneTaskNoEdit

\* A key expires.
LEMMA KeyDropped ==
    ASSUME LoadInv, LinkInv, Remember, NEW u \in Users, KeyExpires(u)
    PROVE  LoadInv' /\ LinkInv'
<1>1. UNCHANGED <<task, roles, perms, grants, asked, mixed, admitted>> /\ CacheShrinks
    BY DEF KeyExpires, rows, CacheShrinks
<1>2. task' = [t \in Tasks |-> task'[t]] /\ \A t \in Tasks : task'[t] = task[t] /\ task'[t] \in TaskRow
    BY <1>1 DEF LoadInv, LoadsTyped
<1>3. LoadInv'
    BY <1>1, <1>2, MarkedTasks
<1>4. LinkInv'
    BY <1>1, <1>2, RowsStay, LinksUntouched
<1> QED
    BY <1>3, <1>4

-----------------------------------------------------------------------------
(* The theorems.                                                           *)

\* Accounts and bindings keep their types.
LEMMA AccountsStay ==
    ASSUME AccountsTyped, LoadInv, AccessStep
    PROVE  AccountsTyped'
<1>1. CASE UNCHANGED <<users, bound>>
    BY <1>1 DEF AccountsTyped
<1>2. ASSUME NEW u \in Users, NEW flags \in Flags, update_user(u, flags) PROVE AccountsTyped'
    BY <1>2, AccessConstants DEF update_user, AccountsTyped
<1>3. ASSUME NEW t \in Tasks, BindCommit(t) PROVE AccountsTyped'
    <2>1. task[t] \in TaskRow
        BY DEF LoadInv, LoadsTyped
    <2>2. task[t].want \subseteq Perms \cup Roles
        BY <2>1 DEF TaskRow
    <2> QED
        BY <1>3, <2>2 DEF BindCommit, AccountsTyped
<1>4. ASSUME NEW r \in Roles, NEW permanent \in BOOLEAN, delete_role(r, permanent) PROVE AccountsTyped'
    BY <1>4 DEF delete_role, AccountsTyped
<1>5. ASSUME NEW t \in Tasks, Load(t) \/ Die(t) PROVE UNCHANGED <<users, bound>>
    BY <1>5 DEF Load, complete_admin_login, ReadPermissions, clear_user_permissions_cache, hset, expire, Die, rows
<1>6. ASSUME NEW t \in Tasks, EditLinks(t) PROVE UNCHANGED <<users, bound>> \/ BindCommit(t)
    BY <1>6 DEF EditLinks, EditRead, EditCommit, BindRead, BindClear, rows
<1>7. CASE Maintain
    <2>1. \/ UNCHANGED <<users, bound>>
          \/ \E u \in Users, flags \in Flags : update_user(u, flags)
          \/ \E r \in Roles, permanent \in BOOLEAN : delete_role(r, permanent)
        BY <1>7 DEF Maintain, create_role, restore_role, create_permission, restore_permission, update_permission,
           delete_permission, SavePermission, delete_resource, restore_resource, change_parent, update_resource,
           SaveResources, get_permission_list, rows
    <2> QED
        BY <1>1, <1>2, <1>4, <2>1
<1>8. ASSUME (\E u \in Users : KeyExpires(u)) \/ ListExpires PROVE UNCHANGED <<users, bound>>
    BY <1>8 DEF KeyExpires, ListExpires, rows
<1> QED
    BY <1>1, <1>3, <1>5, <1>6, <1>7, <1>8 DEF AccessStep

\* The steps of an administrator's single operations.
LEMMA MaintainKeeps ==
    ASSUME LoadInv, LinkInv, Remember, Maintain
    PROVE  LoadInv' /\ LinkInv'
<1>1. CASE \E r \in Roles : restore_role(r) \/ \E flag \in BOOLEAN : create_role(r, flag) \/ delete_role(r, flag)
    BY <1>1, RoleCreated, RoleDeleted, RoleBinned
<1>2. CASE \E p \in Perms :
             \/ restore_permission(p)
             \/ \E flag \in BOOLEAN : create_permission(p, flag) \/ update_permission(p, flag) \/ delete_permission(p, flag)
    BY <1>2, PermissionSteps
<1>3. CASE \/ \E x \in Moved : delete_resource(x) \/ restore_resource(x)
           \/ \E x \in Moved, y \in Resources \cup {NoResource} :
                  change_parent(x, y) \/ \E visible \in BOOLEAN : update_resource(x, y, visible)
    <2>1. PICK e \in {"delete_resource", "restore_resource", "change_resource_parent", "update_resource"} :
            \E new : SaveResources(e, new)
        BY <1>3 DEF delete_resource, restore_resource, change_parent, update_resource
    <2>2. e \in AdminEndpoints /\ Operation(e) /\ UNCHANGED <<task, permCache, roles, perms, grants, asked, mixed>>
        BY <2>1 DEF AdminEndpoints, SaveResources, Single, caches
    <2> QED
        BY <2>2, OtherSteps
<1>4. CASE (\E u \in Users, flags \in Flags : update_user(u, flags)) \/ get_permission_list
    <2>1. /\ UNCHANGED <<task, permCache, roles, perms, grants, asked, mixed>>
          /\ \E e \in {"update_user", "get_permission_list"} : Operation(e)
        BY <1>4 DEF update_user, get_permission_list, Single, caches, rows
    <2>2. \E e \in AdminEndpoints : Operation(e)
        BY <2>1 DEF AdminEndpoints
    <2> QED
        BY <2>1, <2>2, OtherSteps
<1> QED
    BY <1>1, <1>2, <1>3, <1>4 DEF Maintain

\* Every step keeps the invariant.
LEMMA NextAccess == AccessInv /\ [AccessNext]_accessVars => AccessInv'
<1>1. SUFFICES ASSUME AccessInv, [AccessNext]_accessVars PROVE AccessInv'
    OBVIOUS
<1>2. AccountsTyped /\ LoadInv /\ LinkInv
    BY <1>1 DEF AccessInv
<1>3. CASE AccessNext
    <2>1. AccessStep /\ Remember
        BY <1>3 DEF AccessNext
    <2>2. ASSUME NEW t \in Tasks, Load(t) PROVE LoadInv' /\ LinkInv'
        BY <1>2, <2>1, <2>2, LoginLoads, ReadLoads, ClearLoads, FillLoads, TaskEnds, LoadLinks DEF Load
    <2>3. ASSUME NEW t \in Tasks, EditLinks(t) PROVE LoadInv' /\ LinkInv'
        <3>1. CASE \E r \in Roles, want \in SUBSET Existing, upsert, active \in BOOLEAN : EditRead(t, r, want, upsert, active)
            BY <1>2, <2>1, <3>1, EditStarts
        <3>2. CASE EditCommit(t)
            BY <1>2, <2>1, <3>2, EditCommits
        <3>3. ASSUME NEW u \in Users, NEW want \in SUBSET {r \in Roles : roles[r].there}, BindRead(t, u, want)
              PROVE  LoadInv' /\ LinkInv'
            <4>1. want \in SUBSET Roles /\ bound[u] \subseteq Perms \cup Roles
                BY <1>2 DEF AccountsTyped
            <4> QED
                BY <1>2, <2>1, <3>3, <4>1, BindSteps
        <3>4. CASE BindClear(t) \/ BindCommit(t)
            BY <1>2, <2>1, <3>4, BindSteps
        <3> QED
            BY <2>3, <3>1, <3>2, <3>3, <3>4 DEF EditLinks
    <2>4. ASSUME ListExpires PROVE LoadInv' /\ LinkInv'
        <3>1. UNCHANGED <<task, permCache, roles, perms, grants, asked, mixed, admitted>>
            BY <2>4 DEF ListExpires, rows
        <3> QED
            BY <1>2, <2>1, <3>1, OtherSteps
    <2>5. LoadInv' /\ LinkInv'
        BY <1>2, <2>1, <2>2, <2>3, <2>4, TaskEnds, KeyDropped, MaintainKeeps DEF AccessStep, AccessInv
    <2> QED
        BY <1>2, <2>1, <2>5, AccountsStay DEF AccessInv
<1>4. CASE UNCHANGED accessVars
    <2>1. UNCHANGED <<users, roles, perms, grants, bound, permCache, task, held, admitted, asked, mixed>>
        BY <1>4 DEF accessVars, rows, caches, history
    <2>2. AccountsTyped'
        BY <1>2, <2>1 DEF AccountsTyped
    <2>3. LoadInv'
        BY <1>2, <2>1 DEF LoadInv, LoadsTyped, LoadsHold, LoadHolds, AdmittedOnHeldCode
    <2>4. LinkInv'
        <3>1. \A t \in Tasks : task'[t] = task[t]
            BY <2>1
        <3> QED
            BY <1>2, <2>1, <3>1, RowsStay, LinksUntouched
    <2> QED
        BY <2>2, <2>3, <2>4 DEF AccessInv
<1> QED
    BY <1>1, <1>3, <1>4

\* It holds of the seed.
LEMMA InitAccess == AccessInit => AccessInv
<1>1. SUFFICES ASSUME AccessInit PROVE AccessInv
    OBVIOUS
<1>2. AccountsTyped
    <2>1. {[able |-> TRUE, admin |-> TRUE, super |-> s] : s \in BOOLEAN}
            \subseteq [able : BOOLEAN, admin : BOOLEAN, super : BOOLEAN]
        <3>1. ASSUME NEW s \in BOOLEAN
              PROVE  [able |-> TRUE, admin |-> TRUE, super |-> s] \in [able : BOOLEAN, admin : BOOLEAN, super : BOOLEAN]
            OBVIOUS
        <3> QED
            BY <3>1, Zenon
    <2>2. users \in [Users -> {[able |-> TRUE, admin |-> TRUE, super |-> s] : s \in BOOLEAN}]
        BY <1>1 DEF AccessInit
    <2>3. users \in [Users -> [able : BOOLEAN, admin : BOOLEAN, super : BOOLEAN]]
        BY <2>1, <2>2
    <2>4. bound \in [Users -> SUBSET (Perms \cup Roles)]
        BY <1>1 DEF AccessInit
    <2> QED
        BY <2>3, <2>4 DEF AccountsTyped
<1>3. LoadInv
    BY <1>1, IdleTask DEF AccessInit, LoadInv, LoadsTyped, LoadsHold, LoadHolds, Loading, AdmittedOnHeldCode
<1>4. Kept \in AuthRole /\ Kept.there /\ AuthPermission = AuthRole
    BY DEF Kept, AuthRole, AuthPermission
<1>5. LinksTyped /\ GrantsExist
    BY <1>1, <1>4, AccessConstants DEF AccessInit, LinksTyped, GrantsExist
<1>6. EditIsExact
    BY <1>1 DEF AccessInit, EditIsExact, GrantsOf
<1>7. EditsHold
    BY <1>1, IdleTask DEF AccessInit, EditsHold, EditHolds
<1> QED
    BY <1>2, <1>3, <1>5, <1>6, <1>7 DEF AccessInv, LinkInv

\* So it always holds.
LEMMA AccessInvariant == AccessSpec => []AccessInv
    BY InitAccess, NextAccess, PTL DEF AccessSpec

\* An administrator who is not a superuser is let through only on a code he was
\* entitled to at some time: loads that overlap each other, edits of the rows,
\* expiry and dying workers never put another code into the cache.
THEOREM CacheInventsNothing == AccessSpec => []AdmittedOnHeldCode
<1>1. AccessInv => AdmittedOnHeldCode
    BY DEF AccessInv, LoadInv
<1> QED
    BY <1>1, AccessInvariant, PTL

\* A role that no two overlapping edits wrote has exactly the permissions its
\* last edit asked for, less those deleted since.
THEOREM EditsAreExact == AccessSpec => []EditIsExact
<1>1. AccessInv => EditIsExact
    BY DEF AccessInv, LinkInv
<1> QED
    BY <1>1, AccessInvariant, PTL

-----------------------------------------------------------------------------
(* The rows and the keys.                                                  *)

\* The roles with a row.
Present == {r \in Roles : roles[r].there}

\* An account has, and a binding in flight wants, only roles with a row.
BindHolds(e) == e.at \in {"bind", "bind_commit"} => e.want \subseteq Present

BindingsHold == /\ \A u \in Users : bound[u] \subseteq Present
                /\ \A t \in Tasks : BindHolds(task[t])

ResourcesTyped == resources \in [Resources -> AuthResource]

\* A key that is going to expire exists.
KeysLive ==
  /\ permTTL \in [Users -> BOOLEAN]
  /\ \A u \in Users : permTTL[u] => permCache[u] # {}

ShapeInv == BindingsHold /\ ResourcesTyped /\ KeysLive

\* A step that leaves the keys alone.
LEMMA KeysUntouched ==
    ASSUME KeysLive, UNCHANGED <<permCache, permTTL>>
    PROVE  KeysLive'
    BY DEF KeysLive

\* A key that is deleted has no lifetime left.
LEMMA KeyCleared ==
    ASSUME LoadInv, KeysLive, NEW u, permCache' = [permCache EXCEPT ![u] = {}], permTTL' = [permTTL EXCEPT ![u] = FALSE]
    PROVE  KeysLive'
    BY DEF KeysLive, LoadInv, LoadsTyped

\* No step leaves an expiry without its key, or takes the key from under one.
LEMMA KeysStay ==
    ASSUME LoadInv, KeysLive, AccessStep
    PROVE  KeysLive'
<1>1. permCache \in [Users -> SUBSET Perms]
    BY DEF LoadInv, LoadsTyped
<1>2. ASSUME NEW t \in Tasks, Load(t) PROVE KeysLive'
    <2>1. ASSUME hset(t) PROVE KeysLive'
        <3>1. PICK code : permCache' = [permCache EXCEPT ![task[t].user] = @ \cup {code}] /\ permTTL' = permTTL
            BY <2>1 DEF hset
        <3>2. \A u \in Users : permCache[u] # {} => permCache'[u] # {}
            BY <1>1, <3>1
        <3> QED
            BY <3>1, <3>2 DEF KeysLive
    <2>2. ASSUME expire(t) PROVE KeysLive'
        <3>1. permTTL' = [permTTL EXCEPT ![task[t].user] = permCache[task[t].user] # {}] /\ permCache' = permCache
            BY <2>2 DEF expire
        <3>2. PICK live \in BOOLEAN : live = (permCache[task[t].user] # {})
            OBVIOUS
        <3>3. PICK owner : owner = task[t].user
            OBVIOUS
        <3>4. permTTL' = [permTTL EXCEPT ![owner] = live]
            BY <3>1, <3>2, <3>3
        <3>5. \A u \in Users : permTTL'[u] = IF u = owner THEN live ELSE permTTL[u]
            BY <3>4 DEF KeysLive
        <3>6. permTTL' \in [Users -> BOOLEAN]
            BY <3>2, <3>4 DEF KeysLive
        <3> QED
            BY <3>1, <3>2, <3>3, <3>5, <3>6 DEF KeysLive
    <2> QED
        BY <1>2, <2>1, <2>2, KeysUntouched, KeyCleared
           DEF Load, complete_admin_login, ReadPermissions, clear_user_permissions_cache, caches
<1>3. ASSUME NEW t \in Tasks, EditLinks(t) PROVE KeysLive'
    BY <1>3, KeysUntouched, KeyCleared DEF EditLinks, EditRead, EditCommit, BindRead, BindClear, BindCommit, caches
<1>4. ASSUME NEW t \in Tasks, Die(t) PROVE KeysLive'
    BY <1>4, KeysUntouched DEF Die, caches
<1>5. ASSUME Maintain PROVE KeysLive'
    <2>1. UNCHANGED <<permCache, permTTL>>
        BY <1>5 DEF Maintain, create_role, restore_role, delete_role, create_permission, restore_permission,
           update_permission, delete_permission, SavePermission, delete_resource, restore_resource, change_parent,
           update_resource, SaveResources, update_user, get_permission_list, Single, caches
    <2> QED
        BY <2>1, KeysUntouched
<1>6. ASSUME NEW u \in Users, KeyExpires(u) PROVE KeysLive'
    BY <1>6, KeyCleared DEF KeyExpires
<1>7. ASSUME ListExpires PROVE KeysLive'
    BY <1>7, KeysUntouched DEF ListExpires
<1> QED
    BY <1>2, <1>3, <1>4, <1>5, <1>6, <1>7 DEF AccessStep

\* A resource that is saved keeps its type.
LEMMA ResourcesStay ==
    ASSUME ResourcesTyped, AccessStep
    PROVE  ResourcesTyped'
<1>1. CASE UNCHANGED resources
    BY <1>1 DEF ResourcesTyped
<1>2. ASSUME NEW x \in Moved, delete_resource(x) \/ restore_resource(x) PROVE ResourcesTyped'
    <2>1. PICK flag \in BOOLEAN : resources' = Binned(x, flag)
        BY <1>2 DEF delete_resource, restore_resource, SaveResources
    <2>2. \A y \in Resources : resources[y] \in AuthResource /\ [resources[y] EXCEPT !.deleted = flag] \in AuthResource
        BY DEF ResourcesTyped, AuthResource
    <2> QED
        BY <2>1, <2>2 DEF Binned, ResourcesTyped
<1>3. ASSUME NEW x \in Moved, NEW y \in Resources \cup {NoResource},
             change_parent(x, y) \/ \E visible \in BOOLEAN : update_resource(x, y, visible)
      PROVE  ResourcesTyped'
    <2>1. x \in Resources /\ resources[x] \in AuthResource
        BY AccessConstants DEF ResourcesTyped
    <2>2. CASE change_parent(x, y)
        <3>1. [resources[x] EXCEPT !.pid = y] \in AuthResource
            BY <2>1 DEF AuthResource
        <3>2. resources' = [resources EXCEPT ![x] = [resources[x] EXCEPT !.pid = y]]
            BY <2>1, <2>2 DEF change_parent, SaveResources, ResourcesTyped
        <3> QED
            BY <2>1, <3>1, <3>2 DEF ResourcesTyped
    <2>3. ASSUME NEW visible \in BOOLEAN, update_resource(x, y, visible) PROVE ResourcesTyped'
        <3>1. PICK row : row = [[resources[x] EXCEPT !.pid = y] EXCEPT !.visible = visible]
            OBVIOUS
        <3>2. row \in AuthResource
            BY <2>1, <3>1 DEF AuthResource
        <3>3. resources' = [resources EXCEPT ![x] = row]
            BY <2>1, <2>3, <3>1 DEF update_resource, SaveResources, ResourcesTyped
        <3> QED
            BY <2>1, <3>2, <3>3 DEF ResourcesTyped
    <2> QED
        BY <1>3, <2>2, <2>3
<1>4. ASSUME NEW t \in Tasks, Load(t) \/ EditLinks(t) \/ Die(t) PROVE UNCHANGED resources
    BY <1>4 DEF Load, complete_admin_login, ReadPermissions, clear_user_permissions_cache, hset, expire, Die,
       EditLinks, EditRead, EditCommit, BindRead, BindClear, BindCommit, rows
<1>5. ASSUME Maintain
      PROVE  \/ UNCHANGED resources
             \/ \E x \in Moved : delete_resource(x) \/ restore_resource(x)
             \/ \E x \in Moved, y \in Resources \cup {NoResource} :
                    change_parent(x, y) \/ \E visible \in BOOLEAN : update_resource(x, y, visible)
    BY <1>5 DEF Maintain, create_role, restore_role, delete_role, create_permission, restore_permission,
       update_permission, delete_permission, SavePermission, update_user, get_permission_list, rows
<1>6. ASSUME (\E u \in Users : KeyExpires(u)) \/ ListExpires PROVE UNCHANGED resources
    BY <1>6 DEF KeyExpires, ListExpires, rows
<1> QED
    BY <1>1, <1>2, <1>3, <1>4, <1>5, <1>6 DEF AccessStep

\* No role loses its row, no account gets one, and the bindings go on as they are.
LEMMA BindingsUntouched ==
    ASSUME BindingsHold, Present \subseteq Present', UNCHANGED bound,
           \A t \in Tasks : task'[t].at \in {"bind", "bind_commit"} =>
             task[t].at \in {"bind", "bind_commit"} /\ task'[t].want = task[t].want
    PROVE  BindingsHold'
<1>1. ASSUME NEW t \in Tasks PROVE BindHolds(task[t])'
    <2>1. BindHolds(task[t])
        BY DEF BindingsHold
    <2> QED
        BY <2>1 DEF BindHolds
<1> QED
    BY <1>1 DEF BindingsHold

\* One task goes on, and still wants nothing else.
LEMMA OneBinding ==
    ASSUME LoadInv, BindingsHold, Present \subseteq Present', UNCHANGED bound,
           NEW t \in Tasks, NEW f, task' = [task EXCEPT ![t] = f],
           f.at \in {"bind", "bind_commit"} => f.want \subseteq Present
    PROVE  BindingsHold'
<1>1. task \in [Tasks -> TaskRow]
    BY DEF LoadInv, LoadsTyped
<1>2. ASSUME NEW x \in Tasks PROVE BindHolds(task[x])'
    <2>1. CASE x = t
        <3>1. task'[x] = f
            BY <1>1, <2>1
        <3> QED
            BY <3>1 DEF BindHolds
    <2>2. CASE x # t
        <3>1. task'[x] = task[x] /\ BindHolds(task[x])
            BY <1>1, <2>2 DEF BindingsHold
        <3> QED
            BY <3>1 DEF BindHolds
    <2> QED
        BY <2>1, <2>2
<1> QED
    BY <1>2 DEF BindingsHold

\* The roles with a row are still those when no role changed.
LEMMA SameRoles == ASSUME UNCHANGED roles PROVE Present \subseteq Present'
    BY DEF Present

\* A role that is deleted for good goes out of the accounts and of the bindings
\* in flight.
LEMMA DeletedUnbound ==
    ASSUME LoadInv, LinkInv, BindingsHold, NEW r \in Roles, delete_role(r, TRUE)
    PROVE  BindingsHold'
<1>1. /\ roles' = [roles EXCEPT ![r] = [there |-> FALSE, active |-> FALSE, deleted |-> FALSE]]
      /\ bound' = [u \in Users |-> bound[u] \ {r}]
      /\ task' = [t \in Tasks |-> IF task[t].at \in {"bind", "bind_commit"}
                                   THEN Without(task[t], r) ELSE Overtaken(r)[t]]
    BY DEF delete_role
<1>2. Present' = Present \ {r}
    BY <1>1 DEF Present, LinkInv, LinksTyped
<1>3. ASSUME NEW t \in Tasks PROVE BindHolds(task[t])'
    <2>1. task[t] \in TaskRow /\ BindHolds(task[t])
        BY DEF LoadInv, LoadsTyped, BindingsHold
    <2>2. PICK f : f = task'[t]
        OBVIOUS
    <2>3. CASE task[t].at \in {"bind", "bind_commit"}
        <3>1. f = Without(task[t], r)
            BY <1>1, <2>2, <2>3
        <3>2. f.want = task[t].want \ {r}
            BY <2>1, <3>1 DEF Without, TaskRow
        <3>3. f.want \subseteq Present'
            BY <1>2, <2>1, <2>3, <3>2 DEF BindHolds
        <3> QED
            BY <2>2, <3>3 DEF BindHolds
    <2>4. CASE task[t].at \notin {"bind", "bind_commit"}
        <3>1. f = Overtaken(r)[t]
            BY <1>1, <2>2, <2>4
        <3>2. f.at = task[t].at
            BY <3>1, OvertakenTasks
        <3> QED
            BY <2>2, <2>4, <3>2 DEF BindHolds
    <2> QED
        BY <2>3, <2>4
<1>4. \A u \in Users : bound'[u] \subseteq Present'
    BY <1>1, <1>2 DEF BindingsHold
<1> QED
    BY <1>3, <1>4 DEF BindingsHold

\* The other edits of roles leave every row of a role where it is.
LEMMA MaintainBindings ==
    ASSUME LoadInv, LinkInv, BindingsHold, Maintain
    PROVE  BindingsHold'
<1>1. task \in [Tasks -> TaskRow] /\ roles \in [Roles -> AuthRole]
    BY DEF LoadInv, LoadsTyped, LinkInv, LinksTyped
<1>2. ASSUME NEW r \in Roles, NEW active \in BOOLEAN, create_role(r, active) PROVE BindingsHold'
    <2>1. /\ roles' = [roles EXCEPT ![r] = [Kept EXCEPT !.active = active]] /\ UNCHANGED bound
          /\ task' = [t \in Tasks |-> IF task[t].role = r THEN [task[t] EXCEPT !.lost = TRUE] ELSE task[t]]
        BY <1>2 DEF create_role
    <2>2. Present \subseteq Present'
        BY <1>1, <2>1 DEF Present, Kept
    <2>3. ASSUME NEW t \in Tasks PROVE task'[t].at = task[t].at /\ task'[t].want = task[t].want
        <3>1. task[t] \in TaskRow /\ task'[t] \in {task[t], [task[t] EXCEPT !.lost = TRUE]}
            BY <1>1, <2>1
        <3> QED
            BY <3>1 DEF TaskRow
    <2> QED
        BY <2>1, <2>2, <2>3, BindingsUntouched
<1>3. ASSUME NEW r \in Roles, delete_role(r, FALSE) \/ restore_role(r) PROVE BindingsHold'
    <2>1. PICK d \in BOOLEAN : roles' = [roles EXCEPT ![r].deleted = d] /\ UNCHANGED <<bound, task>>
        BY <1>3 DEF delete_role, restore_role
    <2>2. Present \subseteq Present'
        BY <1>1, <2>1 DEF Present, AuthRole
    <2> QED
        BY <2>1, <2>2, BindingsUntouched
<1>4. ASSUME NEW p \in Perms, NEW endpoint, NEW row, SavePermission(p, endpoint, row) PROVE BindingsHold'
    <2>1. UNCHANGED <<roles, bound>>
        BY <1>4 DEF SavePermission
    <2>2. ASSUME NEW t \in Tasks, task'[t].at \in {"bind", "bind_commit"}
          PROVE  task'[t] = task[t]
        <3>1. task'[t] = IF row.there \/ task[t].at # "edit" THEN task[t] ELSE Without(task[t], p)
            BY <1>1, <1>4 DEF SavePermission
        <3>2. Without(task[t], p).at = task[t].at
            BY <1>1, MarkedTask
        <3> QED
            BY <2>2, <3>1, <3>2
    <2> QED
        BY <2>1, <2>2, SameRoles, BindingsUntouched
<1>5. ASSUME UNCHANGED <<roles, bound, task>> PROVE BindingsHold'
    BY <1>5, SameRoles, BindingsUntouched
<1>6. \/ \E r \in Roles : restore_role(r) \/ \E flag \in BOOLEAN : create_role(r, flag) \/ delete_role(r, flag)
      \/ \E p \in Perms : \E endpoint, row : SavePermission(p, endpoint, row)
      \/ UNCHANGED <<roles, bound, task>>
    BY DEF Maintain, create_permission, restore_permission, update_permission, delete_permission, delete_resource,
       restore_resource, change_parent, update_resource, SaveResources, update_user, get_permission_list, rows
<1> QED
    BY <1>2, <1>3, <1>4, <1>5, <1>6, DeletedUnbound

\* What a binding wants has a row when it is read, and when it is committed.
LEMMA BindingsStay ==
    ASSUME LoadInv, LinkInv, BindingsHold, AccessStep
    PROVE  BindingsHold'
<1>1. task \in [Tasks -> TaskRow] /\ roles \in [Roles -> AuthRole]
    BY DEF LoadInv, LoadsTyped, LinkInv, LinksTyped
<1>2. Idle.at = "idle"
    BY DEF Idle
<1>3. ASSUME NEW t \in Tasks, Load(t) \/ Die(t) PROVE BindingsHold'
    <2>1. UNCHANGED <<roles, bound>>
        BY <1>3 DEF Load, complete_admin_login, ReadPermissions, clear_user_permissions_cache, hset, expire, Die, rows
    <2>2. \A x \in Tasks : x # t => task'[x] = task[x]
        BY <1>1, <1>3 DEF Load, complete_admin_login, ReadPermissions, clear_user_permissions_cache, hset, expire, Die
    <2>3. task'[t].at \notin {"bind", "bind_commit"}
        <3>1. task[t] \in TaskRow
            BY <1>1
        <3>2. ASSUME NEW u \in Users, complete_admin_login(t, u) PROVE task'[t].at \notin {"bind", "bind_commit"}
            BY <1>1, <3>2 DEF complete_admin_login, Idle
        <3>3. CASE ReadPermissions(t)
            BY <1>1, <3>1, <3>3 DEF ReadPermissions, TaskRow
        <3>4. CASE clear_user_permissions_cache(t)
            BY <1>1, <3>1, <3>4 DEF clear_user_permissions_cache, TaskRow, Idle
        <3>5. CASE hset(t)
            BY <1>1, <3>1, <3>5 DEF hset, TaskRow
        <3>6. CASE expire(t) \/ Die(t)
            BY <1>1, <3>6 DEF expire, Die, Idle
        <3> QED
            BY <1>3, <3>2, <3>3, <3>4, <3>5, <3>6 DEF Load
    <2> QED
        BY <2>1, <2>2, <2>3, SameRoles, BindingsUntouched
<1>4. ASSUME NEW t \in Tasks, NEW r \in Roles, NEW want, NEW upsert, NEW active,
             EditRead(t, r, want, upsert, active)
      PROVE  BindingsHold'
    <2>1. PICK f : f = [Idle EXCEPT !.at = "edit", !.role = r, !.was = GrantsOf(r), !.want = want,
                                   !.upsert = upsert, !.active = active]
        OBVIOUS
    <2>2. f.at = "edit" /\ task' = [task EXCEPT ![t] = f] /\ UNCHANGED <<roles, bound>>
        BY <1>4, <2>1 DEF EditRead, Idle, rows
    <2> QED
        BY <2>2, SameRoles, OneBinding
<1>5. ASSUME NEW t \in Tasks, EditCommit(t) PROVE BindingsHold'
    <2>1. PICK e : e = task[t]
        OBVIOUS
    <2>2. UNCHANGED bound
        BY <1>5 DEF EditCommit
    <2>3. Present \subseteq Present'
        <3>1. \/ roles' = roles
              \/ \E row : row.there /\ roles' = [roles EXCEPT ![e.role] = row]
            BY <1>5, <2>1 DEF EditCommit
        <3> QED
            BY <1>1, <3>1 DEF Present
    <2>4. CASE task' = [task EXCEPT ![t] = Idle]
        BY <1>2, <2>2, <2>3, <2>4, OneBinding
    <2>5. CASE task' = [Overtaken(e.role) EXCEPT ![t] = Idle]
        <3>1. PICK over : over = Overtaken(e.role)
            OBVIOUS
        <3>2. over \in [Tasks -> TaskRow] /\ \A x \in Tasks : over[x].at = task[x].at /\ over[x].want = task[x].want
            BY <3>1, OvertakenTasks
        <3>3. task' = [over EXCEPT ![t] = Idle]
            BY <2>5, <3>1
        <3>4. \A x \in Tasks : task'[x].at \in {"bind", "bind_commit"} =>
                 task[x].at \in {"bind", "bind_commit"} /\ task'[x].want = task[x].want
            BY <1>2, <3>2, <3>3
        <3> QED
            BY <2>2, <2>3, <3>4, BindingsUntouched
    <2> QED
        BY <1>5, <2>1, <2>4, <2>5 DEF EditCommit
<1>6. ASSUME NEW t \in Tasks, NEW u \in Users, NEW want \in SUBSET {r \in Roles : roles[r].there}, BindRead(t, u, want)
      PROVE  BindingsHold'
    <2>1. PICK f : f = [Idle EXCEPT !.at = "bind", !.user = u, !.was = bound[u], !.want = want]
        OBVIOUS
    <2>2. f.want = want /\ task' = [task EXCEPT ![t] = f] /\ UNCHANGED <<roles, bound>>
        BY <1>6, <2>1 DEF BindRead, Idle, rows
    <2>3. f.want \subseteq Present
        BY <2>2 DEF Present
    <2> QED
        BY <2>2, <2>3, SameRoles, OneBinding
<1>7. ASSUME NEW t \in Tasks, BindClear(t) PROVE BindingsHold'
    <2>1. task[t] \in TaskRow /\ task[t].at = "bind" /\ BindHolds(task[t])
        BY <1>1, <1>7 DEF BindClear, BindingsHold
    <2>2. PICK f : f = [task[t] EXCEPT !.at = "bind_commit"]
        OBVIOUS
    <2>3. f.want \subseteq Present
        BY <2>1, <2>2 DEF BindHolds, TaskRow
    <2>4. UNCHANGED <<roles, bound>> /\ (task' = [task EXCEPT ![t] = f] \/ task' = [task EXCEPT ![t] = Idle])
        BY <1>1, <1>7, <2>2 DEF BindClear, rows
    <2> QED
        BY <1>2, <2>3, <2>4, SameRoles, OneBinding
<1>8. ASSUME NEW t \in Tasks, BindCommit(t) PROVE BindingsHold'
    <2>1. PICK e : e = task[t]
        OBVIOUS
    <2>2. e.want \subseteq Present
        BY <1>8, <2>1 DEF BindCommit, BindingsHold, BindHolds
    <2>3. bound' = [bound EXCEPT ![e.user] = (@ \cup (e.want \ e.was)) \ (e.was \ e.want)]
          /\ task' = [task EXCEPT ![t] = Idle] /\ UNCHANGED roles
        BY <1>8, <2>1 DEF BindCommit
    <2>4. Present' = Present
        BY <2>3 DEF Present
    <2>5. \A u \in Users : bound'[u] \subseteq Present'
        BY <2>2, <2>3, <2>4 DEF BindingsHold
    <2>6. ASSUME NEW x \in Tasks PROVE BindHolds(task[x])'
        <3>1. task'[x] = Idle \/ (task'[x] = task[x] /\ BindHolds(task[x]))
            BY <1>1, <2>3 DEF BindingsHold
        <3> QED
            BY <1>2, <2>4, <3>1 DEF BindHolds
    <2> QED
        BY <2>5, <2>6 DEF BindingsHold
<1>9. ASSUME (\E u \in Users : KeyExpires(u)) \/ ListExpires PROVE BindingsHold'
    <2>1. UNCHANGED <<roles, bound, task>>
        BY <1>9 DEF KeyExpires, ListExpires, rows
    <2> QED
        BY <2>1, SameRoles, BindingsUntouched
<1>10. ASSUME NEW t \in Tasks, EditLinks(t) PROVE BindingsHold'
    BY <1>4, <1>5, <1>6, <1>7, <1>8, <1>10 DEF EditLinks
<1> QED
    BY <1>3, <1>9, <1>10, MaintainBindings DEF AccessStep

\* Every step keeps the rows and the keys in order.
LEMMA NextShape == AccessInv /\ ShapeInv /\ [AccessNext]_accessVars => ShapeInv'
<1>1. SUFFICES ASSUME AccessInv, ShapeInv, [AccessNext]_accessVars PROVE ShapeInv'
    OBVIOUS
<1>2. LoadInv /\ LinkInv /\ BindingsHold /\ ResourcesTyped /\ KeysLive
    BY <1>1 DEF AccessInv, ShapeInv
<1>3. CASE AccessStep
    BY <1>2, <1>3, BindingsStay, ResourcesStay, KeysStay DEF ShapeInv
<1>4. CASE UNCHANGED accessVars
    <2>1. UNCHANGED <<roles, resources, bound, permCache, permTTL, task>>
        BY <1>4 DEF accessVars, rows, caches
    <2>2. BindingsHold'
        BY <1>2, <2>1, SameRoles, BindingsUntouched
    <2> QED
        BY <1>2, <2>1, <2>2, KeysUntouched DEF ShapeInv, ResourcesTyped
<1> QED
    BY <1>1, <1>3, <1>4 DEF AccessNext

\* At first every role has its row, nothing is in flight and no key expires.
LEMMA InitShape == AccessInit => ShapeInv
<1>1. SUFFICES ASSUME AccessInit PROVE ShapeInv
    OBVIOUS
<1>2. Present = Roles
    BY <1>1 DEF AccessInit, Present, Kept
<1>3. BindingsHold
    BY <1>1, <1>2 DEF AccessInit, BindingsHold, BindHolds, Idle
<1>4. ResourcesTyped
    BY <1>1 DEF AccessInit, ResourcesTyped, AuthResource
<1>5. KeysLive
    BY <1>1 DEF AccessInit, KeysLive
<1> QED
    BY <1>3, <1>4, <1>5 DEF ShapeInv

-----------------------------------------------------------------------------
(* The cache after a rebinding.                                            *)

HistoryTyped ==
  /\ listed \in [Users -> SUBSET Perms]
  /\ crossing \subseteq Tasks /\ crossed \subseteq Users

\* A sign-in that crossed no rebinding has listed what it is going to write.
WritesListed(e) ==
  e.at \in {"clear", "fill"} /\ e.user \notin crossed => e.codes \subseteq listed[e.user]

\* A rebinding that is crossed by none, and has cleared the key, finds it empty
\* and nobody about to fill it.
ClearedStays(t) ==
  task[t].at = "bind_commit" /\ t \notin crossing =>
    /\ permCache[task[t].user] = {}
    /\ \A s \in Tasks : task[s].at \in {"clear", "fill"} => task[s].user # task[t].user

\* A rebinding is of an account.
BindsAccount(e) == e.at \in {"bind", "bind_commit"} => e.user \in Users

RebindInv ==
  /\ HistoryTyped /\ RebindingTakesEffect
  /\ \A t \in Tasks : WritesListed(task[t]) /\ ClearedStays(t) /\ BindsAccount(task[t])

\* What a task may become in a step that lists nothing, writes nothing into the
\* key and commits no rebinding.
Goes(old, new) ==
  /\ new.at \in {"clear", "fill"} => old.at \in {"clear", "fill"} /\ new.user = old.user /\ new.codes \subseteq old.codes
  /\ new.at = "bind_commit" => old.at = "bind_commit" /\ new.user = old.user
  /\ new.at = "bind" => new.user \in Users

\* Then the cache is still within what was listed, and a cleared key stays empty.
LEMMA RebindUntouched ==
    ASSUME LoadInv, RebindInv, UNCHANGED <<listed, crossed>>, crossing' \subseteq Tasks,
           \A t \in crossing : task'[t].at = "bind_commit" => t \in crossing',
           CacheShrinks, \A t \in Tasks : Goes(task[t], task'[t])
    PROVE  RebindInv'
<1>1. \A u \in Users : permCache'[u] \subseteq permCache[u]
    BY DEF CacheShrinks, LoadInv, LoadsTyped
<1>2. HistoryTyped' /\ RebindingTakesEffect'
    BY <1>1 DEF RebindInv, HistoryTyped, RebindingTakesEffect
<1>3. \A s \in Tasks : task'[s].at \in {"clear", "fill"} => task[s].at \in {"clear", "fill"} /\ task'[s].user = task[s].user
    BY DEF Goes
<1>4. ASSUME NEW t \in Tasks PROVE WritesListed(task[t])'
    <2>1. WritesListed(task[t]) /\ Goes(task[t], task'[t])
        BY DEF RebindInv
    <2> QED
        BY <2>1 DEF WritesListed, Goes
<1>5. ASSUME NEW t \in Tasks PROVE ClearedStays(t)'
    <2>1. ClearedStays(t) /\ BindsAccount(task[t]) /\ Goes(task[t], task'[t])
        BY DEF RebindInv
    <2>2. CASE task'[t].at = "bind_commit" /\ t \notin crossing'
        <3>1. task[t].at = "bind_commit" /\ task'[t].user = task[t].user /\ task[t].user \in Users /\ t \notin crossing
            BY <2>1, <2>2 DEF Goes, BindsAccount
        <3>2. permCache'[task'[t].user] = {}
            BY <1>1, <2>1, <3>1 DEF ClearedStays
        <3>3. \A s \in Tasks : task'[s].at \in {"clear", "fill"} => task'[s].user # task'[t].user
            BY <1>3, <2>1, <3>1 DEF ClearedStays
        <3> QED
            BY <3>2, <3>3 DEF ClearedStays
    <2> QED
        BY <2>2 DEF ClearedStays
<1>6. ASSUME NEW t \in Tasks PROVE BindsAccount(task[t])'
    <2>1. BindsAccount(task[t]) /\ Goes(task[t], task'[t])
        BY DEF RebindInv
    <2> QED
        BY <2>1 DEF BindsAccount, Goes
<1> QED
    BY <1>2, <1>4, <1>5, <1>6 DEF RebindInv

\* A task that is marked, or loses a deleted row, goes on.
LEMMA MarkedGoes ==
    ASSUME LoadInv, RebindInv, NEW t \in Tasks, NEW f, f.at = task[t].at, f.user = task[t].user, f.codes = task[t].codes
    PROVE  Goes(task[t], f)
    BY DEF RebindInv, BindsAccount, Goes

\* Steps of one task that change neither the history nor the key, but may drop it.
LEMMA RebindOneTask ==
    ASSUME LoadInv, RebindInv, UNCHANGED <<listed, crossed>>, CacheShrinks, NEW t \in Tasks, NEW f,
           task' = [task EXCEPT ![t] = f], Goes(task[t], f),
           \/ UNCHANGED crossing
           \/ crossing' = crossing \ {t} /\ f.at # "bind_commit"
    PROVE  RebindInv'
<1>1. task'[t] = f /\ \A x \in Tasks : x # t => task'[x] = task[x]
    BY DEF LoadInv, LoadsTyped
<1>2. ASSUME NEW x \in Tasks PROVE Goes(task[x], task'[x])
    <2>1. CASE x = t
        BY <1>1, <2>1
    <2>2. CASE x # t
        <3>1. PICK g : g = task'[x]
            OBVIOUS
        <3>2. g = task[x]
            BY <1>1, <2>2, <3>1
        <3>3. Goes(task[x], g)
            BY <3>2, MarkedGoes
        <3> QED
            BY <3>1, <3>3
    <2> QED
        BY <2>1, <2>2
<1>3. crossing' \subseteq Tasks /\ \A x \in crossing : task'[x].at = "bind_commit" => x \in crossing'
    BY <1>1 DEF RebindInv, HistoryTyped
<1> QED
    BY <1>2, <1>3, RebindUntouched

\* A sign-in begins, drops the key or ends; a worker dies.
LEMMA RebindLoads ==
    ASSUME LoadInv, RebindInv, NEW t \in Tasks,
           \/ \E u \in Users : complete_admin_login(t, u)
           \/ clear_user_permissions_cache(t) \/ expire(t) \/ Die(t)
    PROVE  RebindInv'
<1>1. task[t] \in TaskRow /\ Idle.at = "idle"
    BY DEF LoadInv, LoadsTyped, Idle
<1>2. Goes(task[t], Idle)
    BY <1>1 DEF Goes
<1>3. ASSUME NEW u \in Users, complete_admin_login(t, u) PROVE RebindInv'
    <2>1. PICK f : f = [Idle EXCEPT !.at = "perms", !.user = u, !.super = users[u].super]
        OBVIOUS
    <2>2. f.at = "perms"
        BY <2>1 DEF Idle
    <2>3. task' = [task EXCEPT ![t] = f] /\ UNCHANGED <<listed, crossed, crossing>> /\ CacheShrinks
        BY <1>3, <2>1 DEF complete_admin_login, rebound, caches, CacheShrinks
    <2>4. Goes(task[t], f)
        BY <2>2 DEF Goes
    <2> QED
        BY <2>3, <2>4, RebindOneTask
<1>4. CASE clear_user_permissions_cache(t)
    <2>1. PICK f : f = IF task[t].codes = {} THEN Idle ELSE [task[t] EXCEPT !.at = "fill"]
        OBVIOUS
    <2>2. task[t].at = "clear" /\ task[t].user \in Users
        BY <1>4 DEF clear_user_permissions_cache, LoadInv, LoadsHold, LoadHolds, Loading
    <2>3. task' = [task EXCEPT ![t] = f] /\ UNCHANGED <<listed, crossed, crossing>> /\ CacheShrinks
        BY <1>4, <2>1, <2>2 DEF clear_user_permissions_cache, rebound, CacheShrinks
    <2>4. f = Idle \/ (f.at = "fill" /\ f.user = task[t].user /\ f.codes = task[t].codes)
        BY <1>1, <2>1 DEF TaskRow
    <2>5. Goes(task[t], f)
        BY <1>2, <2>2, <2>4 DEF Goes
    <2> QED
        BY <2>3, <2>5, RebindOneTask
<1>5. CASE expire(t) \/ Die(t)
    <2>1. /\ task' = [task EXCEPT ![t] = Idle] /\ UNCHANGED <<listed, crossed>> /\ CacheShrinks
          /\ UNCHANGED crossing \/ crossing' = crossing \ {t}
        BY <1>5 DEF expire, Die, rebound, caches, CacheShrinks
    <2> QED
        BY <1>1, <1>2, <2>1, RebindOneTask
<1> QED
    BY <1>3, <1>4, <1>5

\* A sign-in lists the codes: a rebinding of the account that is not committed
\* yet is crossed.
LEMMA RebindReads ==
    ASSUME LoadInv, RebindInv, NEW t \in Tasks, ReadPermissions(t)
    PROVE  RebindInv'
<1>1. task[t] \in TaskRow /\ task[t].at = "perms" /\ task[t].user \in Users /\ task \in [Tasks -> TaskRow]
    BY DEF ReadPermissions, LoadInv, LoadsTyped, LoadsHold, LoadHolds, Loading
<1>2. PICK u \in Users : u = task[t].user
    BY <1>1
<1>3. PICK codes : codes = IF task[t].super THEN list_all_permissions ELSE list_user_role_permissions(u)
    OBVIOUS
<1>4. codes \subseteq Perms
    BY <1>3 DEF list_all_permissions, list_user_role_permissions
<1>5. PICK f : f = [[task[t] EXCEPT !.codes = codes] EXCEPT !.at = "clear"]
    OBVIOUS
<1>6. f.at = "clear" /\ f.user = u /\ f.codes = codes
    BY <1>1, <1>2, <1>5 DEF TaskRow
<1>7. /\ task' = [task EXCEPT ![t] = f] /\ listed' = [listed EXCEPT ![u] = @ \cup codes]
      /\ crossing' = crossing \cup {s \in Tasks : task[s].at = "bind_commit" /\ task[s].user = u}
      /\ UNCHANGED <<crossed, permCache>>
    BY <1>1, <1>2, <1>3, <1>5 DEF ReadPermissions, caches
<1>8. task'[t] = f /\ \A x \in Tasks : x # t => task'[x] = task[x]
    BY <1>1, <1>7
<1>9. HistoryTyped' /\ RebindingTakesEffect' /\ \A v \in Users : listed[v] \subseteq listed'[v]
    BY <1>4, <1>7 DEF RebindInv, HistoryTyped, RebindingTakesEffect
<1>10. ASSUME NEW x \in Tasks PROVE WritesListed(task[x])'
    <2>1. CASE x = t
        <3>1. codes \subseteq listed'[u]
            BY <1>7 DEF RebindInv, HistoryTyped
        <3> QED
            BY <1>6, <1>8, <2>1, <3>1 DEF WritesListed
    <2>2. CASE x # t
        <3>1. WritesListed(task[x]) /\ task'[x] = task[x] /\ (task[x].user \in Users \/ task[x].at \notin {"clear", "fill"})
            BY <1>8, <2>2 DEF RebindInv, LoadInv, LoadsHold, LoadHolds, Loading
        <3> QED
            BY <1>7, <1>9, <3>1 DEF WritesListed
    <2> QED
        BY <2>1, <2>2
<1>11. ASSUME NEW x \in Tasks PROVE ClearedStays(x)' /\ BindsAccount(task[x])'
    <2>1. CASE x = t
        BY <1>6, <1>8, <2>1 DEF ClearedStays, BindsAccount
    <2>2. CASE x # t
        <3>1. ClearedStays(x) /\ BindsAccount(task[x]) /\ task'[x] = task[x]
            BY <1>8, <2>2 DEF RebindInv
        <3>2. CASE task[x].at = "bind_commit" /\ x \notin crossing'
            <4>1. x \notin crossing /\ task[x].user # u
                BY <1>7, <3>2
            <4>2. \A s \in Tasks : task'[s].at \in {"clear", "fill"} => task'[s].user # task[x].user
                BY <1>6, <1>8, <3>1, <3>2, <4>1 DEF ClearedStays
            <4> QED
                BY <1>7, <3>1, <3>2, <4>1, <4>2 DEF ClearedStays, BindsAccount
        <3> QED
            BY <3>1, <3>2 DEF ClearedStays, BindsAccount
    <2> QED
        BY <2>1, <2>2
<1> QED
    BY <1>9, <1>10, <1>11 DEF RebindInv

\* A sign-in writes a code: it is one of those listed, and no rebinding of the
\* account that nobody crossed waits for its commit.
LEMMA RebindFills ==
    ASSUME LoadInv, RebindInv, NEW t \in Tasks, hset(t)
    PROVE  RebindInv'
<1>1. task[t] \in TaskRow /\ task[t].at = "fill" /\ task[t].user \in Users /\ task \in [Tasks -> TaskRow]
    BY DEF hset, LoadInv, LoadsTyped, LoadsHold, LoadHolds, Loading
<1>2. PICK code \in task[t].codes :
        /\ permCache' = [permCache EXCEPT ![task[t].user] = @ \cup {code}]
        /\ task' = [task EXCEPT ![t].codes = @ \ {code},
                                ![t].at = IF task[t].codes = {code} THEN "expire" ELSE "fill"]
    BY DEF hset
<1>3. PICK u \in Users : u = task[t].user
    BY <1>1
<1>4. PICK a : a = IF task[t].codes = {code} THEN "expire" ELSE "fill"
    OBVIOUS
<1>5. PICK f : f = [[task[t] EXCEPT !.codes = task[t].codes \ {code}] EXCEPT !.at = a]
    OBVIOUS
<1>6. f.at = a /\ f.user = u /\ f.codes = task[t].codes \ {code}
    BY <1>1, <1>3, <1>5 DEF TaskRow
<1>7. task' = [task EXCEPT ![t] = f] /\ UNCHANGED <<listed, crossing, crossed>>
    BY <1>1, <1>2, <1>4, <1>5 DEF hset, rebound
<1>8. task'[t] = f /\ \A x \in Tasks : x # t => task'[x] = task[x]
    BY <1>1, <1>7
<1>9. permCache' = [permCache EXCEPT ![u] = @ \cup {code}] /\ permCache \in [Users -> SUBSET Perms]
    BY <1>2, <1>3 DEF LoadInv, LoadsTyped
<1>10. u \notin crossed => code \in listed[u]
    BY <1>1, <1>2, <1>3 DEF RebindInv, WritesListed
<1>11. HistoryTyped' /\ RebindingTakesEffect'
    BY <1>7, <1>9, <1>10 DEF RebindInv, HistoryTyped, RebindingTakesEffect
<1>12. ASSUME NEW x \in Tasks PROVE WritesListed(task[x])'
    <2>1. WritesListed(task[t]) /\ WritesListed(task[x])
        BY DEF RebindInv
    <2> QED
        BY <1>1, <1>3, <1>6, <1>7, <1>8, <2>1 DEF WritesListed
<1>13. ASSUME NEW x \in Tasks PROVE ClearedStays(x)' /\ BindsAccount(task[x])'
    <2>1. CASE x = t
        BY <1>4, <1>6, <1>8, <2>1 DEF ClearedStays, BindsAccount
    <2>2. CASE x # t
        <3>1. ClearedStays(x) /\ BindsAccount(task[x]) /\ task'[x] = task[x]
            BY <1>8, <2>2 DEF RebindInv
        <3>2. CASE task[x].at = "bind_commit" /\ x \notin crossing
            <4>1. task[x].user # u /\ task[x].user \in Users
                BY <1>1, <1>3, <3>1, <3>2 DEF ClearedStays, BindsAccount
            <4>2. permCache'[task[x].user] = {}
                BY <1>9, <3>1, <3>2, <4>1 DEF ClearedStays
            <4>3. \A s \in Tasks : task'[s].at \in {"clear", "fill"} => task'[s].user # task[x].user
                BY <1>6, <1>8, <3>1, <3>2, <4>1 DEF ClearedStays
            <4> QED
                BY <1>7, <3>1, <4>2, <4>3 DEF ClearedStays, BindsAccount
        <3> QED
            BY <1>7, <3>1, <3>2 DEF ClearedStays, BindsAccount
    <2> QED
        BY <2>1, <2>2
<1> QED
    BY <1>11, <1>12, <1>13 DEF RebindInv

\* A rebinding clears the key; whoever has listed and not yet written crosses it.
LEMMA RebindClears ==
    ASSUME LoadInv, RebindInv, NEW t \in Tasks, BindClear(t)
    PROVE  RebindInv'
<1>1. task[t] \in TaskRow /\ task[t].at = "bind" /\ task[t].user \in Users /\ task \in [Tasks -> TaskRow]
    BY DEF BindClear, LoadInv, LoadsTyped, RebindInv, BindsAccount
<1>2. PICK u \in Users : u = task[t].user
    BY <1>1
<1>3. CASE task[t].lost
    <2>1. task' = [task EXCEPT ![t] = Idle] /\ UNCHANGED <<listed, crossing, crossed>> /\ CacheShrinks
        BY <1>3 DEF BindClear, CacheShrinks
    <2>2. Goes(task[t], Idle)
        BY DEF Goes, Idle
    <2> QED
        BY <2>1, <2>2, RebindOneTask
<1>4. CASE ~task[t].lost
    <2>1. PICK f : f = [task[t] EXCEPT !.at = "bind_commit"]
        OBVIOUS
    <2>2. f.at = "bind_commit" /\ f.user = u
        BY <1>1, <1>2, <2>1 DEF TaskRow
    <2>3. /\ task' = [task EXCEPT ![t] = f] /\ permCache' = [permCache EXCEPT ![u] = {}]
          /\ crossing' = IF Writing(u) # {} THEN crossing \cup {t} ELSE crossing \ {t}
          /\ UNCHANGED <<listed, crossed>>
        BY <1>1, <1>2, <1>4, <2>1 DEF BindClear
    <2>4. task'[t] = f /\ \A x \in Tasks : x # t => task'[x] = task[x]
        BY <1>1, <2>3
    <2>5. permCache'[u] = {} /\ \A v \in Users : permCache'[v] \subseteq permCache[v]
        BY <2>3 DEF LoadInv, LoadsTyped
    <2>6. HistoryTyped' /\ RebindingTakesEffect'
        BY <2>3, <2>5 DEF RebindInv, HistoryTyped, RebindingTakesEffect
    <2>7. ASSUME NEW x \in Tasks PROVE WritesListed(task[x])' /\ BindsAccount(task[x])'
        <3>1. WritesListed(task[x]) /\ BindsAccount(task[x])
            BY DEF RebindInv
        <3> QED
            BY <2>2, <2>3, <2>4, <3>1 DEF WritesListed, BindsAccount
    <2>8. \A s \in Tasks : task'[s].at \in {"clear", "fill"} => task[s].at \in {"clear", "fill"} /\ task'[s].user = task[s].user
        BY <2>2, <2>4
    <2>9. ASSUME NEW x \in Tasks PROVE ClearedStays(x)'
        <3>1. CASE x = t
            <4>1. t \notin crossing' => Writing(u) = {}
                BY <2>3
            <4>2. t \notin crossing' => \A s \in Tasks : task'[s].at \in {"clear", "fill"} => task'[s].user # u
                BY <2>8, <4>1 DEF Writing
            <4> QED
                BY <2>2, <2>4, <2>5, <3>1, <4>2 DEF ClearedStays
        <3>2. CASE x # t
            <4>1. ClearedStays(x) /\ task'[x] = task[x] /\ BindsAccount(task[x])
                BY <2>4, <3>2 DEF RebindInv
            <4>2. x \notin crossing' => x \notin crossing
                BY <2>3, <3>2
            <4> QED
                BY <2>5, <2>8, <4>1, <4>2 DEF ClearedStays, BindsAccount
        <3> QED
            BY <3>1, <3>2
    <2> QED
        BY <2>6, <2>7, <2>9 DEF RebindInv
<1> QED
    BY <1>3, <1>4

\* It commits: if nobody crossed it the key is empty and stays so until somebody
\* has listed by the new links.
LEMMA RebindCommits ==
    ASSUME LoadInv, RebindInv, NEW t \in Tasks, BindCommit(t)
    PROVE  RebindInv'
<1>1. /\ task[t] \in TaskRow /\ task[t].at = "bind_commit" /\ task[t].user \in Users /\ task \in [Tasks -> TaskRow]
      /\ ClearedStays(t)
    BY DEF BindCommit, LoadInv, LoadsTyped, RebindInv, BindsAccount
<1>2. PICK u \in Users : u = task[t].user
    BY <1>1
<1>3. /\ task' = [task EXCEPT ![t] = Idle] /\ listed' = [listed EXCEPT ![u] = {}]
      /\ crossed' = IF t \in crossing THEN crossed \cup {u} ELSE crossed \ {u}
      /\ crossing' = crossing \ {t} /\ UNCHANGED permCache
    BY <1>2 DEF BindCommit, caches
<1>4. task'[t].at = "idle" /\ \A x \in Tasks : x # t => task'[x] = task[x]
    BY <1>1, <1>3 DEF Idle
<1>5. u \notin crossed' => /\ permCache[u] = {}
                           /\ \A s \in Tasks : task[s].at \in {"clear", "fill"} => task[s].user # u
    BY <1>1, <1>2, <1>3 DEF ClearedStays
<1>6. \A v \in Users : v # u => listed'[v] = listed[v] /\ (v \in crossed' <=> v \in crossed)
    BY <1>3 DEF RebindInv, HistoryTyped
<1>7. HistoryTyped'
    BY <1>3 DEF RebindInv, HistoryTyped
<1>8. RebindingTakesEffect'
    BY <1>3, <1>5, <1>6 DEF RebindInv, RebindingTakesEffect
<1>9. ASSUME NEW x \in Tasks PROVE WritesListed(task[x])'
    <2>1. CASE x = t
        BY <1>4, <2>1 DEF WritesListed
    <2>2. CASE x # t
        <3>1. WritesListed(task[x]) /\ task'[x] = task[x] /\ (task[x].user \in Users \/ task[x].at \notin {"clear", "fill"})
            BY <1>4, <2>2 DEF RebindInv, LoadInv, LoadsHold, LoadHolds, Loading
        <3> QED
            BY <1>5, <1>6, <3>1 DEF WritesListed
    <2> QED
        BY <2>1, <2>2
<1>10. ASSUME NEW x \in Tasks PROVE ClearedStays(x)' /\ BindsAccount(task[x])'
    <2>1. CASE x = t
        BY <1>4, <2>1 DEF ClearedStays, BindsAccount
    <2>2. CASE x # t
        <3>1. ClearedStays(x) /\ BindsAccount(task[x]) /\ task'[x] = task[x] /\ (x \notin crossing' => x \notin crossing)
            BY <1>3, <1>4, <2>2 DEF RebindInv
        <3> QED
            BY <1>3, <1>4, <3>1 DEF ClearedStays, BindsAccount
    <2> QED
        BY <2>1, <2>2
<1> QED
    BY <1>7, <1>8, <1>9, <1>10 DEF RebindInv

\* An edit of a role, and the beginning of a rebinding, touch neither key nor history.
LEMMA RebindEdits ==
    ASSUME LoadInv, RebindInv, NEW t \in Tasks,
           \/ \E r \in Roles, want \in SUBSET Existing, upsert, active \in BOOLEAN : EditRead(t, r, want, upsert, active)
           \/ EditCommit(t)
           \/ \E u \in Users, want \in SUBSET {r \in Roles : roles[r].there} : BindRead(t, u, want)
    PROVE  RebindInv'
<1>1. UNCHANGED <<listed, crossing, crossed>> /\ CacheShrinks
    BY DEF EditRead, EditCommit, BindRead, rebound, caches, CacheShrinks
<1>2. Goes(task[t], Idle)
    BY DEF Goes, Idle
<1>3. ASSUME NEW r \in Roles, NEW want, NEW upsert, NEW active, EditRead(t, r, want, upsert, active)
      PROVE  RebindInv'
    <2>1. PICK f : f = [Idle EXCEPT !.at = "edit", !.role = r, !.was = GrantsOf(r), !.want = want,
                                   !.upsert = upsert, !.active = active]
        OBVIOUS
    <2>2. f.at = "edit" /\ task' = [task EXCEPT ![t] = f]
        BY <1>3, <2>1 DEF EditRead, Idle
    <2>3. Goes(task[t], f)
        BY <2>2 DEF Goes
    <2> QED
        BY <1>1, <2>2, <2>3, RebindOneTask
<1>4. ASSUME NEW u \in Users, NEW want, BindRead(t, u, want) PROVE RebindInv'
    <2>1. PICK f : f = [Idle EXCEPT !.at = "bind", !.user = u, !.was = bound[u], !.want = want]
        OBVIOUS
    <2>2. f.at = "bind" /\ f.user = u /\ task' = [task EXCEPT ![t] = f]
        BY <1>4, <2>1 DEF BindRead, Idle
    <2>3. Goes(task[t], f)
        BY <2>2 DEF Goes
    <2> QED
        BY <1>1, <2>2, <2>3, RebindOneTask
<1>5. CASE EditCommit(t)
    <2>1. PICK r : r = task[t].role
        OBVIOUS
    <2>2. CASE task' = [task EXCEPT ![t] = Idle]
        BY <1>1, <1>2, <2>2, RebindOneTask
    <2>3. CASE task' = [Overtaken(r) EXCEPT ![t] = Idle]
        <3>1. PICK over : over = Overtaken(r)
            OBVIOUS
        <3>2. over \in [Tasks -> TaskRow] /\ \A x \in Tasks : over[x].at = task[x].at /\ over[x].user = task[x].user
                                                              /\ over[x].codes = task[x].codes
            BY <3>1, OvertakenTasks
        <3>3. task'[t] = Idle /\ \A x \in Tasks : x # t => task'[x] = over[x]
            BY <2>3, <3>1, <3>2
        <3>4. ASSUME NEW x \in Tasks PROVE Goes(task[x], task'[x])
            <4>1. CASE x = t
                BY <1>2, <3>3, <4>1
            <4>2. CASE x # t
                <5>1. PICK g : g = over[x]
                    OBVIOUS
                <5>2. Goes(task[x], g)
                    BY <3>2, <5>1, MarkedGoes
                <5> QED
                    BY <3>3, <4>2, <5>1, <5>2
            <4> QED
                BY <4>1, <4>2
        <3>5. crossing' \subseteq Tasks /\ \A x \in crossing : x \in crossing'
            BY <1>1 DEF RebindInv, HistoryTyped
        <3> QED
            BY <1>1, <3>4, <3>5, RebindUntouched
    <2> QED
        BY <1>5, <2>1, <2>2, <2>3 DEF EditCommit
<1> QED
    BY <1>3, <1>4, <1>5

\* The tasks are as they were, marked, or without a deleted row.
LEMMA RebindMarked ==
    ASSUME LoadInv, RebindInv, UNCHANGED rebound, CacheShrinks,
           \A t \in Tasks : \E x : task'[t] \in {task[t], [task[t] EXCEPT !.overlapped = TRUE],
                                                 [task[t] EXCEPT !.lost = TRUE], Without(task[t], x)}
    PROVE  RebindInv'
<1>1. ASSUME NEW t \in Tasks PROVE Goes(task[t], task'[t])
    <2>1. task[t] \in TaskRow
        BY DEF LoadInv, LoadsTyped
    <2>2. PICK e : e = task[t]
        OBVIOUS
    <2>3. PICK f : f = task'[t]
        OBVIOUS
    <2>4. PICK x : f \in {e, [e EXCEPT !.overlapped = TRUE], [e EXCEPT !.lost = TRUE], Without(e, x)}
        BY <2>2, <2>3
    <2>5. f.at = e.at /\ f.user = e.user /\ f.codes = e.codes
        BY <2>1, <2>2, <2>4, MarkedTask
    <2>6. Goes(task[t], f)
        BY <2>2, <2>5, MarkedGoes
    <2> QED
        BY <2>3, <2>6
<1>2. UNCHANGED <<listed, crossing, crossed>> /\ crossing' \subseteq Tasks
    BY DEF rebound, RebindInv, HistoryTyped
<1> QED
    BY <1>1, <1>2, RebindUntouched

\* No other operation of an administrator clears the key or lists a code.
LEMMA RebindMaintains ==
    ASSUME LoadInv, RebindInv, Maintain
    PROVE  RebindInv'
<1>1. UNCHANGED rebound /\ CacheShrinks
    BY DEF Maintain, create_role, restore_role, delete_role, create_permission, restore_permission, update_permission,
       delete_permission, SavePermission, delete_resource, restore_resource, change_parent, update_resource,
       SaveResources, update_user, get_permission_list, Single, caches, CacheShrinks
<1>2. ASSUME NEW t \in Tasks
      PROVE  \E x : task'[t] \in {task[t], [task[t] EXCEPT !.overlapped = TRUE],
                                  [task[t] EXCEPT !.lost = TRUE], Without(task[t], x)}
    <2>1. ASSUME NEW r \in Roles, NEW flag, create_role(r, flag) PROVE task'[t] \in {task[t], [task[t] EXCEPT !.lost = TRUE]}
        BY <2>1 DEF create_role
    <2>2. ASSUME NEW r \in Roles, NEW flag, delete_role(r, flag)
          PROVE  task'[t] \in {task[t], [task[t] EXCEPT !.overlapped = TRUE], Without(task[t], r)}
        BY <2>2 DEF delete_role, Overtaken
    <2>3. ASSUME NEW p \in Perms, NEW endpoint, NEW row, SavePermission(p, endpoint, row)
          PROVE  task'[t] \in {task[t], Without(task[t], p)}
        BY <2>3 DEF SavePermission
    <2>4. \/ \E r \in Roles : \E flag \in BOOLEAN : create_role(r, flag) \/ delete_role(r, flag)
          \/ \E p \in Perms : \E endpoint, row : SavePermission(p, endpoint, row)
          \/ UNCHANGED task
        BY DEF Maintain, restore_role, create_permission, restore_permission, update_permission, delete_permission,
           delete_resource, restore_resource, change_parent, update_resource, SaveResources, update_user,
           get_permission_list, rows
    <2> QED
        BY <2>1, <2>2, <2>3, <2>4
<1> QED
    BY <1>1, <1>2, RebindMarked

\* Every step keeps the cache of a rebinding nobody crossed within what was listed.
LEMMA NextRebind == AccessInv /\ RebindInv /\ [AccessNext]_accessVars => RebindInv'
<1>1. SUFFICES ASSUME AccessInv, RebindInv, [AccessNext]_accessVars PROVE RebindInv'
    OBVIOUS
<1>2. LoadInv
    BY <1>1 DEF AccessInv
<1>3. ASSUME NEW t \in Tasks, Load(t) \/ EditLinks(t) \/ Die(t) PROVE RebindInv'
    BY <1>1, <1>2, <1>3, RebindLoads, RebindReads, RebindFills, RebindClears, RebindCommits, RebindEdits
       DEF Load, EditLinks
<1>4. ASSUME UNCHANGED <<task, rebound>>, CacheShrinks PROVE RebindInv'
    BY <1>1, <1>2, <1>4, RebindMarked
<1>5. ASSUME NEW u \in Users, KeyExpires(u) PROVE RebindInv'
    BY <1>4, <1>5 DEF KeyExpires, CacheShrinks
<1>6. CASE ListExpires
    BY <1>4, <1>6 DEF ListExpires, CacheShrinks
<1>7. CASE UNCHANGED accessVars
    BY <1>4, <1>7 DEF accessVars, history, caches, CacheShrinks
<1> QED
    BY <1>1, <1>2, <1>3, <1>5, <1>6, <1>7, RebindMaintains DEF AccessNext, AccessStep

\* At first every key is empty and nothing is in flight.
LEMMA InitRebind == AccessInit => RebindInv
    BY DEF AccessInit, RebindInv, HistoryTyped, RebindingTakesEffect, WritesListed, ClearedStays, BindsAccount, Idle

\* Once an account's roles are replaced, the cache holds only what sign-ins list
\* by the new ones, although the key is cleared before the commit: whatever was
\* put into it in between came of a sign-in that crossed the rebinding
\* (AdminUserService.bind_roles).
THEOREM NewRolesTakeEffect == AccessSpec => []RebindingTakesEffect
<1>1. RebindInv => RebindingTakesEffect
    BY DEF RebindInv
<1> QED
    BY <1>1, InitRebind, NextRebind, AccessInvariant, PTL DEF AccessSpec

\* Every link is of rows that exist and no lifetime is without its key, while
\* roles and permissions are deleted for good between the statements of edits
\* that name them (the foreign keys of role_permission and user_role).
THEOREM LinksAreOfRows == AccessSpec => []AccessTypeOK
<1>1. AccessInv /\ ShapeInv /\ RebindInv => AccessTypeOK
    <2>1. SUFFICES ASSUME AccessInv, ShapeInv, RebindInv PROVE AccessTypeOK
        OBVIOUS
    <2>2. grants \subseteq {r \in Roles : roles[r].there} \X Existing
        BY <2>1 DEF AccessInv, LinkInv, LinksTyped, GrantsExist, Existing
    <2>3. bound \in [Users -> SUBSET {r \in Roles : roles[r].there}]
        BY <2>1 DEF AccessInv, AccountsTyped, ShapeInv, BindingsHold, Present
    <2> QED
        BY <2>1, <2>2, <2>3 DEF AccessTypeOK, AccessInv, AccountsTyped, LinkInv, LinksTyped, LoadInv, LoadsTyped,
           ShapeInv, ResourcesTyped, KeysLive, RebindInv, HistoryTyped
<1> QED
    BY <1>1, InitShape, NextShape, InitRebind, NextRebind, InitAccess, AccessInvariant, PTL DEF AccessSpec
=============================================================================
