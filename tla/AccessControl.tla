---------------------------- MODULE AccessControl ----------------------------
(***************************************************************************)
(* Role based access control: the rows of accounts, roles, permissions,    *)
(* resources and their links, the administrators' edits of them, the Redis  *)
(* caches a sign-in fills from them, and the check of the middleware, which *)
(* reads the cache and never the rows.                                      *)
(*                                                                         *)
(* A permission or a role is its code; a code created again is a row with a *)
(* new id, and an edit in flight still names the old one.  An edit of the   *)
(* links of a role or of an account reads the present links in one          *)
(* statement and writes the difference in later ones; it is two or three    *)
(* steps here.  Everything else an administrator does is one statement.     *)
(*                                                                         *)
(* No operation writes a verb, and none gives a grant an expiry date; the   *)
(* verbs differ between environments, and every grant is without a date.    *)
(***************************************************************************)
EXTENDS Naturals, FiniteSets, Routes

CONSTANTS
    Users, Roles, Perms, Resources,
    ResourceOf, VerbOf,  \* the resource and the verb of each permission
    UsableVerbs,    \* the sets of verbs that environments have active and not deleted
    Tasks,          \* requests of several steps that may be in flight at once
    Flags,          \* the account states an administrator saves
    FirstGrants,    \* role_permission rows of the seed
    Moved,          \* bound: the resources that are edited
    MaxEdits,       \* bound on the administrators' operations
    NoUser, NoRole, NoResource

ASSUME AccessConstants ==
    /\ ResourceOf \in [Perms -> Resources] /\ UsableVerbs # {}
    /\ Flags \subseteq [able : BOOLEAN, admin : BOOLEAN, super : BOOLEAN]
    /\ FirstGrants \subseteq Roles \X Perms
    /\ MaxEdits \in Nat /\ Moved \subseteq Resources
    /\ NoUser \notin Users /\ NoRole \notin Roles /\ NoResource \notin Resources

VARIABLES
    users,      \* auth.user: may it sign in, to the admin portal, as superuser
    roles,      \* auth.role
    perms,      \* auth.permission
    resources,  \* auth.resource
    verbs,      \* auth.verb: the active ones
    grants,     \* auth.role_permission
    bound,      \* auth.user_role
    permCache, permTTL,   \* Redis: permission:<user>, and whether the key will expire
    listCache,            \* Redis: permission:list:<locale>
    task,       \* the requests in flight
    edits,      \* operations so far
    held, admitted, asked, mixed, died,  \* history: see the properties
    listed, crossing, crossed            \* history: what sign-ins listed since an account's roles were
                                         \* rebound, and which rebindings a sign-in crossed

rows == <<users, roles, perms, resources, verbs, grants, bound>>
caches == <<permCache, permTTL, listCache>>
rebound == <<listed, crossing, crossed>>
history == <<held, admitted, asked, mixed, died, rebound>>
accessVars == <<rows, caches, task, edits, history>>

AuthRole == [there : BOOLEAN, active : BOOLEAN, deleted : BOOLEAN]
AuthPermission == AuthRole
AuthResource == [deleted : BOOLEAN, visible : BOOLEAN, pid : Resources \cup {NoResource}]
Kept == [there |-> TRUE, active |-> TRUE, deleted |-> FALSE]
NoList == [codes |-> {}, filled |-> FALSE]
Idle == [at |-> "idle", user |-> NoUser, role |-> NoRole, super |-> FALSE, codes |-> {}, was |-> {}, want |-> {},
         upsert |-> FALSE, active |-> FALSE, lost |-> FALSE, overlapped |-> FALSE]

AccessInit ==
    /\ users \in [Users -> {[able |-> TRUE, admin |-> TRUE, super |-> s] : s \in BOOLEAN}]
    /\ roles = [r \in Roles |-> Kept]
    /\ perms = [p \in Perms |-> Kept]
    /\ resources = [x \in Resources |-> [deleted |-> FALSE, visible |-> TRUE, pid |-> NoResource]]
    /\ verbs \in UsableVerbs
    /\ grants = FirstGrants
    /\ bound = [u \in Users |-> Roles]
    /\ permCache = [u \in Users |-> {}] /\ permTTL = [u \in Users |-> FALSE]
    /\ listCache = NoList
    /\ task = [t \in Tasks |-> Idle]
    /\ edits = 0
    /\ held = [u \in Users |-> {}] /\ admitted = {}
    /\ asked = [r \in Roles |-> {p \in Perms : <<r, p>> \in FirstGrants}] /\ mixed = {} /\ died = {}
    /\ listed = [u \in Users |-> {}] /\ crossing = {} /\ crossed = {}

----------------------------------------------------------------------------
(* The queries.                                                             *)

Usable(row) == row.there /\ row.active /\ ~row.deleted
Shown(x) == ~resources[x].deleted /\ resources[x].visible

list_user_role_permissions(u) ==
    {p \in Perms :
        /\ users[u].able /\ Usable(perms[p]) /\ Shown(ResourceOf[p]) /\ VerbOf[p] \in verbs
        /\ \E r \in bound[u] : Usable(roles[r]) /\ <<r, p>> \in grants}

\* A superuser's list: soft-deleted permissions are not left out of it, nor are
\* those of a verb that is switched off.
list_all_permissions == {p \in Perms : perms[p].there /\ perms[p].active}

----------------------------------------------------------------------------
(* The middleware.                                                          *)

\* Mutant: a missing key is taken for a cache that was not filled yet.
has_permissionFailsOpen(u, code) == users[u].super \/ permCache[u] = {} \/ code \in permCache[u]

has_permission(u, code) == users[u].super \/ code \in permCache[u]
has_any_permission(u, codes) == \E code \in codes : has_permission(u, code)

_verify_admin_token(u) == users[u].able /\ users[u].admin

_check_permissions(u, config) ==
    \/ config.allow_superuser /\ users[u].super
    \/ has_any_permission(u, config.codes)

AdminEndpoints == {"update_role", "assign_role_permissions", "bind_roles_to_user", "create_role", "delete_role",
                   "restore_role", "create_permission", "update_permission", "delete_permission", "restore_permission",
                   "delete_resource", "restore_resource", "change_resource_parent", "update_resource", "update_user",
                   "get_permission_list"}
ConfigOf == [e \in AdminEndpoints |->
    LET table == Application("admin") IN table[SelectInSeq(table, LAMBDA route : route.endpoint = e)].config]

\* Every one of these routes asks for a code.
ASSUME EndpointsAskForCodes == \A e \in AdminEndpoints : ConfigOf[e].codes # {}

\* dispatch: the account is read anew, the permissions come from the cache.
Admit(u, endpoint) ==
    /\ _verify_admin_token(u)
    /\ ConfigOf[endpoint].codes # {} => _check_permissions(u, ConfigOf[endpoint])
    /\ admitted' = IF users[u].super THEN admitted ELSE admitted \cup {<<u, endpoint>>}

\* An administrator's operation; the bound is on their number.
Operation(endpoint) ==
    /\ edits < MaxEdits
    /\ edits' = edits + 1
    /\ \E u \in Users : Admit(u, endpoint)

----------------------------------------------------------------------------
(* Filling the caches at a sign-in or a refresh of the admin portal.        *)

\* complete_admin_login and refresh_token up to the permissions.  The role cache
\* they fill first is read by nobody and left out.
complete_admin_login(t, u) ==
    /\ task[t].at = "idle"
    /\ users[u].able /\ users[u].admin
    /\ task' = [task EXCEPT ![t] = [Idle EXCEPT !.at = "perms", !.user = u, !.super = users[u].super]]
    /\ UNCHANGED <<rows, caches, edits, admitted, asked, mixed, died, rebound>>

\* init_user_permissions_cache: the query, the delete of the key, one HSET per
\* code and the EXPIRE are separate round trips.
ReadPermissions(t) ==
    /\ task[t].at = "perms"
    /\ LET u == task[t].user
           codes == IF task[t].super THEN list_all_permissions ELSE list_user_role_permissions(u)
       IN  /\ task' = [task EXCEPT ![t].codes = codes, ![t].at = "clear"]
           /\ listed' = [listed EXCEPT ![u] = @ \cup codes]
           /\ crossing' = crossing \cup {s \in Tasks : task[s].at = "bind_commit" /\ task[s].user = u}
    /\ UNCHANGED <<rows, caches, edits, admitted, asked, mixed, died, crossed>>

clear_user_permissions_cache(t) ==
    /\ task[t].at = "clear"
    /\ permCache' = [permCache EXCEPT ![task[t].user] = {}]
    /\ permTTL' = [permTTL EXCEPT ![task[t].user] = FALSE]
    /\ task' = [task EXCEPT ![t] = IF task[t].codes = {} THEN Idle ELSE [task[t] EXCEPT !.at = "fill"]]
    /\ UNCHANGED <<rows, listCache, edits, admitted, asked, mixed, died, rebound>>

hset(t) ==
    /\ task[t].at = "fill"
    /\ \E code \in task[t].codes :
        /\ permCache' = [permCache EXCEPT ![task[t].user] = @ \cup {code}]
        /\ task' = [task EXCEPT ![t].codes = @ \ {code},
                                                 ![t].at = IF task[t].codes = {code} THEN "expire" ELSE "fill"]
    /\ UNCHANGED <<rows, permTTL, listCache, edits, admitted, asked, mixed, died, rebound>>

\* Mutant: the key is given no lifetime.
expireForgotten(t) ==
    /\ task[t].at = "expire"
    /\ task' = [task EXCEPT ![t] = Idle]
    /\ UNCHANGED <<rows, caches, edits, admitted, asked, mixed, died, rebound>>

expire(t) ==
    /\ task[t].at = "expire"
    /\ permTTL' = [permTTL EXCEPT ![task[t].user] = permCache[task[t].user] # {}]
    /\ task' = [task EXCEPT ![t] = Idle]
    /\ UNCHANGED <<rows, permCache, listCache, edits, admitted, asked, mixed, died, rebound>>

\* Redis drops a key whose lifetime is over.
KeyExpires(u) ==
    /\ permTTL[u]
    /\ permCache' = [permCache EXCEPT ![u] = {}]
    /\ permTTL' = [permTTL EXCEPT ![u] = FALSE]
    /\ UNCHANGED <<rows, listCache, task, edits, admitted, asked, mixed, died, rebound>>

\* A worker dies in the middle of a request.
Die(t) ==
    /\ task[t].at # "idle"
    /\ task' = [task EXCEPT ![t] = Idle]
    /\ died' = died \cup {task[t].user}
    /\ crossing' = crossing \ {t}
    /\ UNCHANGED <<rows, caches, edits, admitted, asked, mixed, listed, crossed>>

\* get_permission_list: kept for a month, and cleared by nobody.
get_permission_list ==
    /\ Operation("get_permission_list")
    /\ ~listCache.filled
    /\ listCache' = [codes |-> {p \in Perms : perms[p].there /\ ~perms[p].deleted}, filled |-> TRUE]
    /\ UNCHANGED <<rows, permCache, permTTL, task, asked, mixed, died, rebound>>

ListExpires ==
    /\ listCache.filled
    /\ listCache' = NoList
    /\ UNCHANGED <<rows, permCache, permTTL, task, edits, admitted, asked, mixed, died, rebound>>

----------------------------------------------------------------------------
(* The edits of links: the grants of a role, the roles of an account.       *)

GrantsOf(r) == {p \in Perms : <<r, p>> \in grants}
Existing == {p \in Perms : perms[p].there}

\* Another edit of the same role is about to write what an older read gave it.
Overtaken(r) == [t \in Tasks |-> IF task[t].role = r THEN [task[t] EXCEPT !.overlapped = TRUE] ELSE task[t]]

\* A row x is deleted for good: its links go, and to insert a new one fails.
Without(e, x) == [e EXCEPT !.was = @ \ {x}, !.want = @ \ {x}, !.lost = @ \/ x \in e.want \ e.was]

EditRead(t, r, want, upsert, active) ==
    /\ task[t].at = "idle"
    /\ active => upsert
    /\ Operation(IF upsert THEN "update_role" ELSE "assign_role_permissions")
    /\ task' = [task EXCEPT ![t] = [Idle EXCEPT !.at = "edit", !.role = r, !.was = GrantsOf(r), !.want = want,
                                              !.upsert = upsert, !.active = active]]
    /\ UNCHANGED <<rows, caches, asked, mixed, died, rebound>>

\* Mutant: what is no longer wanted is not deleted.
ReplacedKeeping(r, was, want) == grants \cup {<<r, p>> : p \in want \ was}

\* The difference between what was read and what is wanted, applied to the
\* rows as they are by now.
Replaced(r, was, want) == (grants \cup {<<r, p>> : p \in want \ was}) \ {<<r, p>> : p \in was \ want}

\* update_role inserts a role that is gone by now; assign_role_permissions then
\* fails on the foreign key, as both do on a permission that is gone.  Once the
\* code belongs to a new role the first fails on its unique key.
EditCommit(t) ==
    LET e == task[t] IN
    /\ e.at = "edit"
    /\ IF ~e.lost /\ (e.upsert \/ roles[e.role].there \/ e.want \ e.was = {})
       THEN /\ grants' = Replaced(e.role, e.was, e.want)
            /\ roles' = IF e.upsert THEN [roles EXCEPT ![e.role] = [there |-> TRUE, active |-> e.active,
                                                          deleted |-> roles[e.role].there /\ roles[e.role].deleted]]
                        ELSE roles
            /\ asked' = [asked EXCEPT ![e.role] = e.want]
            /\ mixed' = IF e.overlapped THEN mixed \cup {e.role} ELSE mixed \ {e.role}
            /\ task' = [Overtaken(e.role) EXCEPT ![t] = Idle]
       ELSE /\ task' = [task EXCEPT ![t] = Idle]
            /\ UNCHANGED <<grants, roles, asked, mixed>>
    /\ UNCHANGED <<users, perms, resources, verbs, bound, caches, edits, admitted, died, rebound>>

\* bind_roles: read and write of the links, then the clearing of the caches, and
\* the commit after the answer.  A sign-in that has listed the account's codes
\* by the old links, and not yet written all of them when the key is cleared, or
\* that lists them before the commit, crosses it.
BindRead(t, u, want) ==
    /\ task[t].at = "idle"
    /\ Operation("bind_roles_to_user")
    /\ task' = [task EXCEPT ![t] = [Idle EXCEPT !.at = "bind", !.user = u, !.was = bound[u], !.want = want]]
    /\ UNCHANGED <<rows, caches, asked, mixed, died, rebound>>

\* Mutant: the links are replaced and the key is left to expire.
BindClearForgotten(t) ==
    /\ task[t].at = "bind"
    /\ task' = [task EXCEPT ![t] = IF task[t].lost THEN Idle ELSE [task[t] EXCEPT !.at = "bind_commit"]]
    /\ UNCHANGED <<rows, caches, edits, admitted, asked, mixed, died, rebound>>

\* Sign-ins with codes of the account that they have not all written yet.
Writing(u) == {s \in Tasks : task[s].at \in {"clear", "fill"} /\ task[s].user = u}

BindClear(t) ==
    LET e == task[t] IN
    /\ e.at = "bind"
    /\ IF ~e.lost
       THEN /\ permCache' = [permCache EXCEPT ![e.user] = {}]
            /\ permTTL' = [permTTL EXCEPT ![e.user] = FALSE]
            /\ task' = [task EXCEPT ![t].at = "bind_commit"]
            /\ crossing' = IF Writing(e.user) # {} THEN crossing \cup {t} ELSE crossing \ {t}
       ELSE /\ task' = [task EXCEPT ![t] = Idle]
            /\ UNCHANGED <<permCache, permTTL, crossing>>
    /\ UNCHANGED <<rows, listCache, edits, admitted, asked, mixed, died, listed, crossed>>

\* The new links hold the key share locks of their roles, so that none is deleted before the commit.
BindCommit(t) ==
    LET e == task[t] IN
    /\ e.at = "bind_commit"
    /\ bound' = [bound EXCEPT ![e.user] = (@ \cup (e.want \ e.was)) \ (e.was \ e.want)]
    /\ task' = [task EXCEPT ![t] = Idle]
    /\ listed' = [listed EXCEPT ![e.user] = {}]
    /\ crossed' = IF t \in crossing THEN crossed \cup {e.user} ELSE crossed \ {e.user}
    /\ crossing' = crossing \ {t}
    /\ UNCHANGED <<users, roles, perms, resources, verbs, grants, caches, edits, admitted, asked, mixed, died>>

----------------------------------------------------------------------------
(* The operations of one statement.                                         *)

Single == UNCHANGED <<verbs, caches, died, rebound>>

LinkedBy(r) == \E t \in Tasks : task[t].at = "bind_commit" /\ r \in task[t].want \ task[t].was

\* create_role, delete_role (to the bin, or for good with its links) and restore_role.
create_role(r, active) ==
    /\ Operation("create_role") /\ ~roles[r].there
    /\ roles' = [roles EXCEPT ![r] = [Kept EXCEPT !.active = active]]
    /\ \E want \in SUBSET Existing :
        /\ grants' = grants \cup {<<r, p>> : p \in want}
        /\ asked' = [asked EXCEPT ![r] = want]
    /\ task' = [t \in Tasks |-> IF task[t].role = r THEN [task[t] EXCEPT !.lost = TRUE] ELSE task[t]]
    /\ UNCHANGED <<users, perms, resources, bound, mixed>> /\ Single

delete_role(r, permanent) ==
    /\ Operation("delete_role") /\ roles[r].there
    /\ IF permanent
       THEN /\ ~LinkedBy(r)
            /\ roles' = [roles EXCEPT ![r] = [there |-> FALSE, active |-> FALSE, deleted |-> FALSE]]
            /\ grants' = {g \in grants : g[1] # r}
            /\ bound' = [u \in Users |-> bound[u] \ {r}]
            /\ asked' = [asked EXCEPT ![r] = {}] /\ mixed' = mixed \ {r}
            /\ task' = [t \in Tasks |-> IF task[t].at \in {"bind", "bind_commit"}
                                          THEN Without(task[t], r) ELSE Overtaken(r)[t]]
       ELSE /\ roles' = [roles EXCEPT ![r].deleted = TRUE]
            /\ UNCHANGED <<grants, bound, asked, mixed, task>>
    /\ UNCHANGED <<users, perms, resources>> /\ Single

restore_role(r) ==
    /\ Operation("restore_role") /\ roles[r].deleted
    /\ roles' = [roles EXCEPT ![r].deleted = FALSE]
    /\ UNCHANGED <<users, perms, resources, grants, bound, task, asked, mixed>> /\ Single

\* create_permission, update_permission, delete_permission and restore_permission.
SavePermission(p, endpoint, row) ==
    /\ Operation(endpoint)
    /\ perms' = [perms EXCEPT ![p] = row]
    /\ grants' = IF row.there THEN grants ELSE {g \in grants : g[2] # p}
    /\ asked' = IF row.there THEN asked ELSE [r \in Roles |-> asked[r] \ {p}]
    /\ task' = IF row.there THEN task
               ELSE [t \in Tasks |-> IF task[t].at = "edit" THEN Without(task[t], p) ELSE task[t]]
    /\ UNCHANGED <<users, roles, resources, bound, mixed>> /\ Single

create_permission(p, active) ==
    ~perms[p].there /\ SavePermission(p, "create_permission", [Kept EXCEPT !.active = active])
update_permission(p, active) ==
    perms[p].there /\ ~perms[p].deleted /\ SavePermission(p, "update_permission", [perms[p] EXCEPT !.active = active])
delete_permission(p, permanent) ==
    /\ perms[p].there /\ (permanent \/ ~perms[p].deleted)
    /\ SavePermission(p, "delete_permission", IF permanent THEN [there |-> FALSE, active |-> FALSE, deleted |-> FALSE]
                                              ELSE [perms[p] EXCEPT !.deleted = TRUE])
restore_permission(p) ==
    perms[p].there /\ SavePermission(p, "restore_permission", [perms[p] EXCEPT !.deleted = FALSE])

\* delete_soft and restore_resource_tree reach the direct children, no further;
\* change_parent and update_resource take any parent.
SaveResources(endpoint, new) ==
    /\ Operation(endpoint)
    /\ resources' = new
    /\ UNCHANGED <<users, roles, perms, grants, bound, task, asked, mixed>> /\ Single

WithChildren(x) == {y \in Resources : y = x \/ resources[y].pid = x}
Binned(x, flag) == [y \in Resources |-> IF y \in WithChildren(x) THEN [resources[y] EXCEPT !.deleted = flag] ELSE resources[y]]

delete_resource(x) == SaveResources("delete_resource", Binned(x, TRUE))
restore_resource(x) == SaveResources("restore_resource", Binned(x, FALSE))
change_parent(x, y) == SaveResources("change_resource_parent", [resources EXCEPT ![x].pid = y])
update_resource(x, y, visible) ==
    SaveResources("update_resource", [resources EXCEPT ![x].pid = y, ![x].visible = visible])

\* update_user, delete_user and restore_users: what they leave of the account.
update_user(u, flags) ==
    /\ Operation("update_user")
    /\ users' = [users EXCEPT ![u] = flags]
    /\ UNCHANGED <<roles, perms, resources, grants, bound, task, asked, mixed>> /\ Single

----------------------------------------------------------------------------
(* The system, with what the history variables remember of each step.       *)

Granted(u) == IF users[u].super THEN list_all_permissions ELSE list_user_role_permissions(u)

\* A sign-in that began as a superuser's lists what there is when it gets to it.
Entitled(u) ==
    Granted(u) \cup {p \in list_all_permissions :
                       \E t \in Tasks : task[t].at = "perms" /\ task[t].user = u /\ task[t].super}

Remember == held' = [u \in Users |-> held[u] \cup Entitled(u) \cup Entitled(u)']

Load(t) ==
    \/ \E u \in Users : complete_admin_login(t, u)
    \/ ReadPermissions(t) \/ clear_user_permissions_cache(t) \/ hset(t) \/ expire(t)

EditLinks(t) ==
    \/ \E r \in Roles, want \in SUBSET Existing, upsert, active \in BOOLEAN : EditRead(t, r, want, upsert, active)
    \/ EditCommit(t)
    \/ \E u \in Users, want \in SUBSET {r \in Roles : roles[r].there} : BindRead(t, u, want)
    \/ BindClear(t) \/ BindCommit(t)

Maintain ==
    \/ \E r \in Roles : restore_role(r) \/ \E flag \in BOOLEAN : create_role(r, flag) \/ delete_role(r, flag)
    \/ \E p \in Perms :
           \/ restore_permission(p)
           \/ \E flag \in BOOLEAN : create_permission(p, flag) \/ update_permission(p, flag) \/ delete_permission(p, flag)
    \/ \E x \in Moved : delete_resource(x) \/ restore_resource(x)
    \/ \E x \in Moved, y \in Resources \cup {NoResource} :
           change_parent(x, y) \/ \E visible \in BOOLEAN : update_resource(x, y, visible)
    \/ \E u \in Users, flags \in Flags : update_user(u, flags)
    \/ get_permission_list

AccessStep ==
    \/ \E t \in Tasks : Load(t) \/ EditLinks(t) \/ Die(t)
    \/ Maintain
    \/ \E u \in Users : KeyExpires(u)
    \/ ListExpires

AccessNext == AccessStep /\ Remember

\* Redis drops keys in time, and a request that goes on goes on.  Nobody is
\* made to sign in or to edit.
AccessFairness ==
    /\ \A u \in Users : WF_accessVars(KeyExpires(u) /\ Remember)
    /\ WF_accessVars(ListExpires /\ Remember)
    /\ \A t \in Tasks : WF_accessVars((ReadPermissions(t) \/ clear_user_permissions_cache(t) \/ hset(t) \/ expire(t)) /\ Remember)

AccessSpec == AccessInit /\ [][AccessNext]_accessVars /\ AccessFairness

----------------------------------------------------------------------------
(* Properties.                                                              *)

AccessTypeOK ==
    /\ users \in [Users -> [able : BOOLEAN, admin : BOOLEAN, super : BOOLEAN]]
    /\ roles \in [Roles -> AuthRole] /\ perms \in [Perms -> AuthPermission]
    /\ resources \in [Resources -> AuthResource]
    /\ grants \subseteq {r \in Roles : roles[r].there} \X Existing
    /\ bound \in [Users -> SUBSET {r \in Roles : roles[r].there}]
    /\ permCache \in [Users -> SUBSET Perms] /\ permTTL \in [Users -> BOOLEAN]
    /\ \A u \in Users : permTTL[u] => permCache[u] # {}
    /\ listed \in [Users -> SUBSET Perms] /\ crossing \subseteq Tasks /\ crossed \subseteq Users

\* An administrator who is not a superuser is let through to an operation only
\* on a code that he was entitled to at some time, by his roles or in a sign-in
\* begun as a superuser: the cache, which the middleware trusts, never invents a
\* permission (permission_checker.py, auth_middleware.py, login_service.py).
AdmittedOnHeldCode ==
    \A a \in admitted : ConfigOf[a[2]].codes \cap held[a[1]] # {}

\* The diff of update_role and assign_role_permissions is exact: unless two
\* edits of the role overlapped, it grants what the last one asked for, whatever
\* was deleted, restored or created again in between.
EditIsExact == \A r \in Roles \ mixed : GrantsOf(r) = asked[r]

\* New roles take effect at once: when the links of an account have been replaced
\* and its key cleared, the cache holds nothing but what sign-ins have listed
\* since, by the new links.  The exception is a sign-in that crossed the
\* rebinding, as the key is cleared before the commit and never again
\* (AdminUserService.bind_roles, PermissionCache.init_user_permissions_cache).
RebindingTakesEffect == \A u \in Users \ crossed : permCache[u] \subseteq listed[u]

\* A code that is withdrawn for good leaves the cache in the end, although no edit
\* of a role or a permission clears it: the key expires, and no sign-in puts it
\* back.  A worker that dies between HSET and EXPIRE is the exception.
WithdrawnLeavesCache ==
    \A u \in Users, p \in Perms :
        <>[](p \notin Granted(u)) => <>[](p \notin permCache[u] \/ u \in died)
=============================================================================
