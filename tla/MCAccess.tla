------------------------------ MODULE MCAccess ------------------------------
(***************************************************************************)
(* An administrator with one role, who may be made a superuser or locked    *)
(* out, two codes the routes ask for, one of them of a verb that may be     *)
(* switched off, two requests in flight.                                    *)
(***************************************************************************)
EXTENDS AccessControl

TwoCodes == {<<"system_role", "update">>, <<"facility_room", "read">>}
VerbOfCode == [p \in Perms |-> p[2]]
VerbSets == {{"update", "read"}, {"update"}}
ResourceOfCode == [p \in Perms |-> p[1]]
OneGrant == {<<"keepers", <<"system_role", "update">>>>}
SavedFlags == {[able |-> a, admin |-> TRUE, super |-> s] : a, s \in BOOLEAN} \ {[able |-> FALSE, admin |-> TRUE, super |-> TRUE]}

\* She begins as an ordinary administrator where every verb is on, as a
\* superuser where one is off.
MCAccessInit == AccessInit /\ \A u \in Users : users[u].super <=> "read" \notin verbs

MCAccessSpec == MCAccessInit /\ [][AccessNext]_accessVars /\ AccessFairness
=============================================================================
