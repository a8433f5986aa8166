-------------------------------- MODULE Catalog --------------------------------
(***************************************************************************)
(* The catalogue an environment is bootstrapped with (cli, application/cli,*)
(* cli/datas): init-all runs eight seeds in a fixed order and stops at the *)
(* first that fails; every seed is a transaction of its own, and each is a *)
(* command too.  Between two commands administrators edit the same rows.   *)
(*                                                                         *)
(* A code is the sequence of its parts: "system:user" is <<"system",       *)
(* "user">>, a permission a resource and a verb.  Names, icons, amounts    *)
(* and sequence numbers are left out; a translation is its locale.         *)
(***************************************************************************)
EXTENDS Naturals, Sequences, FiniteSets, Routes

CONSTANTS LegacyHours,         \* legacy hold lengths an environment may have, in hours
          HoldChoices,   \* hold lengths in days an administrator may choose
          MaxCommands, MaxChanges  \* bounds on the commands run and on the administrators' edits

ASSUME CatalogAssumption ==
  /\ LegacyHours \subseteq Nat \ {0} /\ HoldChoices \subseteq Nat \ {0}
  /\ MaxCommands \in Nat /\ MaxChanges \in Nat

VARIABLES
  locales,    \* public.system_locale
  resourceCodes, hiddenResources, deletedResources, \* auth.resource
  permCodes, inactiveCodes, deletedCodes, \* auth.permission
  roleCodes, grantedCodes, roleHolders, \* auth.role, what admin is granted, the roles of one administrator
  asSeeded,   \* history: nothing was switched off, withdrawn or purged since the roles were seeded
  holdHours, holdDays, \* the rows of public.system_setting that decide the payment hold
  positions, deletedPositions, incumbents, synced, \* org.position, its assignments, the persons with an account
  seeded,     \* the groups of rows that nothing here reads
  translated, \* the translations of each group
  commands,   \* the steps the running command has left
  ran, changes \* commands and edits so far

resourceRows == <<resourceCodes, hiddenResources, deletedResources>>
permRows == <<permCodes, inactiveCodes, deletedCodes>>
roleRows == <<roleCodes, grantedCodes, roleHolders>>
rbacRows == <<resourceRows, permRows, roleRows, asSeeded>>
holdRows == <<holdHours, holdDays>>
orgRows == <<positions, deletedPositions, incumbents, synced>>
catalogVars == <<locales, rbacRows, holdRows, orgRows, seeded, translated, commands, ran, changes>>

NoHold == [value |-> 0, active |-> FALSE, deleted |-> FALSE, built_in |-> FALSE]

-----------------------------------------------------------------------------
(* The seed data.                                                          *)

ENGLISH == <<"en">>
CHINESE_TRADITIONAL == <<"zh", "Hant", "TW">>
CHINESE_SIMPLIFIED == <<"zh", "Hans", "CN">>
seed_locales == {ENGLISH, CHINESE_TRADITIONAL, CHINESE_SIMPLIFIED}

\* What a locale row answers to: language, language-region, language-script-region.
_build_locale_variants(row) ==
  {<<row[1]>>} \cup (IF Len(row) = 3 THEN {<<row[1], row[3]>>, row} ELSE {})
_resolve_locale_id(rows, code) == {row \in rows : code \in _build_locale_variants(row)}
SUPPORTED_LOCALES == {<<"zh", "TW">>, <<"zh", "CN">>, <<"en">>}

seed_verbs == {"create", "read", "update", "delete"}
parent_resources == {<<"system">>, <<"content">>, <<"facility">>, <<"ministry">>, <<"org">>, <<"support">>}
system_resources == {"user", "resource", "permission", "role", "log", "setting"}
content_resources == {"file", "legal_document"}
facility_resources == {"room", "room_slot_template", "room_blackout", "rental_rate_template", "rental_rate", "booking",
                       "booking_payment", "booking_override_log"}
ministry_resources == {"ministry", "member", "approval"}
leaf_resources ==
  ({"system"} \X system_resources) \cup ({"content"} \X content_resources) \cup ({"facility"} \X facility_resources)
  \cup ({"ministry"} \X ministry_resources)
  \cup {<<"org", "position">>, <<"member", "person">>, <<"support", "feedback">>, <<"support", "faq">>}
\* The resources that are seeded invisible, to stay out of the side menu.
hidden_resources == {<<"facility", "rental_rate_template">>, <<"facility", "booking_payment">>}
excluded_prefixes == {<<"system", "resource">>, <<"system", "verb">>, <<"system", "fcm_device">>, <<"comms", "notification">>}

\* libs/consts/permission.py: the names the routers use.
Resource == [
  system_permission |-> <<"system", "permission">>, system_resource |-> <<"system", "resource">>,
  system_role |-> <<"system", "role">>, system_user |-> <<"system", "user">>, system_log |-> <<"system", "log">>,
  system_setting |-> <<"system", "setting">>, facility_room |-> <<"facility", "room">>,
  facility_room_slot_template |-> <<"facility", "room_slot_template">>,
  facility_room_blackout |-> <<"facility", "room_blackout">>, facility_rental_rate |-> <<"facility", "rental_rate">>,
  facility_rental_rate_template |-> <<"facility", "rental_rate_template">>,
  facility_booking |-> <<"facility", "booking">>, facility_booking_payment |-> <<"facility", "booking_payment">>,
  facility_booking_override_log |-> <<"facility", "booking_override_log">>,
  ministry_ministry |-> <<"ministry", "ministry">>, ministry_member |-> <<"ministry", "member">>,
  ministry_approval |-> <<"ministry", "approval">>, org_position |-> <<"org", "position">>,
  member_person |-> <<"member", "person">>, content_file |-> <<"content", "file">>,
  content_legal_document |-> <<"content", "legal_document">>]

\* Permission.<RESOURCE>.<verb>
PermissionCode(pair) == <<Resource[pair[1]], pair[2]>>

_POSITION_ROWS ==
  ({"ELDER"} \X {"CHAIRPERSON", "WORSHIP", "VICE_CHAIR", "PROPERTY", "TREASURER", "SECRETARY", "CHINESE_FELLOWSHIP",
                 "EDUCATION", "CHILDREN", "MISSION", "ENGLISH_FELLOWSHIP"})
  \cup ({"DEACON"} \X {"CHINESE_WORSHIP", "ENGLISH_WORSHIP", "FACILITY", "GENERAL_OPERATION", "CASHIER", "ADMINISTRATION",
                       "CHINESE_FELLOWSHIP", "CHILDREN", "CHINESE_EDUCATION", "ENGLISH_MISSION", "CHINESE_MISSION",
                       "CHINESE_CARING", "ENGLISH_CARING"})
  \cup ({"PASTOR"} \X {"SENIOR_PASTOR", "CARING_PASTOR", "ENGLISH_PASTOR", "CHINESE_PASTOR", "PART_TIME_CARING_PASTOR"})
  \cup {<<"STAFF", "SECRETARY">>}

\* The roster: a person is the set of Positions he holds.
_ASSIGNMENT_ROWS ==
  LET several == {{<<"ELDER", "CHAIRPERSON">>, <<"ELDER", "WORSHIP">>},
                  {<<"ELDER", "VICE_CHAIR">>, <<"ELDER", "PROPERTY">>, <<"ELDER", "TREASURER">>},
                  {<<"ELDER", "SECRETARY">>, <<"ELDER", "CHINESE_FELLOWSHIP">>},
                  {<<"ELDER", "EDUCATION">>, <<"ELDER", "CHILDREN">>},
                  {<<"ELDER", "MISSION">>, <<"ELDER", "ENGLISH_FELLOWSHIP">>}}
  IN  several \cup {{code} : code \in {row \in _POSITION_ROWS : row[1] # "ELDER"}}

\* Rooms, rate templates, discounts and surcharges of the Rental policy.
facility_seed_rows == {"rooms", "rate_templates", "discounts", "surcharges"}

\* The default of facility.pending_payment_hold_days.
seeded_hold_days == 3

-----------------------------------------------------------------------------
(* The commands, as the steps they run.                                    *)

Command == [
  init_all |-> <<"locales", "rbac", "settings", "positions", "audiences", "facility", "documents", "superuser">>,
  init_locales |-> <<"locales">>, init_rbac |-> <<"rbac">>, reset_rbac |-> <<"rbac_reset">>,
  seed_system_settings |-> <<"settings">>, seed_positions |-> <<"positions">>,
  seed_position_assignments |-> <<"assignments">>, seed_ministry_types |-> <<"ministry_types">>,
  seed_target_audiences |-> <<"audiences">>, seed_facility_rental |-> <<"facility">>,
  seed_facility_rental_reset |-> <<"facility_clear", "facility">>, seed_legal_documents |-> <<"documents">>,
  create_superuser |-> <<"superuser">>]

\* An environment after the migrations, perhaps one with the legacy setting.
CatalogInit ==
  /\ locales = {}
  /\ resourceCodes = {} /\ hiddenResources = {} /\ deletedResources = {}
  /\ permCodes = {} /\ inactiveCodes = {} /\ deletedCodes = {}
  /\ roleCodes = {} /\ grantedCodes = {} /\ roleHolders = {} /\ asSeeded = FALSE
  /\ holdDays = NoHold
  /\ holdHours \in {NoHold} \cup {[NoHold EXCEPT !.value = h, !.active = TRUE] : h \in LegacyHours}
  /\ positions = {} /\ deletedPositions = {} /\ incumbents = {} /\ synced \in {{}, _ASSIGNMENT_ROWS}
  /\ seeded = {} /\ translated = {}
  /\ commands = <<>> /\ ran = 0 /\ changes = 0

Start(name) ==
  /\ commands = <<>> /\ ran < MaxCommands
  /\ commands' = Command[name] /\ ran' = ran + 1
  /\ UNCHANGED <<locales, rbacRows, holdRows, orgRows, seeded, translated, changes>>

AtStep(step) == commands # <<>> /\ Head(commands) = step
StepDone == commands' = Tail(commands) /\ UNCHANGED <<ran, changes>>

\* The locales a translation of the group is written for; the others are skipped.
Translations(group) ==
  {group} \X UNION {_resolve_locale_id(locales, code) : code \in SUPPORTED_LOCALES}

\* English has no script and no region: ON CONFLICT does not meet its row, and
\* inserting its fixed id again fails.
init_locales ==
  /\ AtStep("locales")
  /\ ENGLISH \notin locales
  /\ locales' = locales \cup seed_locales
  /\ StepDone /\ UNCHANGED <<rbacRows, holdRows, orgRows, seeded, translated>>

\* Mutant: the permissions are inserted with ON CONFLICT DO NOTHING.
upsert_permissionsNothing(codes) ==
  /\ permCodes' = permCodes \cup codes
  /\ UNCHANGED <<inactiveCodes, deletedCodes>>

\* A permission of every leaf resource and verb, active again; a soft-deleted one stays so.
upsert_permissions(codes) ==
  /\ permCodes' = permCodes \cup codes
  /\ inactiveCodes' = inactiveCodes \ codes
  /\ UNCHANGED deletedCodes

\* The seed's resources are shown and hidden again as the seed data says; a
\* soft-deleted one stays so.
upsert_resources ==
  /\ resourceCodes' = resourceCodes \cup parent_resources \cup leaf_resources
  /\ hiddenResources' = (hiddenResources \ (parent_resources \cup leaf_resources)) \cup hidden_resources
  /\ UNCHANGED deletedResources

\* The roles are all deleted, and the users lose theirs; admin is created
\* and granted everything but the excluded resources, soft-deleted and all.
seed_roles ==
  /\ roleCodes' = {"admin"} /\ roleHolders' = {}
  /\ grantedCodes' = {code \in permCodes' : code[1] \notin excluded_prefixes}
  /\ asSeeded' = TRUE

run_rbac_seed ==
  /\ AtStep("rbac")
  /\ \A code \in SUPPORTED_LOCALES : _resolve_locale_id(locales, code) # {}
  /\ upsert_resources
  /\ upsert_permissions({code \in resourceCodes' : Len(code) > 1} \X seed_verbs)
  /\ seed_roles
  /\ translated' = translated \cup Translations("rbac")
  /\ StepDone /\ UNCHANGED <<locales, holdRows, orgRows, seeded>>

\* clear_rbac_data and the seed, in one transaction.
run_rbac_reset ==
  /\ AtStep("rbac_reset")
  /\ \A code \in SUPPORTED_LOCALES : _resolve_locale_id(locales, code) # {}
  /\ resourceCodes' = parent_resources \cup leaf_resources
  /\ hiddenResources' = hidden_resources /\ deletedResources' = {}
  /\ permCodes' = leaf_resources \X seed_verbs /\ inactiveCodes' = {} /\ deletedCodes' = {}
  /\ seed_roles
  /\ translated' = {t \in translated : t[1] # "rbac"} \cup Translations("rbac")
  /\ StepDone /\ UNCHANGED <<locales, holdRows, orgRows, seeded>>

-----------------------------------------------------------------------------
(* System settings: inserted when missing.  The days of the payment hold   *)
(* take over what the legacy hours say; odd hours are left to a human.     *)

\* Mutant: the conversion looks at the row whether it is deleted, active or not.
_legacy_hold_hours_conversionBlind ==
  IF holdHours.value = 0 THEN {seeded_hold_days}
  ELSE IF holdHours.value % 24 # 0 THEN {} ELSE {holdHours.value \div 24}

_legacy_hold_hours_conversion ==
  IF holdHours.value = 0 \/ holdHours.deleted \/ ~holdHours.active THEN {seeded_hold_days}
  ELSE IF holdHours.value % 24 # 0 THEN {} ELSE {holdHours.value \div 24}

\* A soft-deleted row is not found, and its key is still taken: the insert fails.
run_setting_seed ==
  /\ AtStep("settings")
  /\ IF holdDays # NoHold
     THEN ~holdDays.deleted /\ UNCHANGED holdDays
     ELSE holdDays' \in {[value |-> d, active |-> TRUE, deleted |-> FALSE, built_in |-> TRUE] : d \in _legacy_hold_hours_conversion}
                       \cup (IF _legacy_hold_hours_conversion = {} THEN {NoHold} ELSE {})
  /\ seeded' = seeded \cup {"settings"}
  /\ StepDone /\ UNCHANGED <<locales, rbacRows, holdHours, orgRows, translated>>

-----------------------------------------------------------------------------
(* Positions, catalogues, facility, documents, superuser.                  *)

run_position_seed ==
  /\ AtStep("positions")
  /\ positions' = positions \cup _POSITION_ROWS
  /\ translated' = translated \cup Translations("positions")
  /\ StepDone /\ UNCHANGED <<locales, rbacRows, holdRows, deletedPositions, incumbents, synced, seeded>>

\* Persons without an account are skipped; a Position that is missing or
\* soft-deleted fails the command.
run_position_assignment_seed ==
  /\ AtStep("assignments")
  /\ UNION synced \subseteq positions \ deletedPositions
  /\ incumbents' = incumbents \cup UNION synced
  /\ StepDone /\ UNCHANGED <<locales, rbacRows, holdRows, positions, deletedPositions, synced, seeded, translated>>

run_catalog_seed(group) ==
  /\ AtStep(group)
  /\ seeded' = seeded \cup {group}
  /\ translated' = translated \cup Translations(group)
  /\ StepDone /\ UNCHANGED <<locales, rbacRows, holdRows, orgRows>>

\* --reset: committed before the seed begins.  Series rows stay.
clear_facility_rental_catalog ==
  /\ AtStep("facility_clear")
  /\ seeded' = seeded \ (facility_seed_rows \cup {"bookings"})
  /\ translated' = {t \in translated : t[1] # "facility"}
  /\ StepDone /\ UNCHANGED <<locales, rbacRows, holdRows, orgRows>>

\* _upsert_room, _upsert_template, _upsert_discount, _upsert_surcharge.
upsert_facility_rows ==
  /\ seeded' = seeded \cup facility_seed_rows
  /\ translated' = translated \cup Translations("facility")

run_facility_rental_seed ==
  /\ AtStep("facility")
  /\ upsert_facility_rows
  /\ StepDone /\ UNCHANGED <<locales, rbacRows, holdRows, orgRows>>

run_legal_document_seed ==
  /\ AtStep("documents")
  /\ seeded' = seeded \cup {"documents"}
  /\ StepDone /\ UNCHANGED <<locales, rbacRows, holdRows, orgRows, translated>>

run_superuser_seed ==
  /\ AtStep("superuser")
  /\ seeded' = seeded \cup {"superuser"}
  /\ StepDone /\ UNCHANGED <<locales, rbacRows, holdRows, orgRows, translated>>

\* A step raises, or the process dies: its transaction is rolled back, and
\* the steps after it are not run.
FailFast ==
  /\ commands # <<>>
  /\ commands' = <<>>
  /\ UNCHANGED <<locales, rbacRows, holdRows, orgRows, seeded, translated, ran, changes>>

RunStep ==
  \/ init_locales \/ run_rbac_seed \/ run_rbac_reset \/ run_setting_seed
  \/ run_position_seed \/ run_position_assignment_seed
  \/ \E group \in {"audiences", "ministry_types"} : run_catalog_seed(group)
  \/ clear_facility_rental_catalog \/ run_facility_rental_seed \/ run_legal_document_seed \/ run_superuser_seed

-----------------------------------------------------------------------------
(* What administrators and members do meanwhile, through the API: the rows *)
(* the seeds write too.  An edit that changes nothing is left out.         *)

Changed == changes < MaxChanges /\ changes' = changes + 1 /\ UNCHANGED <<locales, synced, translated, commands, ran>>
RbacKept == UNCHANGED <<holdRows, positions, deletedPositions, incumbents, seeded>>
EditedCode == <<<<"facility", "room">>, "read">>
EditedResources == {<<"facility">>, <<"facility", "room">>}

update_permission(active) ==
  /\ Changed /\ EditedCode \in permCodes \ deletedCodes /\ active = (EditedCode \in inactiveCodes)
  /\ inactiveCodes' = IF active THEN inactiveCodes \ {EditedCode} ELSE inactiveCodes \cup {EditedCode}
  /\ asSeeded' = (asSeeded /\ active)
  /\ RbacKept /\ UNCHANGED <<resourceRows, permCodes, deletedCodes, roleRows>>

delete_permission ==
  /\ Changed /\ EditedCode \in permCodes \ deletedCodes
  /\ deletedCodes' = deletedCodes \cup {EditedCode}
  /\ RbacKept /\ UNCHANGED <<resourceRows, permCodes, inactiveCodes, roleRows, asSeeded>>

restore_permission ==
  /\ Changed /\ EditedCode \in deletedCodes
  /\ deletedCodes' = deletedCodes \ {EditedCode}
  /\ RbacKept /\ UNCHANGED <<resourceRows, permCodes, inactiveCodes, roleRows, asSeeded>>

\* Rows deleted for good, and by cascade what refers to them.
Purge(codes) ==
  /\ permCodes' = permCodes \ codes /\ inactiveCodes' = inactiveCodes \ codes /\ deletedCodes' = deletedCodes \ codes
  /\ grantedCodes' = grantedCodes \ codes
  /\ asSeeded' = FALSE
  /\ UNCHANGED <<roleCodes, roleHolders>>

delete_permission_permanently ==
  /\ Changed /\ EditedCode \in permCodes
  /\ Purge({EditedCode})
  /\ RbacKept /\ UNCHANGED resourceRows

assign_role_permissions ==
  /\ Changed /\ "admin" \in roleCodes /\ EditedCode \in grantedCodes
  /\ grantedCodes' = grantedCodes \ {EditedCode} /\ asSeeded' = FALSE
  /\ RbacKept /\ UNCHANGED <<resourceRows, permRows, roleCodes, roleHolders>>

create_role_and_bind ==
  /\ Changed /\ "helper" \notin roleCodes
  /\ roleCodes' = roleCodes \cup {"helper"} /\ roleHolders' = roleHolders \cup {"helper"}
  /\ RbacKept /\ UNCHANGED <<resourceRows, permRows, grantedCodes, asSeeded>>

create_resource ==
  /\ Changed /\ <<"facility", "parking">> \notin resourceCodes
  /\ resourceCodes' = resourceCodes \cup {<<"facility", "parking">>}
  /\ RbacKept /\ UNCHANGED <<hiddenResources, deletedResources, permRows, roleRows, asSeeded>>

\* A resource and its direct children.
Tree(resource) ==
  {r \in resourceCodes : r = resource \/ (Len(r) = 2 /\ resource = <<r[1]>>)}

update_resource(resource, visible) ==
  /\ Changed /\ resource \in resourceCodes /\ visible = (resource \in hiddenResources)
  /\ hiddenResources' = IF visible THEN hiddenResources \ {resource} ELSE hiddenResources \cup {resource}
  /\ asSeeded' = (asSeeded /\ visible)
  /\ RbacKept /\ UNCHANGED <<resourceCodes, deletedResources, permRows, roleRows>>

delete_resource(resource) ==
  /\ Changed /\ ~(Tree(resource) \subseteq deletedResources)
  /\ deletedResources' = deletedResources \cup Tree(resource)
  /\ RbacKept /\ UNCHANGED <<resourceCodes, hiddenResources, permRows, roleRows, asSeeded>>

restore_resource(resource) ==
  /\ Changed /\ Tree(resource) \cap deletedResources # {}
  /\ deletedResources' = deletedResources \ Tree(resource)
  /\ RbacKept /\ UNCHANGED <<resourceCodes, hiddenResources, permRows, roleRows, asSeeded>>

delete_resource_permanently(resource) ==
  /\ Changed /\ resource \in resourceCodes
  /\ resourceCodes' = resourceCodes \ Tree(resource)
  /\ hiddenResources' = hiddenResources \ Tree(resource) /\ deletedResources' = deletedResources \ Tree(resource)
  /\ Purge({code \in permCodes : code[1] \in Tree(resource)})
  /\ RbacKept

HoldKept == UNCHANGED <<rbacRows, positions, deletedPositions, incumbents, seeded>>

save_hold_days(d, active) ==
  /\ Changed /\ ~holdDays.deleted
  /\ holdDays' = [holdDays EXCEPT !.value = d, !.active = active]
  /\ HoldKept /\ UNCHANGED holdHours

delete_hold_days ==
  /\ Changed /\ holdDays # NoHold /\ ~holdDays.built_in /\ ~holdDays.deleted
  /\ holdDays' = [holdDays EXCEPT !.deleted = TRUE]
  /\ HoldKept /\ UNCHANGED holdHours

retire_hold_hours(gone) ==
  /\ Changed /\ holdHours # NoHold /\ ~holdHours.deleted
  /\ holdHours' = IF gone THEN [holdHours EXCEPT !.deleted = TRUE] ELSE [holdHours EXCEPT !.active = FALSE]
  /\ HoldKept /\ UNCHANGED holdDays

delete_position ==
  /\ Changed /\ <<"ELDER", "WORSHIP">> \in positions \ deletedPositions
  /\ deletedPositions' = {<<"ELDER", "WORSHIP">>}
  /\ UNCHANGED <<rbacRows, holdRows, positions, incumbents, seeded>>

member_books ==
  /\ Changed /\ "rooms" \in seeded /\ "bookings" \notin seeded
  /\ seeded' = seeded \cup {"bookings"}
  /\ UNCHANGED <<rbacRows, holdRows, positions, deletedPositions, incumbents>>

CatalogNext ==
  \/ \E name \in DOMAIN Command : Start(name)
  \/ RunStep \/ FailFast
  \/ \E active \in BOOLEAN : update_permission(active)
  \/ delete_permission \/ restore_permission \/ delete_permission_permanently
  \/ assign_role_permissions \/ create_role_and_bind \/ create_resource
  \/ \E resource \in EditedResources :
       \/ \E visible \in BOOLEAN : update_resource(resource, visible)
       \/ delete_resource(resource) \/ restore_resource(resource) \/ delete_resource_permanently(resource)
  \/ \E d \in HoldChoices, active \in BOOLEAN : save_hold_days(d, active)
  \/ delete_hold_days \/ \E gone \in BOOLEAN : retire_hold_hours(gone)
  \/ delete_position \/ member_books

CatalogSpec == CatalogInit /\ [][CatalogNext]_catalogVars

\* What the permission cache of an administrator is filled with at a sign-in.
list_user_role_permissions(code) ==
  /\ code \in permCodes /\ code \notin inactiveCodes /\ code \notin deletedCodes
  /\ code \in grantedCodes
  /\ code[1] \in resourceCodes /\ code[1] \notin hiddenResources /\ code[1] \notin deletedResources

-----------------------------------------------------------------------------
(* Properties.                                                             *)

\* The codes the routers ask for.
CodesOf(app) == UNION {{PermissionCode(pair) : pair \in Application(app)[i].config.codes} : i \in DOMAIN Application(app)}
RequiredCodes == CodesOf("admin") \cup CodesOf("api")

\* Of all the routes: each asks for codes that the seed data has.
ASSUME RoutersAssumption == RequiredCodes \subseteq leaf_resources \X seed_verbs

\* After a seed of the roles, and until something is switched off, withdrawn or
\* purged again, every code a router asks for is given to an administrator at a
\* sign-in, whatever was hidden, switched off or withdrawn before that seed.
\* Three kinds of endpoint stay closed to all but superusers: those of the
\* excluded resources; those of a resource that the seed hides, for a sign-in
\* skips it although the role is granted its codes; and those of a permission or
\* a resource that was soft-deleted, which the seed leaves so, though granted and
\* active, so that a restoration opens them (run_rbac_seed against the routers'
\* decorators and list_user_role_permissions).
RoutesAreGrantable ==
  asSeeded =>
    \A code \in RequiredCodes :
      \/ list_user_role_permissions(code)
      \/ code[1] \in excluded_prefixes \cup hidden_resources
      \/ code \in deletedCodes \/ code[1] \in deletedResources

\* get_pending_payment_hold_days: {} when it refuses to answer.
HoldInForce ==
  IF holdDays.active /\ ~holdDays.deleted THEN {holdDays.value}
  ELSE IF holdHours.active /\ ~holdHours.deleted /\ holdHours.value % 24 = 0 THEN {holdHours.value \div 24} ELSE {}

\* No command changes a payment hold that is in force, and none brings back
\* hours that an administrator has retired: a command that finds no hold in
\* force leaves none or the default (SystemSettingSeedService.run against
\* SettingService.get_pending_payment_hold_days).
SeedKeepsHoldInForce ==
  [][RunStep => HoldInForce' = HoldInForce \/ (HoldInForce = {} /\ HoldInForce' = {seeded_hold_days})]_catalogVars
=============================================================================
