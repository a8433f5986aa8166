------------------------------- MODULE Routes -------------------------------
(***************************************************************************)
(* The route tables of the two sub-applications, in declaration order, with *)
(* the AuthConfig each decorator attaches, and the two readings of them:    *)
(* which endpoint the framework dispatches a request to, and which          *)
(* AuthConfig the middleware, which runs before the framework has matched,  *)
(* finds for it and enforces.                                               *)
(*                                                                         *)
(* A path is its sequence of segments; "*" is a path parameter.             *)
(***************************************************************************)
EXTENDS Naturals, Sequences, SequencesExt

\* Permission.<RESOURCE>.<verb>, and no code at all.
Read(resource) == {<<resource, "read">>}
Create(resource) == {<<resource, "create">>}
Modify(resource) == {<<resource, "update">>}
Delete(resource) == {<<resource, "delete">>}
Anyone == {}

\* The decorators of AuthRouter.  Every router is built with require_auth left
\* at True, so that a route always has a configuration.
AuthConfig(codes) == [codes |-> codes, require_auth |-> TRUE, is_admin |-> FALSE, allow_superuser |-> FALSE]
Route(method, path, endpoint, codes) ==
    [method |-> method, path |-> path, endpoint |-> endpoint, config |-> AuthConfig(codes)]
get(path, endpoint, codes) == Route("GET", path, endpoint, codes)
post(path, endpoint, codes) == Route("POST", path, endpoint, codes)
put(path, endpoint, codes) == Route("PUT", path, endpoint, codes)
delete(path, endpoint, codes) == Route("DELETE", path, endpoint, codes)
patch(path, endpoint, codes) == Route("PATCH", path, endpoint, codes)
Open(route) == [route EXCEPT !.config.require_auth = FALSE]
Super(route) == [route EXCEPT !.config.allow_superuser = TRUE]

include_router(prefix, routes) == [i \in DOMAIN routes |-> [routes[i] EXCEPT !.path = prefix \o @]]

----------------------------------------------------------------------------
(* The admin API.                                                           *)

auth_router == <<
    Open(post(<<"local", "login">>, "admin_local_login", Anyone)),
    Open(post(<<"login">>, "admin_login", Anyone)),
    Open(post(<<"login", "microsoft">>, "admin_microsoft_login", Anyone)),
    Open(post(<<"refresh">>, "admin_refresh_token", Anyone)),
    post(<<"logout">>, "admin_logout", Anyone),
    get(<<"me">>, "admin_me", Anyone) >>

locale_router == <<
    get(<<"list">>, "get_locale_list", Anyone) >>

permission_router == <<
    get(<<"pages">>, "get_permission_pages", Read("system_permission")),
    get(<<"list">>, "get_permission_list", Read("system_permission")),
    Super(post(<<>>, "create_permission", Create("system_permission"))),
    get(<<"*">>, "get_permission", Read("system_permission")),
    Super(put(<<"restore">>, "restore_permission", Modify("system_permission"))),
    Super(put(<<"*">>, "update_permission", Modify("system_permission"))),
    Super(delete(<<"*">>, "delete_permission", Delete("system_permission"))) >>

resource_router == <<
    Super(post(<<>>, "create_resource", Create("system_resource"))),
    Super(delete(<<"*">>, "delete_resource", Delete("system_resource"))),
    Super(put(<<"restore", "*">>, "restore_resource", Modify("system_resource"))),
    Super(put(<<"change_parent", "*">>, "change_resource_parent", Modify("system_resource"))),
    Super(put(<<"*">>, "update_resource", Modify("system_resource"))),
    Super(post(<<"change_sequence">>, "change_resource_sequence", Modify("system_resource"))),
    get(<<"list">>, "get_resources", Read("system_resource")),
    get(<<"menus">>, "get_menus", Anyone),
    get(<<"*">>, "get_resource", Read("system_resource")) >>

role_router == <<
    get(<<"pages">>, "get_role_pages", Read("system_role")),
    get(<<"list">>, "get_role_list", Read("system_role")),
    get(<<"*">>, "get_role", Read("system_role")),
    Super(post(<<>>, "create_role", Create("system_role"))),
    Super(put(<<"*">>, "update_role", Modify("system_role"))),
    Super(delete(<<"*">>, "delete_role", Delete("system_role"))),
    Super(put(<<"restore", "*">>, "restore_role", Modify("system_role"))),
    Super(post(<<"*", "permissions">>, "assign_role_permissions", Modify("system_role"))) >>

user_router_1 == <<
    get(<<"pages">>, "get_user_pages", Read("system_user")),
    get(<<"list">>, "get_user_list", Read("system_user")),
    post(<<>>, "create_user", Create("system_user")),
    get(<<"me">>, "get_current_user", Anyone),
    put(<<"me">>, "update_current_user", Anyone),
    put(<<"me", "preferred-language">>, "update_current_user_preferred_locale", Anyone),
    get(<<"*", "roles">>, "get_user_roles", Read("system_user")),
    get(<<"*">>, "get_user", Read("system_user")),
    put(<<"restore">>, "restore_users", Modify("system_user")),
    Super(post(<<"*", "bind_role">>, "bind_roles_to_user", Modify("system_user"))) >>

user_router_2 == <<
    post(<<"*", "change_password">>, "change_user_password", Modify("system_user")),
    put(<<"*">>, "update_user", Modify("system_user")),
    delete(<<"*">>, "delete_user", Delete("system_user")) >>

user_router == user_router_1 \o user_router_2

verb_router == <<
    get(<<"list">>, "get_verb_list", Read("system_resource")) >>

room_router == <<
    get(<<"pages">>, "get_room_pages", Read("facility_room")),
    get(<<"list">>, "get_room_list", Read("facility_room")),
    post(<<>>, "create_room", Create("facility_room")),
    get(<<"*">>, "get_room", Read("facility_room")),
    put(<<"*">>, "update_room", Modify("facility_room")),
    delete(<<"*">>, "delete_room", Delete("facility_room")),
    put(<<"restore">>, "restore_rooms", Modify("facility_room")) >>

room_slot_template_router == <<
    get(<<"pages">>, "get_room_slot_template_pages", Read("facility_room_slot_template")),
    get(<<"list">>, "get_room_slot_template_list", Read("facility_room_slot_template")),
    post(<<>>, "create_room_slot_template", Create("facility_room_slot_template")),
    get(<<"*">>, "get_room_slot_template", Read("facility_room_slot_template")),
    put(<<"*">>, "update_room_slot_template", Modify("facility_room_slot_template")),
    delete(<<"*">>, "delete_room_slot_template", Delete("facility_room_slot_template")),
    put(<<"*", "restore">>, "restore_room_slot_template", Modify("facility_room_slot_template")) >>

room_blackout_router == <<
    get(<<"pages">>, "get_room_blackout_pages", Read("facility_room_blackout")),
    get(<<"list">>, "get_room_blackout_list", Read("facility_room_blackout")),
    post(<<"impact">>, "preview_room_blackout_impact", Create("facility_room_blackout")),
    post(<<>>, "create_room_blackout", Create("facility_room_blackout")),
    get(<<"*">>, "get_room_blackout", Read("facility_room_blackout")),
    put(<<"*">>, "update_room_blackout", Modify("facility_room_blackout")),
    delete(<<"*">>, "delete_room_blackout", Delete("facility_room_blackout")),
    put(<<"*", "restore">>, "restore_room_blackout", Modify("facility_room_blackout")) >>

rental_rate_template_router == <<
    get(<<"pages">>, "get_rental_rate_template_pages", Read("facility_rental_rate_template")),
    get(<<"list">>, "get_rental_rate_template_list", Read("facility_rental_rate_template")),
    post(<<>>, "create_rental_rate_template", Create("facility_rental_rate_template")),
    get(<<"*">>, "get_rental_rate_template", Read("facility_rental_rate_template")),
    put(<<"*">>, "update_rental_rate_template", Modify("facility_rental_rate_template")),
    delete(<<"*">>, "delete_rental_rate_template", Delete("facility_rental_rate_template")),
    put(<<"*", "restore">>, "restore_rental_rate_template", Modify("facility_rental_rate_template")) >>

rental_rate_router == <<
    get(<<"pages">>, "get_rental_rate_pages", Read("facility_rental_rate")),
    get(<<"list">>, "get_rental_rate_list", Read("facility_rental_rate")),
    post(<<"preview-quote">>, "preview_quote", Read("facility_rental_rate")),
    post(<<>>, "create_rental_rate", Create("facility_rental_rate")),
    get(<<"*">>, "get_rental_rate", Read("facility_rental_rate")),
    put(<<"*">>, "update_rental_rate", Modify("facility_rental_rate")),
    delete(<<"*">>, "delete_rental_rate", Delete("facility_rental_rate")),
    put(<<"*", "restore">>, "restore_rental_rate", Modify("facility_rental_rate")) >>

rental_catalog_router == <<
    get(<<"discount-rules">>, "list_discount_rules", Read("facility_rental_rate")),
    post(<<"discount-rules">>, "create_discount_rule", Create("facility_rental_rate")),
    get(<<"discount-rules", "*">>, "get_discount_rule", Read("facility_rental_rate")),
    put(<<"discount-rules", "*">>, "update_discount_rule", Modify("facility_rental_rate")),
    delete(<<"discount-rules", "*">>, "delete_discount_rule", Delete("facility_rental_rate")),
    get(<<"surcharges">>, "list_surcharges", Read("facility_rental_rate")),
    post(<<"surcharges">>, "create_surcharge", Create("facility_rental_rate")),
    get(<<"surcharges", "*">>, "get_surcharge", Read("facility_rental_rate")),
    put(<<"surcharges", "*">>, "update_surcharge", Modify("facility_rental_rate")),
    delete(<<"surcharges", "*">>, "delete_surcharge", Delete("facility_rental_rate")) >>

booking_router == <<
    get(<<"pages">>, "get_booking_pages", Read("facility_booking")),
    get(<<"range">>, "get_booking_range", Read("facility_booking")),
    post(<<"discount-eligibility">>, "evaluate_discount_eligibility", Read("facility_booking")),
    post(<<>>, "create_booking", Create("facility_booking")),
    get(<<"*">>, "get_booking_detail", Read("facility_booking")),
    put(<<"*">>, "update_booking", Modify("facility_booking")),
    post(<<"*", "cancel">>, "cancel_booking", Modify("facility_booking")) >>

booking_series_router == <<
    get(<<"pending-payment">>, "list_pending_payment_booking_series", Read("facility_booking_payment")),
    post(<<"preview">>, "preview_booking_series", Create("facility_booking")),
    post(<<>>, "create_booking_series", Create("facility_booking")),
    post(<<"*", "confirm-payment">>, "confirm_booking_series_payment", Modify("facility_booking_payment")),
    get(<<"*">>, "get_booking_series", Read("facility_booking")),
    post(<<"*", "cancel">>, "cancel_booking_series", Modify("facility_booking")) >>

override_log_router == <<
    get(<<"pages">>, "get_override_log_pages", Read("facility_booking_override_log")) >>

ministry_router == <<
    get(<<"pages">>, "get_ministry_pages", Read("ministry_ministry")),
    get(<<"list">>, "get_ministry_list", Read("ministry_ministry")),
    get(<<"steward-directory">>, "get_steward_directory", Read("ministry_ministry")),
    post(<<>>, "create_ministry", Create("ministry_ministry")),
    get(<<"*">>, "get_ministry", Read("ministry_ministry")),
    put(<<"*">>, "update_ministry", Modify("ministry_ministry")),
    delete(<<"*">>, "delete_ministry", Delete("ministry_ministry")),
    put(<<"restore">>, "restore_ministries", Modify("ministry_ministry")),
    put(<<"*", "members">>, "replace_ministry_members", Modify("ministry_member")),
    post(<<"*", "submit">>, "submit_ministry", Modify("ministry_ministry")),
    post(<<"*", "approve">>, "approve_ministry", Modify("ministry_approval")),
    post(<<"*", "reject">>, "reject_ministry", Modify("ministry_approval")) >>

ministry_approval_router == <<
    get(<<"pages">>, "get_pending_approval_pages", Read("ministry_approval")) >>

ministry_catalog_router == <<
    get(<<"ministry-types">>, "get_ministry_types", Read("ministry_ministry")),
    get(<<"target-audiences">>, "get_target_audiences", Read("ministry_ministry")) >>

position_router == <<
    get(<<"pages">>, "get_position_pages", Read("org_position")),
    get(<<"assignable">>, "get_assignable_positions", Read("org_position")),
    post(<<>>, "create_position", Create("org_position")),
    get(<<"*">>, "get_position", Read("org_position")),
    put(<<"*">>, "update_position", Modify("org_position")),
    delete(<<"*">>, "delete_position", Delete("org_position")),
    put(<<"restore">>, "restore_positions", Modify("org_position")),
    put(<<"*", "assign">>, "assign_position", Modify("org_position")) >>

member_router == <<
    get(<<"pages">>, "get_member_person_pages", Read("member_person")),
    post(<<>>, "create_member_person", Create("member_person")),
    get(<<"*">>, "get_member_person", Read("member_person")),
    put(<<"*">>, "update_member_person", Modify("member_person")),
    put(<<"*", "link">>, "link_member_person", Modify("member_person")) >>

file_router == <<
    get(<<"pages">>, "get_file_pages", Read("content_file")),
    get(<<"summary">>, "get_file_summary", Read("content_file")),
    post(<<"upload">>, "upload_file", Create("content_file")),
    post(<<"batch_upload">>, "upload_multiple_files", Create("content_file")),
    post(<<"association-preview">>, "preview_file_associations", Read("content_file")),
    delete(<<"bulk">>, "delete_files", Delete("content_file")) >>

legal_document_router == <<
    get(<<"pages">>, "get_legal_document_pages", Read("content_legal_document")),
    post(<<>>, "create_legal_document", Create("content_legal_document")),
    put(<<"restore">>, "restore_legal_documents", Modify("content_legal_document")),
    get(<<"*">>, "get_legal_document", Read("content_legal_document")),
    put(<<"*">>, "update_legal_document", Modify("content_legal_document")),
    delete(<<"*">>, "delete_legal_document", Delete("content_legal_document")) >>

setting_router == <<
    get(<<"list">>, "list_settings", Read("system_setting")),
    get(<<"by-key">>, "get_setting_by_key", Read("system_setting")),
    post(<<>>, "create_setting", Create("system_setting")),
    put(<<"restore">>, "restore_settings", Delete("system_setting")),
    get(<<"*">>, "get_setting", Read("system_setting")),
    put(<<"*">>, "update_setting", Modify("system_setting")),
    delete(<<"*">>, "delete_setting", Delete("system_setting")) >>

----------------------------------------------------------------------------
(* The member API.                                                          *)

api_auth_router == <<
    Open(post(<<"mock-login">>, "member_mock_login", Anyone)),
    Open(post(<<"login", "microsoft">>, "member_microsoft_login", Anyone)),
    Open(post(<<"refresh">>, "member_refresh_token", Anyone)),
    post(<<"logout">>, "member_logout", Anyone),
    get(<<"me">>, "member_me", Anyone),
    put(<<"me", "preferred-language">>, "member_update_preferred_locale", Anyone) >>

api_org_router == <<
    get(<<"positions", "assignable">>, "get_assignable_positions", Anyone),
    get(<<"users", "search">>, "search_users", Anyone),
    get(<<"locales">>, "get_locales", Anyone) >>

api_ministry_approval_router == <<
    get(<<"pending-for-me">>, "get_pending_approvals_for_incumbent", Anyone),
    get(<<"*">>, "get_approval_detail", Anyone),
    post(<<"*", "approve">>, "approve_ministry_as_incumbent", Anyone),
    post(<<"*", "reject">>, "reject_ministry_as_incumbent", Anyone) >>

api_ministry_router == <<
    get(<<"ministries", "mine">>, "get_owned_ministries", Anyone),
    get(<<"ministries", "mine", "*">>, "get_ministry_profile", Anyone),
    post(<<"applications">>, "create_ministry_application", Anyone),
    put(<<"applications", "*">>, "update_rejected_ministry_application", Anyone),
    post(<<"applications", "*", "submit">>, "resubmit_ministry_application", Anyone),
    get(<<"catalog", "ministry-types">>, "get_ministry_types", Anyone),
    get(<<"catalog", "target-audiences">>, "get_target_audiences", Anyone) >>

api_facility_router_1 == <<
    get(<<"rooms", "availability">>, "get_rooms_availability", Anyone),
    post(<<"preview-quote">>, "preview_quote", Anyone),
    post(<<"discount-eligibility">>, "evaluate_discount_eligibility", Anyone),
    get(<<"bookings", "mine">>, "get_my_bookings", Anyone),
    get(<<"bookings", "*">>, "get_my_booking", Anyone),
    patch(<<"bookings", "*", "title">>, "update_my_booking_title", Anyone),
    post(<<"booking-series", "preview">>, "preview_booking_series", Anyone),
    get(<<"booking-series", "availability-window">>, "get_booking_series_availability_window", Anyone),
    post(<<"booking-series">>, "create_booking_series", Anyone),
    get(<<"booking-series", "*">>, "get_my_booking_series", Anyone),
    patch(<<"booking-series", "*", "title">>, "update_my_booking_series_title", Anyone),
    post(<<"booking-series", "*", "cancel">>, "cancel_my_booking_series", Anyone),
    post(<<"bookings">>, "create_booking", Anyone),
    post(<<"bookings", "*", "cancel">>, "cancel_my_booking", Anyone),
    post(<<"booking-drafts">>, "create_booking_draft", Anyone) >>

api_facility_router_2 == <<
    delete(<<"booking-drafts">>, "delete_my_booking_drafts", Anyone),
    get(<<"booking-drafts", "*">>, "get_booking_draft", Anyone),
    patch(<<"booking-drafts", "*">>, "update_booking_draft", Anyone),
    post(<<"booking-series-drafts">>, "create_booking_series_draft", Anyone),
    delete(<<"booking-series-drafts">>, "delete_my_booking_series_drafts", Anyone),
    get(<<"booking-series-drafts", "*">>, "get_booking_series_draft", Anyone),
    patch(<<"booking-series-drafts", "*">>, "update_booking_series_draft", Anyone),
    post(<<"booking-series-drafts", "*", "confirm">>, "confirm_booking_series_draft", Anyone) >>

api_facility_router == api_facility_router_1 \o api_facility_router_2

api_legal_document_router == <<
    Open(get(<<"*", "*">>, "get_public_legal_document", Anyone)) >>

----------------------------------------------------------------------------
(* The tables of the two applications, in the order of the includes.        *)

facility_router ==
    include_router(<<"rooms">>, room_router)
    \o include_router(<<"room-slot-templates">>, room_slot_template_router)
    \o include_router(<<"room-blackouts">>, room_blackout_router)
    \o include_router(<<"rental-rate-templates">>, rental_rate_template_router)
    \o include_router(<<"rental-rates">>, rental_rate_router)
    \o rental_catalog_router
    \o include_router(<<"bookings">>, booking_router)
    \o include_router(<<"booking-series">>, booking_series_router)
    \o include_router(<<"booking-override-logs">>, override_log_router)

admin_v1_router ==
    include_router(<<"auth">>, auth_router)
    \o include_router(<<"locale">>, locale_router)
    \o include_router(<<"permission">>, permission_router)
    \o include_router(<<"resource">>, resource_router)
    \o include_router(<<"role">>, role_router)
    \o include_router(<<"user">>, user_router)
    \o include_router(<<"verb">>, verb_router)
    \o include_router(<<"facility">>, facility_router)
    \o include_router(<<"ministry", "ministries">>, ministry_router)
    \o include_router(<<"ministry", "approvals">>, ministry_approval_router)
    \o include_router(<<"ministry", "catalog">>, ministry_catalog_router)
    \o include_router(<<"org", "positions">>, position_router)
    \o include_router(<<"org", "members">>, member_router)
    \o include_router(<<"content", "file">>, file_router)
    \o include_router(<<"content", "legal-document">>, legal_document_router)
    \o include_router(<<"system", "settings">>, setting_router)

api_v1_router ==
    include_router(<<"auth">>, api_auth_router)
    \o include_router(<<"org">>, api_org_router)
    \o include_router(<<"ministry", "approvals">>, api_ministry_approval_router)
    \o include_router(<<"ministry">>, api_ministry_router)
    \o include_router(<<"facility">>, api_facility_router)
    \o include_router(<<"content", "legal-document">>, api_legal_document_router)

\* get_admin_application and get_api_application: every router of the admin
\* application is built with is_admin.
Application(app) ==
    IF app = "admin"
    THEN [i \in DOMAIN admin_v1_router |-> [admin_v1_router[i] EXCEPT !.config.is_admin = TRUE]]
    ELSE api_v1_router

----------------------------------------------------------------------------
(* Matching.                                                                *)

Matches(route, method, path) ==
    /\ route.method = method
    /\ Len(route.path) = Len(path)
    /\ \A i \in DOMAIN path : route.path[i] \in {"*", path[i]}

\* The framework: the first route that matches.
Dispatched(app, method, path) ==
    SelectInSeq(Application(app), LAMBDA route : Matches(route, method, path))

\* Mutant: the table is searched without looking at the method.
ConfigAnyMethod(app, method, path) ==
    SelectInSeq(Application(app), LAMBDA route : Matches(route, route.method, path))

\* The middleware: the first route that matches and has a configuration.
_get_auth_config_from_route(app, method, path) ==
    SelectInSeq(Application(app), LAMBDA route : Matches(route, method, path))
=============================================================================
