------------------------------- MODULE Migrations -------------------------------
(***************************************************************************)
(* The Alembic revisions, statement by statement.  Each table_... is what  *)
(* one op.create_table (with the unique indexes created after it) makes;   *)
(* each upgrade_... and downgrade_... is the body of that function of the  *)
(* revision whose identifier starts with those four characters.  A command *)
(* runs all of its revisions in one transaction (alembic/env.py).          *)
(***************************************************************************)
EXTENDS OrmModels, SequencesExt

VARIABLES at, db, job
migrationVars == <<at, db, job>>

Audited(required, optional, refs, unique) ==
    Table(required \cup {"id"} \cup AuditMixin.required, optional \cup AuditMixin.optional,
          refs, unique)

Op(kind, table, what) == [kind |-> kind, table |-> table, what |-> what]

NewTable(table, as) == Op("create_table", table, as)
Drop(table) == Op("drop_table", table, {})
Drops(tables) == [i \in DOMAIN tables |-> Drop(tables[i])]
AddColumn(table, columns) == Op("add_column", table, columns)
AddDefaulted(table, columns) == Op("add_defaulted", table, columns)
AddRequired(table, columns) == Op("add_required", table, columns)
DropColumn(table, columns) == Op("drop_column", table, columns)
Relax(table, column) == Op("relax", table, column)
Tighten(table, column) == Op("tighten", table, column)
AddRef(table, ref) == Op("create_foreign_key", table, ref)
DropRef(table, ref) == Op("drop_foreign_key", table, ref)
AddUnique(table, columns) == Op("create_unique", table, columns)
DropUnique(table, columns) == Op("drop_unique", table, columns)

table_log == Table(
    {"id", "operation_type", "created_at", "created_by"}, {"record_id", "operation_code",
    "old_data", "new_data", "changed_fields", "ip_address", "user_agent", "created_by_id",
    "remark"}, {}, {})

table_resource == Audited(
    {"key", "code", "type", "is_visible", "is_deleted"}, {"pid", "icon", "path",
    "delete_reason", "sequence"}, {<<"pid", "auth.resource", "CASCADE">>}, {<<"code">>,
    <<"key">>})

table_role == Audited(
    {"code", "is_deleted"}, {"is_active", "delete_reason"}, {}, {<<"code">>})

table_user == Audited(
    {"is_deleted"}, {"email", "phone_number", "password_hash", "salt", "verified",
    "is_active", "is_superuser", "is_admin", "password_changed_at", "password_expires_at",
    "last_login_at", "remark", "delete_reason"}, {}, {<<"email">>, <<"phone_number">>})

table_verb == Audited(
    {"action", "is_deleted"}, {"is_active", "delete_reason"}, {}, {<<"action">>})

table_system_locale == Audited(
    {"language_code", "is_deleted"}, {"script_code", "region_code", "name", "native_name",
    "is_active", "is_default", "delete_reason", "sequence", "remark"}, {},
    {<<"language_code", "script_code", "region_code">>})

table_device == Audited(
    {"user_id", "first_seen_at", "last_seen_at", "is_deleted"}, {"last_ip",
    "last_user_agent", "delete_reason"}, {<<"user_id", "auth.user", "CASCADE">>}, {<<"id",
    "user_id">>})

table_permission == Audited(
    {"resource_id", "verb_id", "code", "is_deleted"}, {"is_active", "delete_reason"},
    {<<"resource_id", "auth.resource", "CASCADE">>, <<"verb_id", "auth.verb", "CASCADE">>},
    {<<"code">>, <<"resource_id", "verb_id">>})

table_resource_translation == Audited(
    {"resource_id", "locale_id", "name"}, {"description", "remark"}, {<<"locale_id",
    "public.system_locale", "CASCADE">>, <<"resource_id", "auth.resource", "CASCADE">>},
    {<<"resource_id", "locale_id">>})

table_role_translation == Audited(
    {"role_id", "locale_id", "name"}, {"description", "remark"}, {<<"locale_id",
    "public.system_locale", "CASCADE">>, <<"role_id", "auth.role", "CASCADE">>},
    {<<"role_id", "locale_id">>})

table_user_profile == Audited(
    {"user_id", "first_name", "last_name"}, {"title", "gender", "preferred_name",
    "preferred_language", "description"}, {<<"user_id", "auth.user", "CASCADE">>},
    {<<"user_id">>})

table_user_role == Table(
    {"user_id", "role_id"}, {}, {<<"role_id", "auth.role", "CASCADE">>, <<"user_id",
    "auth.user", "CASCADE">>}, {})

table_user_third_party == Audited(
    {"user_id", "provider", "provider_tenant_id", "provider_uid", "is_deleted"},
    {"access_token", "refresh_token", "token_expires_at", "additional_data",
    "delete_reason"}, {<<"user_id", "auth.user", "CASCADE">>}, {<<"user_id", "provider",
    "provider_uid">>})

table_verb_translation == Audited(
    {"verb_id", "locale_id", "name"}, {"description", "remark"}, {<<"locale_id",
    "public.system_locale", "CASCADE">>, <<"verb_id", "auth.verb", "CASCADE">>},
    {<<"verb_id", "locale_id">>})

table_permission_translation == Audited(
    {"permission_id", "locale_id", "name"}, {"description", "remark"}, {<<"locale_id",
    "public.system_locale", "CASCADE">>, <<"permission_id", "auth.permission", "CASCADE">>},
    {<<"permission_id", "locale_id">>})

table_refresh_token == Audited(
    {"user_id", "family_id", "token_hash", "expires_at", "is_deleted"}, {"device_id",
    "parent_id", "replaced_by_id", "last_used_at", "revoked_at", "revoked_reason", "ip",
    "user_agent", "delete_reason"}, {<<"device_id", "auth.device", "SET NULL">>,
    <<"parent_id", "auth.refresh_token", "SET NULL">>, <<"replaced_by_id",
    "auth.refresh_token", "SET NULL">>, <<"user_id", "auth.user", "CASCADE">>},
    {<<"token_hash">>})

table_role_permission == Table(
    {"role_id", "permission_id"}, {"expire_date"}, {<<"permission_id", "auth.permission",
    "CASCADE">>, <<"role_id", "auth.role", "CASCADE">>}, {<<"role_id", "permission_id">>})

table_rental_discount_rule == Audited(
    {"code", "percent_off", "is_active", "is_deleted"}, {"description", "delete_reason"},
    {}, {<<"code">>})

table_rental_surcharge == Audited(
    {"code", "charge_type", "unit_amount", "currency", "is_active", "is_deleted"},
    {"applies_to_booking_type", "remark", "delete_reason"}, {}, {<<"code">>})

table_room == Audited(
    {"code", "is_active", "is_deleted"}, {"room_number", "capacity", "sequence",
    "delete_reason"}, {}, {<<"code">>})

table_person == Audited(
    {}, {"user_id", "legal_name"}, {<<"user_id", "auth.user", "SET NULL">>}, {<<"user_id">>})

table_position == Audited(
    {"code", "can_own_ministry", "is_active", "is_deleted"}, {"sequence", "delete_reason"},
    {}, {<<"code">>})

table_rental_policy_setting == Audited(
    {"setting_key", "amount", "currency", "is_active", "is_deleted"}, {"facility_id",
    "delete_reason"}, {<<"facility_id", "facility.room", "CASCADE">>}, {<<"setting_key",
    "facility_id">>})

table_rental_rate == Audited(
    {"facility_id", "billing_unit", "unit_amount", "currency", "is_default", "is_active",
    "is_deleted"}, {"effective_from", "effective_to", "sequence", "delete_reason"},
    {<<"facility_id", "facility.room", "CASCADE">>}, {<<"facility_id", "billing_unit",
    "effective_from">>})

table_room_slot_template == Audited(
    {"facility_id", "name", "days_of_week_mask", "start_time", "end_time",
    "slot_duration_minutes", "is_active", "is_deleted"}, {"effective_from", "effective_to",
    "delete_reason"}, {<<"facility_id", "facility.room", "CASCADE">>}, {})

table_room_translation == Audited(
    {"room_id", "locale_id", "name"}, {"description", "remark"}, {<<"locale_id",
    "public.system_locale", "CASCADE">>, <<"room_id", "facility.room", "CASCADE">>},
    {<<"room_id", "locale_id">>})

table_ministry == Audited(
    {"status", "has_priority_booking", "is_active", "is_deleted"}, {"owner_position_id",
    "submitted_at", "submitted_by_id", "approved_at", "approved_by_id", "rejected_at",
    "rejected_by_id", "rejection_reason", "sequence", "delete_reason"}, {<<"approved_by_id",
    "auth.user", "SET NULL">>, <<"created_by_id", "auth.user", "SET NULL">>,
    <<"owner_position_id", "org.position", "SET NULL">>, <<"rejected_by_id", "auth.user",
    "SET NULL">>, <<"submitted_by_id", "auth.user", "SET NULL">>}, {})

table_position_assignment == Audited(
    {"position_id", "user_id", "start_at"}, {"end_at"}, {<<"position_id", "org.position",
    "CASCADE">>, <<"user_id", "auth.user", "CASCADE">>}, {})

table_position_translation == Audited(
    {"position_id", "locale_id", "team", "office", "name"}, {"description", "remark"},
    {<<"locale_id", "public.system_locale", "CASCADE">>, <<"position_id", "org.position",
    "CASCADE">>}, {<<"position_id", "locale_id">>})

table_booking == Audited(
    {"user_id", "booking_type", "start_at", "end_at", "status", "is_mission_aligned",
    "is_deleted"}, {"facility_id", "ministry_id", "recurrence_rule", "recurrence_end_at",
    "billed_hours", "subtotal_amount", "discount_percent", "discount_amount",
    "surcharge_amount", "quoted_amount", "deposit_amount", "currency", "cancelled_at",
    "cancelled_by_id", "cancel_reason", "remark", "delete_reason"}, {<<"cancelled_by_id",
    "auth.user", "SET NULL">>, <<"facility_id", "facility.room", "NO ACTION">>,
    <<"ministry_id", "org.ministry", "SET NULL">>, <<"user_id", "auth.user", "NO ACTION">>},
    {})

table_rental_rate_translation == Audited(
    {"rental_rate_id", "locale_id", "name"}, {"description", "remark"}, {<<"locale_id",
    "public.system_locale", "CASCADE">>, <<"rental_rate_id", "facility.rental_rate",
    "CASCADE">>}, {<<"rental_rate_id", "locale_id">>})

table_ministry_approval == Audited(
    {"ministry_id", "status"}, {"owner_position_id", "requested_by_id", "resolved_by_id",
    "decided_at", "comment"}, {<<"ministry_id", "org.ministry", "CASCADE">>,
    <<"owner_position_id", "org.position", "SET NULL">>, <<"requested_by_id", "auth.user",
    "SET NULL">>, <<"resolved_by_id", "auth.user", "SET NULL">>}, {})

table_ministry_member == Audited(
    {"ministry_id", "user_id", "member_role"}, {"remark"}, {<<"ministry_id", "org.ministry",
    "CASCADE">>, <<"user_id", "auth.user", "CASCADE">>}, {<<"ministry_id", "user_id">>})

table_ministry_translation == Audited(
    {"ministry_id", "locale_id", "name"}, {"description", "remark"}, {<<"locale_id",
    "public.system_locale", "CASCADE">>, <<"ministry_id", "org.ministry", "CASCADE">>},
    {<<"ministry_id", "locale_id">>})

table_booking_override_log == Table(
    {"id", "facility_booking_id", "overridden_by_id", "facility_id", "outcome",
    "created_at", "created_by"}, {"overridden_booking_id", "reason", "created_by_id"},
    {<<"facility_booking_id", "facility.booking", "CASCADE">>, <<"facility_id",
    "facility.room", "NO ACTION">>, <<"overridden_booking_id", "facility.booking",
    "SET NULL">>, <<"overridden_by_id", "auth.user", "NO ACTION">>}, {})

table_booking_room == Audited(
    {"facility_booking_id", "facility_id", "sequence", "start_at", "end_at"},
    {"billed_hours", "pricing_tier_used", "rental_rate_id", "line_subtotal"},
    {<<"facility_booking_id", "facility.booking", "CASCADE">>, <<"facility_id",
    "facility.room", "NO ACTION">>, <<"rental_rate_id", "facility.rental_rate",
    "SET NULL">>}, {<<"facility_booking_id", "facility_id">>})

table_booking_slot == Audited(
    {"facility_booking_id", "facility_id", "start_at", "end_at", "status"}, {},
    {<<"facility_booking_id", "facility.booking", "CASCADE">>, <<"facility_id",
    "facility.room", "NO ACTION">>}, {})

table_booking_surcharge == Table(
    {"id", "facility_booking_id", "rental_surcharge_id", "quantity", "unit_amount",
    "line_amount", "created_at", "created_by"}, {"created_by_id"}, {<<"facility_booking_id",
    "facility.booking", "CASCADE">>, <<"rental_surcharge_id", "facility.rental_surcharge",
    "NO ACTION">>}, {})

table_ministry_type == Audited({"code", "is_active"}, {"sequence"}, {}, {<<"code">>})

table_target_audience == Audited({"code", "is_active"}, {"sequence"}, {}, {<<"code">>})

table_ministry_type_translation == Audited(
    {"ministry_type_id", "locale_id", "name"}, {"description"}, {<<"locale_id",
    "public.system_locale", "CASCADE">>, <<"ministry_type_id", "org.ministry_type",
    "CASCADE">>}, {<<"ministry_type_id", "locale_id">>})

table_target_audience_translation == Audited(
    {"target_audience_id", "locale_id", "name"}, {"description"}, {<<"locale_id",
    "public.system_locale", "CASCADE">>, <<"target_audience_id", "org.target_audience",
    "CASCADE">>}, {<<"target_audience_id", "locale_id">>})

table_ministry_schedule == Audited(
    {"ministry_id"}, {"days_of_week_mask", "start_time", "end_time", "effective_from",
    "effective_to", "sequence"}, {<<"ministry_id", "org.ministry", "CASCADE">>}, {})

table_ministry_target_audience == Audited(
    {"ministry_id", "target_audience_id"}, {}, {<<"ministry_id", "org.ministry",
    "CASCADE">>, <<"target_audience_id", "org.target_audience", "RESTRICT">>},
    {<<"ministry_id", "target_audience_id">>})

table_file == Audited(
    {"original_name", "key", "storage", "bucket", "region", "status", "version",
    "is_public"}, {"content_type", "extension", "size_bytes", "checksum_md5",
    "checksum_sha256", "width", "height", "duration_seconds", "source", "remark"}, {},
    {<<"bucket", "key">>})

table_file_association == Table(
    {"id", "file_id", "resource_id", "resource_name"}, {"sequence"}, {<<"file_id",
    "content.file", "CASCADE">>}, {})

table_room_blackout == Audited(
    {"name", "reason", "kind", "start_time", "end_time", "is_active", "is_deleted"},
    {"facility_id", "blackout_date", "days_of_week_mask", "effective_from", "effective_to",
    "delete_reason"}, {<<"facility_id", "facility.room", "CASCADE">>}, {})

table_rental_rate_template == Audited(
    {"name", "billing_unit", "unit_amount", "currency", "is_default", "is_active",
    "is_deleted"}, {"applicability", "delete_reason"}, {}, {<<"name">>})

table_rental_rate_translation_again == Audited(
    {"rental_rate_id", "locale_id", "name"}, {"description", "remark"}, {<<"locale_id",
    "public.system_locale", "CASCADE">>, <<"rental_rate_id", "facility.rental_rate",
    "CASCADE">>}, {<<"rental_rate_id", "locale_id">>})

table_system_setting == Audited(
    {"namespace", "setting_key", "value_type", "value", "is_built_in", "is_active",
    "is_deleted"}, {"delete_reason", "remark"}, {}, {<<"namespace", "setting_key">>})

table_legal_document == Audited(
    {"product", "kind", "is_deleted"}, {"delete_reason"}, {}, {<<"product", "kind">>})

table_legal_document_translation == Audited(
    {"legal_document_id", "locale_id", "body"}, {}, {<<"legal_document_id",
    "content.legal_document", "CASCADE">>, <<"locale_id", "public.system_locale",
    "CASCADE">>}, {<<"legal_document_id", "locale_id">>})

table_rental_policy_setting_again == Audited(
    {"setting_key", "amount", "currency", "is_active", "is_deleted"}, {"facility_id",
    "delete_reason"}, {<<"facility_id", "facility.room", "CASCADE">>}, {<<"setting_key",
    "facility_id">>})

table_booking_draft == Audited(
    {"user_id", "date"}, {"ministry_id"}, {<<"ministry_id", "org.ministry", "SET NULL">>,
    <<"user_id", "auth.user", "CASCADE">>}, {})

table_booking_draft_line == Audited(
    {"booking_draft_id", "facility_id", "sequence", "start_at", "end_at"}, {},
    {<<"booking_draft_id", "facility.booking_draft", "CASCADE">>, <<"facility_id",
    "facility.room", "NO ACTION">>}, {})

table_booking_series == Audited(
    {"user_id", "first_occurrence_date", "last_occurrence_date", "local_start_time",
    "local_end_time", "status", "is_mission_aligned", "is_priority", "is_deleted"},
    {"ministry_id", "payment_hold_expires_at", "billed_hours", "subtotal_amount",
    "discount_percent", "discount_amount", "surcharge_amount", "quoted_amount", "currency",
    "remark", "delete_reason"}, {<<"ministry_id", "org.ministry", "SET NULL">>, <<"user_id",
    "auth.user", "NO ACTION">>}, {})

table_booking_series_draft == Audited(
    {"user_id", "first_occurrence_date", "last_occurrence_date", "local_start_time",
    "local_end_time", "is_mission_aligned", "surcharge_codes", "excluded_dates"}, {"title",
    "ministry_id", "remark"}, {<<"ministry_id", "org.ministry", "SET NULL">>, <<"user_id",
    "auth.user", "CASCADE">>}, {})

table_booking_series_draft_room == Audited(
    {"series_draft_id", "facility_id", "sequence"}, {}, {<<"facility_id", "facility.room",
    "NO ACTION">>, <<"series_draft_id", "facility.booking_series_draft", "CASCADE">>}, {})

-----------------------------------------------------------------------------
upgrade_ea7f ==
    <<NewTable("audit.log", table_log), NewTable("auth.resource", table_resource),
    NewTable("auth.role", table_role), NewTable("auth.user", table_user),
    NewTable("auth.verb", table_verb),
    NewTable("public.system_locale", table_system_locale),
    NewTable("auth.device", table_device), NewTable("auth.permission", table_permission),
    NewTable("auth.resource_translation", table_resource_translation),
    NewTable("auth.role_translation", table_role_translation),
    NewTable("auth.user_profile", table_user_profile),
    NewTable("auth.user_role", table_user_role),
    NewTable("auth.user_third_party", table_user_third_party),
    NewTable("auth.verb_translation", table_verb_translation),
    NewTable("auth.permission_translation", table_permission_translation),
    NewTable("auth.refresh_token", table_refresh_token),
    NewTable("auth.role_permission", table_role_permission)>>

downgrade_ea7f == Drops(<<
    "auth.role_permission", "auth.refresh_token", "auth.permission_translation",
    "auth.verb_translation", "auth.user_third_party", "auth.user_role", "auth.user_profile",
    "auth.role_translation", "auth.resource_translation", "auth.permission", "auth.device",
    "public.system_locale", "auth.verb", "auth.user", "auth.role", "auth.resource",
    "audit.log">>)

upgrade_f2e4 ==
    <<AddUnique("auth.role_permission", <<"role_id", "permission_id">>),
    AddColumn("auth.user_profile", {"preferred_locale_id"}),
    AddRef("auth.user_profile", <<"preferred_locale_id", "public.system_locale", "SET NULL">>),
    DropColumn("auth.user_profile", {"preferred_language"})>>

downgrade_f2e4 ==
    <<AddColumn("auth.user_profile", {"preferred_language"}),
    DropRef("auth.user_profile", <<"preferred_locale_id", "public.system_locale", "SET NULL">>),
    DropColumn("auth.user_profile", {"preferred_locale_id"}),
    DropUnique("auth.role_permission", <<"role_id", "permission_id">>)>>

upgrade_ca9c ==
    <<NewTable("facility.rental_discount_rule", table_rental_discount_rule),
    NewTable("facility.rental_surcharge", table_rental_surcharge),
    NewTable("facility.room", table_room), NewTable("member.person", table_person),
    NewTable("org.position", table_position),
    NewTable("facility.rental_policy_setting", table_rental_policy_setting),
    NewTable("facility.rental_rate", table_rental_rate),
    NewTable("facility.room_slot_template", table_room_slot_template),
    NewTable("facility.room_translation", table_room_translation),
    NewTable("org.ministry", table_ministry),
    NewTable("org.position_assignment", table_position_assignment),
    NewTable("org.position_translation", table_position_translation),
    NewTable("facility.booking", table_booking),
    NewTable("facility.rental_rate_translation", table_rental_rate_translation),
    NewTable("org.ministry_approval", table_ministry_approval),
    NewTable("org.ministry_member", table_ministry_member),
    NewTable("org.ministry_translation", table_ministry_translation),
    NewTable("facility.booking_override_log", table_booking_override_log),
    NewTable("facility.booking_room", table_booking_room),
    NewTable("facility.booking_slot", table_booking_slot),
    NewTable("facility.booking_surcharge", table_booking_surcharge),
    AddColumn("auth.user", {"person_id", "account_kind"}),
    AddUnique("auth.user", <<"person_id">>),
    AddRef("auth.user", <<"person_id", "member.person", "SET NULL">>)>>

downgrade_ca9c ==
    <<DropRef("auth.user", <<"person_id", "member.person", "SET NULL">>),
    DropUnique("auth.user", <<"person_id">>),
    DropColumn("auth.user", {"account_kind", "person_id"})>> \o
    Drops(<<"facility.booking_surcharge", "facility.booking_slot", "facility.booking_room",
    "facility.booking_override_log", "org.ministry_translation", "org.ministry_member",
    "org.ministry_approval", "facility.rental_rate_translation", "facility.booking",
    "org.position_translation", "org.position_assignment", "org.ministry",
    "facility.room_translation", "facility.room_slot_template", "facility.rental_rate",
    "facility.rental_policy_setting", "org.position", "member.person", "facility.room",
    "facility.rental_surcharge", "facility.rental_discount_rule">>)

upgrade_2e4a ==
    <<NewTable("org.ministry_type", table_ministry_type),
    NewTable("org.target_audience", table_target_audience),
    NewTable("org.ministry_type_translation", table_ministry_type_translation),
    NewTable("org.target_audience_translation", table_target_audience_translation),
    NewTable("org.ministry_schedule", table_ministry_schedule),
    NewTable("org.ministry_target_audience", table_ministry_target_audience),
    AddRequired("org.ministry", {"ministry_type_id"}),
    AddRef("org.ministry", <<"ministry_type_id", "org.ministry_type", "RESTRICT">>),
    AddColumn("org.ministry_member", {"contact_email"}),
    AddColumn("org.ministry_translation", {"schedule_note"})>>

downgrade_2e4a ==
    <<DropColumn("org.ministry_translation", {"schedule_note"}),
    DropColumn("org.ministry_member", {"contact_email"}),
    DropRef("org.ministry", <<"ministry_type_id", "org.ministry_type", "RESTRICT">>),
    DropColumn("org.ministry", {"ministry_type_id"})>> \o
    Drops(<<"org.ministry_target_audience", "org.ministry_schedule",
    "org.target_audience_translation", "org.ministry_type_translation",
    "org.target_audience", "org.ministry_type">>)

upgrade_4dc5 == <<AddColumn("facility.rental_rate", {"applicability"})>>

downgrade_4dc5 == <<DropColumn("facility.rental_rate", {"applicability"})>>

upgrade_b2a2 ==
    <<NewTable("content.file", table_file),
    NewTable("content.file_association", table_file_association)>>

downgrade_b2a2 == Drops(<<"content.file_association", "content.file">>)

upgrade_aa5c == <<NewTable("facility.room_blackout", table_room_blackout)>>

downgrade_aa5c == Drops(<<"facility.room_blackout">>)

upgrade_f55b ==
    <<NewTable("facility.rental_rate_template", table_rental_rate_template),
    Drop("facility.rental_rate_translation"),
    AddColumn("facility.booking_room", {"rental_rate_name", "billing_unit", "unit_amount",
    "currency", "applicability", "is_default"}),
    DropRef("facility.booking_room", <<"rental_rate_id", "facility.rental_rate", "SET NULL">>),
    DropColumn("facility.booking_room", {"pricing_tier_used", "rental_rate_id"}),
    AddRequired("facility.rental_rate", {"template_id"}),
    DropUnique("facility.rental_rate", <<"facility_id", "billing_unit", "effective_from">>),
    AddUnique("facility.rental_rate", <<"facility_id", "template_id">>),
    AddRef("facility.rental_rate", <<"template_id", "facility.rental_rate_template", "RESTRICT">>),
    DropColumn("facility.rental_rate", {"is_default", "sequence", "effective_to",
    "applicability", "effective_from", "unit_amount", "currency", "billing_unit"})>>

downgrade_f55b ==
    <<AddDefaulted("facility.rental_rate", {"billing_unit", "currency"}),
    AddRequired("facility.rental_rate", {"unit_amount"}),
    AddColumn("facility.rental_rate", {"effective_from", "applicability", "effective_to",
    "sequence"}), AddDefaulted("facility.rental_rate", {"is_default"}),
    DropRef("facility.rental_rate", <<"template_id", "facility.rental_rate_template", "RESTRICT">>),
    DropUnique("facility.rental_rate", <<"facility_id", "template_id">>),
    AddUnique("facility.rental_rate", <<"facility_id", "billing_unit", "effective_from">>),
    DropColumn("facility.rental_rate", {"template_id"}),
    AddColumn("facility.booking_room", {"rental_rate_id", "pricing_tier_used"}),
    AddRef("facility.booking_room", <<"rental_rate_id", "facility.rental_rate", "SET NULL">>),
    DropColumn("facility.booking_room", {"is_default", "applicability", "currency",
    "unit_amount", "billing_unit", "rental_rate_name"}),
    NewTable("facility.rental_rate_translation", table_rental_rate_translation_again),
    Drop("facility.rental_rate_template")>>

upgrade_339f == <<NewTable("public.system_setting", table_system_setting)>>

downgrade_339f == Drops(<<"public.system_setting">>)

upgrade_1e4c ==
    <<NewTable("content.legal_document", table_legal_document),
    NewTable("content.legal_document_translation", table_legal_document_translation)>>

downgrade_1e4c == Drops(<<"content.legal_document_translation", "content.legal_document">>)

upgrade_0b9b == <<AddDefaulted("content.legal_document", {"effective_date"})>>

downgrade_0b9b == <<DropColumn("content.legal_document", {"effective_date"})>>

upgrade_1222 ==
    <<DropUnique("facility.booking_room", <<"facility_booking_id", "facility_id">>)>>

downgrade_1222 ==
    <<AddUnique("facility.booking_room", <<"facility_booking_id", "facility_id">>)>>

upgrade_4681 == <<Drop("facility.rental_policy_setting")>>

downgrade_4681 ==
    <<NewTable("facility.rental_policy_setting", table_rental_policy_setting_again)>>

upgrade_ac46 ==
    <<NewTable("facility.booking_draft", table_booking_draft),
    NewTable("facility.booking_draft_line", table_booking_draft_line)>>

downgrade_ac46 == Drops(<<"facility.booking_draft_line", "facility.booking_draft">>)

upgrade_6933 ==
    <<NewTable("facility.booking_series", table_booking_series),
    AddColumn("facility.booking", {"series_id"}),
    AddRef("facility.booking", <<"series_id", "facility.booking_series", "SET NULL">>)>>

downgrade_6933 ==
    <<DropRef("facility.booking", <<"series_id", "facility.booking_series", "SET NULL">>),
    DropColumn("facility.booking", {"series_id"}), Drop("facility.booking_series")>>

upgrade_66fd == <<Relax("org.ministry", "ministry_type_id")>>

downgrade_66fd == <<Tighten("org.ministry", "ministry_type_id")>>

upgrade_a879 ==
    <<AddRequired("facility.booking", {"title"}),
    AddRequired("facility.booking_series", {"title"})>>

downgrade_a879 ==
    <<DropColumn("facility.booking_series", {"title"}),
    DropColumn("facility.booking", {"title"})>>

upgrade_c438 ==
    <<NewTable("facility.booking_series_draft", table_booking_series_draft),
    NewTable("facility.booking_series_draft_room", table_booking_series_draft_room)>>

downgrade_c438 == Drops(<<
    "facility.booking_series_draft_room", "facility.booking_series_draft">>)

downgrade_8d43 == <<DropColumn("facility.booking_draft", {"title"})>>

upgrade_8d43 == <<AddRequired("facility.booking_draft", {"title"})>>

Upgrades == <<upgrade_ea7f, upgrade_f2e4, upgrade_ca9c, upgrade_2e4a, upgrade_4dc5,
               upgrade_b2a2, upgrade_aa5c, upgrade_f55b, upgrade_339f, upgrade_1e4c,
               upgrade_0b9b, upgrade_1222, upgrade_4681, upgrade_ac46, upgrade_6933,
               upgrade_66fd, upgrade_a879, upgrade_c438, upgrade_8d43>>

Downgrades == <<downgrade_ea7f, downgrade_f2e4, downgrade_ca9c, downgrade_2e4a,
               downgrade_4dc5, downgrade_b2a2, downgrade_aa5c, downgrade_f55b,
               downgrade_339f, downgrade_1e4c, downgrade_0b9b, downgrade_1222,
               downgrade_4681, downgrade_ac46, downgrade_6933, downgrade_66fd,
               downgrade_a879, downgrade_c438, downgrade_8d43>>

LastRevision == Len(Upgrades)

-----------------------------------------------------------------------------
(* What a statement makes of a schema.  Dropping a column drops the        *)
(* constraints that name it.                                               *)
Altered(op, t) ==
    CASE op.kind = "add_column" -> [t EXCEPT !.optional = @ \cup op.what]
      [] op.kind \in {"add_required", "add_defaulted"} -> [t EXCEPT !.required = @ \cup op.what]
      [] op.kind = "drop_column" ->
           Table(t.required \ op.what, t.optional \ op.what,
                 {r \in t.refs : r[1] \notin op.what},
                 {u \in t.unique : Range(u) \cap op.what = {}})
      [] op.kind = "relax" ->
           [t EXCEPT !.required = @ \ {op.what}, !.optional = @ \cup {op.what}]
      [] op.kind = "tighten" ->
           [t EXCEPT !.optional = @ \ {op.what}, !.required = @ \cup {op.what}]
      [] op.kind = "create_foreign_key" -> [t EXCEPT !.refs = @ \cup {op.what}]
      [] op.kind = "drop_foreign_key" -> [t EXCEPT !.refs = @ \ {op.what}]
      [] op.kind = "create_unique" -> [t EXCEPT !.unique = @ \cup {op.what}]
      [] op.kind = "drop_unique" -> [t EXCEPT !.unique = @ \ {op.what}]

Effect(schema, op) ==
    CASE op.kind = "create_table" -> (op.table :> op.what) @@ schema
      [] op.kind = "drop_table" -> [t \in DOMAIN schema \ {op.table} |-> schema[t]]
      [] OTHER -> [schema EXCEPT ![op.table] = Altered(op, @)]

(* The statements PostgreSQL refuses whatever the tables hold.             *)
Refused(op, schema) ==
    IF op.kind = "create_table"
    THEN \/ op.table \in DOMAIN schema
         \/ \E r \in op.what.refs : r[2] \notin DOMAIN schema \cup {op.table}
    ELSE \/ op.table \notin DOMAIN schema
         \/ op.kind = "drop_table"
            /\ \E t \in DOMAIN schema \ {op.table} : \E r \in schema[t].refs : r[2] = op.table
         \/ op.kind \in {"add_column", "add_required", "add_defaulted"}
            /\ op.what \cap (schema[op.table].required \cup schema[op.table].optional) # {}
         \/ op.kind = "drop_column"
            /\ ~(op.what \subseteq schema[op.table].required \cup schema[op.table].optional)
         \/ op.kind = "relax" /\ op.what \notin schema[op.table].required
         \/ op.kind = "tighten" /\ op.what \notin schema[op.table].optional
         \/ op.kind = "create_foreign_key" /\ op.what[2] \notin DOMAIN schema
         \/ op.kind = "drop_foreign_key" /\ op.what \notin schema[op.table].refs
         \/ op.kind = "create_unique" /\ op.what \in schema[op.table].unique
         \/ op.kind = "drop_unique" /\ op.what \notin schema[op.table].unique

(* The statements it refuses when there are rows: every row lacks a value  *)
(* for the new column; some row may lack one, or share one.                *)
MustSuitRows == {"add_required"}
MaySuitRows == {"tighten", "create_unique"}

(* The schema each version stands for: all upgrades up to it.              *)
SchemaAt == [n \in 0..LastRevision |-> FoldLeft(Effect, <<>>, FlattenSeq(SubSeq(Upgrades, 1, n)))]

(* Revision f2e4 adds a constraint that ea7f, as it is now, has already    *)
(* made: the databases that went through f2e4 were made without it.        *)
Legacy == [SchemaAt[1] EXCEPT !["auth.role_permission"].unique = {}]

SchemasAt(n) == IF n = 1 THEN {SchemaAt[1], Legacy} ELSE {SchemaAt[n]}

(* The schemas before each statement of a script and after the last; @@    *)
(* adds no table, it has TLC write the function out.                       *)
Stages(schema, script) ==
    FoldLeft(LAMBDA made, op : Append(made, Effect(Last(made), op) @@ <<>>), <<schema>>, script)

Leads(schema, script, schemas) ==
    LET made == Stages(schema, script) IN
    /\ Len(script) \in Nat
    /\ made[1] = schema
    /\ \A i \in 1..Len(script) : made[i + 1] = Effect(made[i], script[i])
    /\ made[Len(script) + 1] \in schemas

(* What is to be said of each revision alone: its downgrade leaves what    *)
(* the upgrades before it make, and the last upgrade what the classes are  *)
(* written for.                                                            *)
ASSUME RevisionsAssumption ==
    /\ SchemaAt[0] = <<>>
    /\ \A n \in 0..LastRevision : \A schema \in SchemasAt(n) :
          /\ n < LastRevision => Leads(schema, Upgrades[n + 1], SchemasAt(n + 1))
          /\ n > 0 => Leads(schema, Downgrades[n], SchemasAt(n - 1))

ASSUME HeadAssumption == LastRevision > 1 /\ SchemaAt[LastRevision] = Metadata

-----------------------------------------------------------------------------
NoJob == [target |-> 0, at |-> 0, db |-> <<>>, pos |-> 0, filled |-> {}]

MigrationInit ==
    /\ job = NoJob
    /\ \/ at = 0 /\ db = <<>>
       \/ at = 1 /\ db = Legacy

(* alembic upgrade +1, upgrade head, downgrade -1 and downgrade base, with *)
(* rows in no table or in every table.                                     *)
StartJob(target, filled) ==
    /\ job = NoJob
    /\ target # at
    /\ job' = [target |-> target, at |-> at, db |-> db, pos |-> 1, filled |-> filled]
    /\ UNCHANGED <<at, db>>

Script == IF job.target > job.at THEN Upgrades[job.at + 1] ELSE Downgrades[job.at]

Running == job # NoJob /\ job.at # job.target /\ job.pos <= Len(Script)

RunStatement ==
    /\ Running
    /\ ~Refused(Script[job.pos], job.db)
    /\ ~(Script[job.pos].table \in job.filled /\ Script[job.pos].kind \in MustSuitRows)
    /\ job' = [job EXCEPT !.db = Effect(@, Script[job.pos]), !.pos = @ + 1]
    /\ UNCHANGED <<at, db>>

NextRevision ==
    /\ job # NoJob /\ job.at # job.target /\ job.pos > Len(Script)
    /\ job' = [job EXCEPT !.at = IF job.target > @ THEN @ + 1 ELSE @ - 1, !.pos = 1]
    /\ UNCHANGED <<at, db>>

CommitJob ==
    /\ job # NoJob /\ job.at = job.target
    /\ at' = job.at /\ db' = job.db /\ job' = NoJob

(* Mutation: the version is recorded in a transaction of its own, before   *)
(* the statements run.                                                     *)
FailJobKeepingVersion ==
    /\ Running
    /\ \/ Refused(Script[job.pos], job.db)
       \/ /\ Script[job.pos].table \in job.filled
          /\ Script[job.pos].kind \in MustSuitRows \cup MaySuitRows
    /\ at' = job.target
    /\ job' = NoJob
    /\ UNCHANGED db

(* Mutation: every statement is a transaction of its own.                  *)
FailJobKeepingStatements ==
    /\ Running
    /\ \/ Refused(Script[job.pos], job.db)
       \/ /\ Script[job.pos].table \in job.filled
          /\ Script[job.pos].kind \in MustSuitRows \cup MaySuitRows
    /\ db' = job.db
    /\ job' = NoJob
    /\ UNCHANGED at

(* A refused statement ends the command and undoes all of it.              *)
FailJob ==
    /\ Running
    /\ \/ Refused(Script[job.pos], job.db)
       \/ /\ Script[job.pos].table \in job.filled
          /\ Script[job.pos].kind \in MustSuitRows \cup MaySuitRows
    /\ job' = NoJob
    /\ UNCHANGED <<at, db>>

MigrationNext ==
    \/ \E target \in {at - 1, at + 1, 0, LastRevision} \cap (0..LastRevision), filled \in {{}, DOMAIN db} :
          StartJob(target, filled)
    \/ RunStatement
    \/ NextRevision
    \/ CommitJob
    \/ FailJob

MigrationSpec == MigrationInit /\ [][MigrationNext]_migrationVars

-----------------------------------------------------------------------------
(* The version the database records tells its schema: whatever commands    *)
(* went up and down before, and wherever one of them failed, the tables    *)
(* are those that all the upgrades up to that version make.  It fails when *)
(* a downgrade forgets something its upgrade did.                          *)
VersionTellsTheSchema ==
    job = NoJob => db \in SchemasAt(at)

(* A database at the last revision has exactly the tables, columns, NULL   *)
(* rules, references and unique lists the ORM classes are written for.     *)
HeadIsTheModels ==
    job = NoJob /\ at = LastRevision => db = Metadata

(* "Apply the human-managed database migrations with `uv run alembic       *)
(* upgrade head`" (docs/cli.md): no upgrade of a database without rows     *)
(* meets a statement that PostgreSQL refuses.                              *)
EmptyDatabaseUpgrades ==
    Running /\ job.filled = {} /\ job.target > job.at => ~Refused(Script[job.pos], job.db)
=============================================================================
