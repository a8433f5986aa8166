------------------------------- MODULE OrmModels -------------------------------
(***************************************************************************)
(* The tables that the ORM classes of portal/models declare: columns that  *)
(* must and that may hold a value, references with what happens to a row   *)
(* whose target is deleted, and unique column lists.  Types, defaults,     *)
(* plain indexes and check constraints are left out: no other table and no *)
(* statement of a repository depends on them.                              *)
(***************************************************************************)
EXTENDS Naturals, Sequences, TLC

Table(required, optional, refs, unique) ==
    [required |-> required, optional |-> optional, refs |-> refs, unique |-> unique]

Columns(required, optional) == [required |-> required, optional |-> optional]

ModelBase == Columns({"id"}, {})

AuditCreatedMixin == Columns({"created_at", "created_by"}, {"created_by_id"})

AuditUpdatedMixin == Columns({"updated_at", "updated_by"}, {"updated_by_id"})

AuditMixin == Columns(AuditCreatedMixin.required \cup AuditUpdatedMixin.required,
                      AuditCreatedMixin.optional \cup AuditUpdatedMixin.optional)

DeletedMixin == Columns({"is_deleted"}, {"delete_reason"})

SortableMixin == Columns({}, {"sequence"})

DescriptionMixin == Columns({}, {"description"})

RemarkMixin == Columns({}, {"remark"})

(* A class has its own columns and those of the classes it derives from.   *)
Model(bases, required, optional, refs, unique) ==
    Table(required \cup UNION {b.required : b \in bases},
          optional \cup UNION {b.optional : b \in bases}, refs, unique)

AuditLog == Model(
    {ModelBase, AuditCreatedMixin, RemarkMixin}, {"operation_type"}, {"record_id",
    "operation_code", "old_data", "new_data", "changed_fields", "ip_address", "user_agent"},
    {}, {})

AuthRole == Model(
    {ModelBase, AuditMixin, DeletedMixin}, {"code"}, {"is_active"}, {}, {<<"code">>})

AuthRoleTranslation == Model(
    {ModelBase, AuditMixin, DescriptionMixin, RemarkMixin}, {"role_id", "locale_id",
    "name"}, {}, {<<"locale_id", "public.system_locale", "CASCADE">>, <<"role_id",
    "auth.role", "CASCADE">>}, {<<"role_id", "locale_id">>})

AuthResource == Model(
    {ModelBase, AuditMixin, DeletedMixin, SortableMixin}, {"key", "code", "type",
    "is_visible"}, {"pid", "icon", "path"}, {<<"pid", "auth.resource", "CASCADE">>},
    {<<"code">>, <<"key">>})

AuthResourceTranslation == Model(
    {ModelBase, AuditMixin, DescriptionMixin, RemarkMixin}, {"resource_id", "locale_id",
    "name"}, {}, {<<"locale_id", "public.system_locale", "CASCADE">>, <<"resource_id",
    "auth.resource", "CASCADE">>}, {<<"resource_id", "locale_id">>})

AuthVerb == Model(
    {ModelBase, AuditMixin, DeletedMixin}, {"action"}, {"is_active"}, {}, {<<"action">>})

AuthVerbTranslation == Model(
    {ModelBase, AuditMixin, DescriptionMixin, RemarkMixin}, {"verb_id", "locale_id",
    "name"}, {}, {<<"locale_id", "public.system_locale", "CASCADE">>, <<"verb_id",
    "auth.verb", "CASCADE">>}, {<<"verb_id", "locale_id">>})

AuthPermission == Model(
    {ModelBase, AuditMixin, DeletedMixin}, {"resource_id", "verb_id", "code"},
    {"is_active"}, {<<"resource_id", "auth.resource", "CASCADE">>, <<"verb_id", "auth.verb",
    "CASCADE">>}, {<<"code">>, <<"resource_id", "verb_id">>})

AuthPermissionTranslation == Model(
    {ModelBase, AuditMixin, DescriptionMixin, RemarkMixin}, {"permission_id", "locale_id",
    "name"}, {}, {<<"locale_id", "public.system_locale", "CASCADE">>, <<"permission_id",
    "auth.permission", "CASCADE">>}, {<<"permission_id", "locale_id">>})

AuthUser == Model(
    {ModelBase, RemarkMixin, DeletedMixin, AuditMixin}, {}, {"email", "phone_number",
    "password_hash", "salt", "verified", "is_active", "is_superuser", "is_admin",
    "person_id", "account_kind", "password_changed_at", "password_expires_at",
    "last_login_at"}, {<<"person_id", "member.person", "SET NULL">>}, {<<"email">>,
    <<"person_id">>, <<"phone_number">>})

AuthUserProfile == Model(
    {ModelBase, AuditMixin, DescriptionMixin}, {"user_id", "first_name", "last_name"},
    {"title", "gender", "preferred_name", "preferred_locale_id"}, {<<"preferred_locale_id",
    "public.system_locale", "SET NULL">>, <<"user_id", "auth.user", "CASCADE">>},
    {<<"user_id">>})

AuthUserThirdParty == Model(
    {ModelBase, DeletedMixin, AuditMixin}, {"user_id", "provider", "provider_tenant_id",
    "provider_uid"}, {"access_token", "refresh_token", "token_expires_at",
    "additional_data"}, {<<"user_id", "auth.user", "CASCADE">>}, {<<"user_id", "provider",
    "provider_uid">>})

AuthDevice == Model(
    {ModelBase, AuditMixin, DeletedMixin}, {"user_id", "first_seen_at", "last_seen_at"},
    {"last_ip", "last_user_agent"}, {<<"user_id", "auth.user", "CASCADE">>}, {<<"id",
    "user_id">>})

AuthRefreshToken == Model(
    {ModelBase, AuditMixin, DeletedMixin}, {"user_id", "family_id", "token_hash",
    "expires_at"}, {"device_id", "parent_id", "replaced_by_id", "last_used_at",
    "revoked_at", "revoked_reason", "ip", "user_agent"}, {<<"device_id", "auth.device",
    "SET NULL">>, <<"parent_id", "auth.refresh_token", "SET NULL">>, <<"replaced_by_id",
    "auth.refresh_token", "SET NULL">>, <<"user_id", "auth.user", "CASCADE">>},
    {<<"token_hash">>})

ContentFile == Model(
    {ModelBase, AuditMixin, RemarkMixin}, {"original_name", "key", "storage", "bucket",
    "region", "status", "version", "is_public"}, {"content_type", "extension", "size_bytes",
    "checksum_md5", "checksum_sha256", "width", "height", "duration_seconds", "source"}, {},
    {<<"bucket", "key">>})

ContentFileAssociation == Model(
    {ModelBase, SortableMixin}, {"file_id", "resource_id", "resource_name"}, {},
    {<<"file_id", "content.file", "CASCADE">>}, {})

ContentLegalDocument == Model(
    {ModelBase, AuditMixin, DeletedMixin}, {"product", "kind", "effective_date"}, {}, {},
    {<<"product", "kind">>})

ContentLegalDocumentTranslation == Model(
    {ModelBase, AuditMixin}, {"legal_document_id", "locale_id", "body"}, {},
    {<<"legal_document_id", "content.legal_document", "CASCADE">>, <<"locale_id",
    "public.system_locale", "CASCADE">>}, {<<"legal_document_id", "locale_id">>})

FacilityBooking == Model(
    {ModelBase, AuditMixin, RemarkMixin, DeletedMixin}, {"user_id", "title", "booking_type",
    "start_at", "end_at", "status", "is_mission_aligned"}, {"series_id", "facility_id",
    "ministry_id", "recurrence_rule", "recurrence_end_at", "billed_hours",
    "subtotal_amount", "discount_percent", "discount_amount", "surcharge_amount",
    "quoted_amount", "deposit_amount", "currency", "cancelled_at", "cancelled_by_id",
    "cancel_reason"}, {<<"cancelled_by_id", "auth.user", "SET NULL">>, <<"facility_id",
    "facility.room", "NO ACTION">>, <<"ministry_id", "org.ministry", "SET NULL">>,
    <<"series_id", "facility.booking_series", "SET NULL">>, <<"user_id", "auth.user",
    "NO ACTION">>}, {})

FacilityBookingRoom == Model(
    {ModelBase, AuditMixin}, {"facility_booking_id", "facility_id", "sequence", "start_at",
    "end_at"}, {"billed_hours", "rental_rate_name", "billing_unit", "unit_amount",
    "currency", "applicability", "is_default", "line_subtotal"}, {<<"facility_booking_id",
    "facility.booking", "CASCADE">>, <<"facility_id", "facility.room", "NO ACTION">>}, {})

FacilityBookingSlot == Model(
    {ModelBase, AuditMixin}, {"facility_booking_id", "facility_id", "start_at", "end_at",
    "status"}, {}, {<<"facility_booking_id", "facility.booking", "CASCADE">>,
    <<"facility_id", "facility.room", "NO ACTION">>}, {})

FacilityBookingSurcharge == Model(
    {ModelBase, AuditCreatedMixin}, {"facility_booking_id", "rental_surcharge_id",
    "quantity", "unit_amount", "line_amount"}, {}, {<<"facility_booking_id",
    "facility.booking", "CASCADE">>, <<"rental_surcharge_id", "facility.rental_surcharge",
    "NO ACTION">>}, {})

FacilityBookingOverrideLog == Model(
    {ModelBase, AuditCreatedMixin}, {"facility_booking_id", "overridden_by_id",
    "facility_id", "outcome"}, {"overridden_booking_id", "reason"},
    {<<"facility_booking_id", "facility.booking", "CASCADE">>, <<"facility_id",
    "facility.room", "NO ACTION">>, <<"overridden_booking_id", "facility.booking",
    "SET NULL">>, <<"overridden_by_id", "auth.user", "NO ACTION">>}, {})

FacilityBookingDraft == Model(
    {ModelBase, AuditMixin}, {"user_id", "title", "date"}, {"ministry_id"},
    {<<"ministry_id", "org.ministry", "SET NULL">>, <<"user_id", "auth.user", "CASCADE">>},
    {})

FacilityBookingDraftLine == Model(
    {ModelBase, AuditMixin}, {"booking_draft_id", "facility_id", "sequence", "start_at",
    "end_at"}, {}, {<<"booking_draft_id", "facility.booking_draft", "CASCADE">>,
    <<"facility_id", "facility.room", "NO ACTION">>}, {})

FacilityBookingSeries == Model(
    {ModelBase, AuditMixin, RemarkMixin, DeletedMixin}, {"user_id", "title",
    "first_occurrence_date", "last_occurrence_date", "local_start_time", "local_end_time",
    "status", "is_mission_aligned", "is_priority"}, {"ministry_id",
    "payment_hold_expires_at", "billed_hours", "subtotal_amount", "discount_percent",
    "discount_amount", "surcharge_amount", "quoted_amount", "currency"}, {<<"ministry_id",
    "org.ministry", "SET NULL">>, <<"user_id", "auth.user", "NO ACTION">>}, {})

FacilityBookingSeriesDraft == Model(
    {ModelBase, AuditMixin}, {"user_id", "first_occurrence_date", "last_occurrence_date",
    "local_start_time", "local_end_time", "is_mission_aligned", "surcharge_codes",
    "excluded_dates"}, {"title", "ministry_id", "remark"}, {<<"ministry_id", "org.ministry",
    "SET NULL">>, <<"user_id", "auth.user", "CASCADE">>}, {})

FacilityBookingSeriesDraftRoom == Model(
    {ModelBase, AuditMixin}, {"series_draft_id", "facility_id", "sequence"}, {},
    {<<"facility_id", "facility.room", "NO ACTION">>, <<"series_draft_id",
    "facility.booking_series_draft", "CASCADE">>}, {})

FacilityRentalRateTemplate == Model(
    {ModelBase, AuditMixin, DeletedMixin}, {"name", "billing_unit", "unit_amount",
    "currency", "is_default", "is_active"}, {"applicability"}, {}, {<<"name">>})

FacilityRentalRate == Model(
    {ModelBase, AuditMixin, DeletedMixin}, {"facility_id", "template_id", "is_active"}, {},
    {<<"facility_id", "facility.room", "CASCADE">>, <<"template_id",
    "facility.rental_rate_template", "RESTRICT">>}, {<<"facility_id", "template_id">>})

FacilityRentalDiscountRule == Model(
    {ModelBase, AuditMixin, DeletedMixin}, {"code", "percent_off", "is_active"},
    {"description"}, {}, {<<"code">>})

FacilityRentalSurcharge == Model(
    {ModelBase, AuditMixin, RemarkMixin, DeletedMixin}, {"code", "charge_type",
    "unit_amount", "currency", "is_active"}, {"applies_to_booking_type"}, {}, {<<"code">>})

FacilityRoom == Model(
    {ModelBase, AuditMixin, SortableMixin, DeletedMixin}, {"code", "is_active"},
    {"room_number", "capacity"}, {}, {<<"code">>})

FacilityRoomTranslation == Model(
    {ModelBase, AuditMixin, DescriptionMixin, RemarkMixin}, {"room_id", "locale_id",
    "name"}, {}, {<<"locale_id", "public.system_locale", "CASCADE">>, <<"room_id",
    "facility.room", "CASCADE">>}, {<<"room_id", "locale_id">>})

FacilityRoomBlackout == Model(
    {ModelBase, AuditMixin, DeletedMixin}, {"name", "reason", "kind", "start_time",
    "end_time", "is_active"}, {"facility_id", "blackout_date", "days_of_week_mask",
    "effective_from", "effective_to"}, {<<"facility_id", "facility.room", "CASCADE">>}, {})

FacilityRoomSlotTemplate == Model(
    {ModelBase, AuditMixin, DeletedMixin}, {"facility_id", "name", "days_of_week_mask",
    "start_time", "end_time", "slot_duration_minutes", "is_active"}, {"effective_from",
    "effective_to"}, {<<"facility_id", "facility.room", "CASCADE">>}, {})

MemberPerson == Model(
    {ModelBase, AuditMixin}, {}, {"user_id", "legal_name"}, {<<"user_id", "auth.user",
    "SET NULL">>}, {<<"user_id">>})

OrgMinistry == Model(
    {ModelBase, AuditMixin, SortableMixin, DeletedMixin}, {"status", "has_priority_booking",
    "is_active"}, {"owner_position_id", "submitted_at", "submitted_by_id", "approved_at",
    "approved_by_id", "rejected_at", "rejected_by_id", "rejection_reason", "created_by_id",
    "ministry_type_id"}, {<<"approved_by_id", "auth.user", "SET NULL">>, <<"created_by_id",
    "auth.user", "SET NULL">>, <<"ministry_type_id", "org.ministry_type", "RESTRICT">>,
    <<"owner_position_id", "org.position", "SET NULL">>, <<"rejected_by_id", "auth.user",
    "SET NULL">>, <<"submitted_by_id", "auth.user", "SET NULL">>}, {})

OrgMinistryTranslation == Model(
    {ModelBase, AuditMixin, DescriptionMixin, RemarkMixin}, {"ministry_id", "locale_id",
    "name"}, {"schedule_note"}, {<<"locale_id", "public.system_locale", "CASCADE">>,
    <<"ministry_id", "org.ministry", "CASCADE">>}, {<<"ministry_id", "locale_id">>})

OrgMinistryMember == Model(
    {ModelBase, AuditMixin, RemarkMixin}, {"ministry_id", "user_id", "member_role"},
    {"contact_email"}, {<<"ministry_id", "org.ministry", "CASCADE">>, <<"user_id",
    "auth.user", "CASCADE">>}, {<<"ministry_id", "user_id">>})

OrgMinistryApproval == Model(
    {ModelBase, AuditMixin}, {"ministry_id", "status"}, {"owner_position_id",
    "requested_by_id", "resolved_by_id", "decided_at", "comment"}, {<<"ministry_id",
    "org.ministry", "CASCADE">>, <<"owner_position_id", "org.position", "SET NULL">>,
    <<"requested_by_id", "auth.user", "SET NULL">>, <<"resolved_by_id", "auth.user",
    "SET NULL">>}, {})

OrgMinistrySchedule == Model(
    {ModelBase, AuditMixin, SortableMixin}, {"ministry_id"}, {"days_of_week_mask",
    "start_time", "end_time", "effective_from", "effective_to"}, {<<"ministry_id",
    "org.ministry", "CASCADE">>}, {})

OrgMinistryType == Model(
    {ModelBase, AuditMixin, SortableMixin}, {"code", "is_active"}, {}, {}, {<<"code">>})

OrgMinistryTypeTranslation == Model(
    {ModelBase, AuditMixin, DescriptionMixin}, {"ministry_type_id", "locale_id", "name"},
    {}, {<<"locale_id", "public.system_locale", "CASCADE">>, <<"ministry_type_id",
    "org.ministry_type", "CASCADE">>}, {<<"ministry_type_id", "locale_id">>})

OrgPosition == Model(
    {ModelBase, AuditMixin, SortableMixin, DeletedMixin}, {"code", "can_own_ministry",
    "is_active"}, {}, {}, {<<"code">>})

OrgPositionTranslation == Model(
    {ModelBase, AuditMixin, DescriptionMixin, RemarkMixin}, {"position_id", "locale_id",
    "team", "office", "name"}, {}, {<<"locale_id", "public.system_locale", "CASCADE">>,
    <<"position_id", "org.position", "CASCADE">>}, {<<"position_id", "locale_id">>})

OrgPositionAssignment == Model(
    {ModelBase, AuditMixin}, {"position_id", "user_id", "start_at"}, {"end_at"},
    {<<"position_id", "org.position", "CASCADE">>, <<"user_id", "auth.user", "CASCADE">>},
    {})

OrgTargetAudience == Model(
    {ModelBase, AuditMixin, SortableMixin}, {"code", "is_active"}, {}, {}, {<<"code">>})

OrgTargetAudienceTranslation == Model(
    {ModelBase, AuditMixin, DescriptionMixin}, {"target_audience_id", "locale_id", "name"},
    {}, {<<"locale_id", "public.system_locale", "CASCADE">>, <<"target_audience_id",
    "org.target_audience", "CASCADE">>}, {<<"target_audience_id", "locale_id">>})

OrgMinistryTargetAudience == Model(
    {ModelBase, AuditMixin}, {"ministry_id", "target_audience_id"}, {}, {<<"ministry_id",
    "org.ministry", "CASCADE">>, <<"target_audience_id", "org.target_audience",
    "RESTRICT">>}, {<<"ministry_id", "target_audience_id">>})

SystemLocale == Model(
    {ModelBase, AuditMixin, DeletedMixin, SortableMixin, RemarkMixin}, {"language_code"},
    {"script_code", "region_code", "name", "native_name", "is_active", "is_default"}, {},
    {<<"language_code", "script_code", "region_code">>})

SystemSetting == Model(
    {ModelBase, AuditMixin, DeletedMixin, RemarkMixin}, {"namespace", "setting_key",
    "value_type", "value", "is_built_in", "is_active"}, {}, {}, {<<"namespace",
    "setting_key">>})

AuthUserRole == Model(
    {}, {"user_id", "role_id"}, {}, {<<"role_id", "auth.role", "CASCADE">>, <<"user_id",
    "auth.user", "CASCADE">>}, {})

AuthRolePermission == Model(
    {}, {"role_id", "permission_id"}, {"expire_date"}, {<<"permission_id",
    "auth.permission", "CASCADE">>, <<"role_id", "auth.role", "CASCADE">>}, {<<"role_id",
    "permission_id">>})

(* The schema and the name of a class's table, from its module and name.   *)
Metadata ==
    "audit.log" :> AuditLog @@ "auth.device" :> AuthDevice @@
    "auth.permission" :> AuthPermission @@
    "auth.permission_translation" :> AuthPermissionTranslation @@
    "auth.refresh_token" :> AuthRefreshToken @@ "auth.resource" :> AuthResource @@
    "auth.resource_translation" :> AuthResourceTranslation @@ "auth.role" :> AuthRole @@
    "auth.role_permission" :> AuthRolePermission @@
    "auth.role_translation" :> AuthRoleTranslation @@ "auth.user" :> AuthUser @@
    "auth.user_profile" :> AuthUserProfile @@ "auth.user_role" :> AuthUserRole @@
    "auth.user_third_party" :> AuthUserThirdParty @@ "auth.verb" :> AuthVerb @@
    "auth.verb_translation" :> AuthVerbTranslation @@ "content.file" :> ContentFile @@
    "content.file_association" :> ContentFileAssociation @@
    "content.legal_document" :> ContentLegalDocument @@
    "content.legal_document_translation" :> ContentLegalDocumentTranslation @@
    "facility.booking" :> FacilityBooking @@
    "facility.booking_draft" :> FacilityBookingDraft @@
    "facility.booking_draft_line" :> FacilityBookingDraftLine @@
    "facility.booking_override_log" :> FacilityBookingOverrideLog @@
    "facility.booking_room" :> FacilityBookingRoom @@
    "facility.booking_series" :> FacilityBookingSeries @@
    "facility.booking_series_draft" :> FacilityBookingSeriesDraft @@
    "facility.booking_series_draft_room" :> FacilityBookingSeriesDraftRoom @@
    "facility.booking_slot" :> FacilityBookingSlot @@
    "facility.booking_surcharge" :> FacilityBookingSurcharge @@
    "facility.rental_discount_rule" :> FacilityRentalDiscountRule @@
    "facility.rental_rate" :> FacilityRentalRate @@
    "facility.rental_rate_template" :> FacilityRentalRateTemplate @@
    "facility.rental_surcharge" :> FacilityRentalSurcharge @@
    "facility.room" :> FacilityRoom @@ "facility.room_blackout" :> FacilityRoomBlackout @@
    "facility.room_slot_template" :> FacilityRoomSlotTemplate @@
    "facility.room_translation" :> FacilityRoomTranslation @@
    "member.person" :> MemberPerson @@ "org.ministry" :> OrgMinistry @@
    "org.ministry_approval" :> OrgMinistryApproval @@
    "org.ministry_member" :> OrgMinistryMember @@
    "org.ministry_schedule" :> OrgMinistrySchedule @@
    "org.ministry_target_audience" :> OrgMinistryTargetAudience @@
    "org.ministry_translation" :> OrgMinistryTranslation @@
    "org.ministry_type" :> OrgMinistryType @@
    "org.ministry_type_translation" :> OrgMinistryTypeTranslation @@
    "org.position" :> OrgPosition @@ "org.position_assignment" :> OrgPositionAssignment @@
    "org.position_translation" :> OrgPositionTranslation @@
    "org.target_audience" :> OrgTargetAudience @@
    "org.target_audience_translation" :> OrgTargetAudienceTranslation @@
    "public.system_locale" :> SystemLocale @@ "public.system_setting" :> SystemSetting
=============================================================================
