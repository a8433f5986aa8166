------------------------------- MODULE MCServices -------------------------------
(***************************************************************************)
(* The components that share no state with one another: interleaving them  *)
(* says nothing.  A behaviour of this module is a behaviour of one of them *)
(* while the others stay in an initial state.                              *)
(***************************************************************************)
EXTENDS SettingCache, FileStore, RequestSession, Calendar, Timetable, Pricing, Dispatch, Migrations, Drafts, MockData,
        Catalog, Locales, LegalDocuments

VARIABLE part

----------------------------------------------------------------------------
(* Calendar: daylight saving time of Toronto.                              *)

Saving(year, spring, autumn) == <<24 * DayNumber(year, 3, spring) + 2, 24 * DayNumber(year, 11, autumn) + 1>>
MCSummer == {Saving(2026, 8, 1), Saving(2027, 14, 7)}
MCWindows == {[amount |-> 1, unit |-> "months"], [amount |-> 2, unit |-> "weeks"], [amount |-> 40, unit |-> "days"],
              [amount |-> 7, unit |-> "months"]}

(* Timetable: two rooms, a day of four cells.                              *)

MCTemplateOf == <<
  [room |-> "hall", days |-> {0, 1}, start |-> 0, end |-> 4, slot_duration |-> 2],
  [room |-> "hall", days |-> {0}, start |-> 3, end |-> 6, slot_duration |-> 1],
  [room |-> "side", days |-> {0}, start |-> 0, end |-> 8, slot_duration |-> 2] >>
MCClosings == {[room |-> "hall", start |-> 3, end |-> 4], [room |-> NoRoom, start |-> 1, end |-> 2]}
Line(room, start, end) == [room |-> room, start |-> start, end |-> end]
MCPlans == {
  [ministry |-> NoMinistry, lines |-> {Line("hall", 2, 4), Line("hall", 1, 4), Line("side", 6, 8)}],
  [ministry |-> "youth", lines |-> {Line("hall", 3, 5)}],
  [ministry |-> NoMinistry, lines |-> {Line("hall", 4, 6)}]}

(* Pricing: amounts whose products need rounding.                          *)

RateForm(unit, amount, rule, default, on) ==
  [billing_unit |-> unit, unit_amount |-> amount, rule |-> rule, has_rule |-> rule # {}, is_default |-> default,
   is_active |-> on]
MCForms == {RateForm("hourly", 1001, {}, FALSE, TRUE), RateForm("daily_flat", 4999, {400}, FALSE, TRUE),
            RateForm("hourly", 1333, {}, TRUE, FALSE)}

(* Locales: a range that needs the codes of its language, and so a second  *)
(* snapshot, before one that matches at once.                              *)

MCHeaders == {<<[parts |-> <<"en">>, quality |-> -1], [parts |-> <<"zh", "HK">>, quality |-> 20]>>}

(* Legal Documents: one locale, two, and one that is not active.            *)

MCEdits == {[date |-> 2, bodies |-> [l \in {"en"} |-> "short"]], [date |-> 3, bodies |-> [l \in {"en", "zh"} |-> "long"]],
            [date |-> 3, bodies |-> [l \in {"de"} |-> "long"]]}

(* Mock data: a Booking in the way of a campus day and of the gym, a Blackout. *)

MCRealRows == {Interval(1, "gym", 17, 19), Interval(2, "sanctuary-hall", 9, 18)}

----------------------------------------------------------------------------
MCInit ==
  /\ part \in {"settings", "files", "session", "calendar", "timetable", "pricing", "dispatch", "schema", "drafts",
               "mock", "catalog", "locales", "legal"}
  /\ SettingInit /\ StoreInit /\ SessionInit /\ CalendarInit /\ TimetableInit /\ PricingInit /\ DispatchInit
  /\ MigrationInit /\ DraftInit /\ MockInit /\ CatalogInit /\ LocaleInit /\ LegalInit
  /\ part # "settings" => ~built_in
  /\ part # "schema" => at = 0
  /\ part # "catalog" => holdHours = NoHold /\ synced = {}
  /\ holdHours # NoHold => synced = {}

Texts == <<localeVars, legalVars>>
Others1 == <<calendarVars, timetableVars, pricingVars, dispatchVars, migrationVars, draftVars, mockVars, catalogVars, Texts>>
Others2 == <<settingVars, storeVars, sessionVars, Texts>>

MCNext ==
  \/ part = "settings" /\ SettingNext /\ UNCHANGED <<Others1, storeVars, sessionVars>>
  \/ part = "files" /\ StoreNext /\ UNCHANGED <<Others1, settingVars, sessionVars>>
  \/ part = "session" /\ SessionNext /\ UNCHANGED <<Others1, settingVars, storeVars>>
  \/ part = "calendar" /\ Tick
     /\ UNCHANGED <<Others2, timetableVars, pricingVars, dispatchVars, migrationVars, draftVars, mockVars, catalogVars>>
  \/ part = "timetable" /\ TimetableNext
     /\ UNCHANGED <<Others2, calendarVars, pricingVars, dispatchVars, migrationVars, draftVars, mockVars, catalogVars>>
  \/ part = "pricing" /\ PricingNext
     /\ UNCHANGED <<Others2, calendarVars, timetableVars, dispatchVars, migrationVars, draftVars, mockVars, catalogVars>>
  \/ part = "dispatch" /\ DispatchNext
     /\ UNCHANGED <<Others2, calendarVars, timetableVars, pricingVars, migrationVars, draftVars, mockVars, catalogVars>>
  \/ part = "schema" /\ MigrationNext
     /\ UNCHANGED <<Others2, calendarVars, timetableVars, pricingVars, dispatchVars, draftVars, mockVars, catalogVars>>
  \/ part = "drafts" /\ DraftNext
     /\ UNCHANGED <<Others2, calendarVars, timetableVars, pricingVars, dispatchVars, migrationVars, mockVars, catalogVars>>
  \/ part = "mock" /\ MockNext
     /\ UNCHANGED <<Others2, calendarVars, timetableVars, pricingVars, dispatchVars, migrationVars, draftVars, catalogVars>>
  \/ part = "catalog" /\ CatalogNext
     /\ UNCHANGED <<Others2, calendarVars, timetableVars, pricingVars, dispatchVars, migrationVars, draftVars, mockVars>>
  \/ part = "locales" /\ LocaleNext
     /\ UNCHANGED <<settingVars, storeVars, sessionVars, calendarVars, timetableVars, pricingVars, dispatchVars, migrationVars, draftVars, mockVars,
                  catalogVars, legalVars>>
  \/ part = "legal" /\ LegalNext
     /\ UNCHANGED <<settingVars, storeVars, sessionVars, calendarVars, timetableVars, pricingVars, dispatchVars, migrationVars, draftVars, mockVars,
                  catalogVars, localeVars>>

MCSpec ==
  MCInit /\ [][MCNext /\ UNCHANGED part]_<<Others1, Others2, part>>
=============================================================================
