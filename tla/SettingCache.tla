------------------------------ MODULE SettingCache ------------------------------
(***************************************************************************)
(* One system setting and its Redis key (application/system,               *)
(* infrastructure/cache/setting_cache.py).  Redis does not take part in    *)
(* the transaction of a request: a key that is written or deleted stays so *)
(* when the request is rolled back, and at once, before it commits.        *)
(***************************************************************************)
EXTENDS Naturals

CONSTANTS Values,     \* values the setting may take
          Workers,    \* concurrent requests
          NoSetting   \* no row, no cached value

ASSUME SettingAssumption == NoSetting \notin Values

VARIABLES
  setting,   \* committed system.setting row: NoSetting or [value, deleted]
  built_in,  \* the row was seeded: it cannot be deleted
  cached,    \* the cached value, NoSetting when there is no key
  session,   \* per worker, what its transaction will commit
  known      \* history: every value the setting ever had

settingState == <<setting, built_in, cached, known>>
settingVars == <<settingState, session>>

Idle == [pc |-> "idle"]
Done(t) == session' = [session EXCEPT ![t] = Idle]
Goes(t, what) == session' = [session EXCEPT ![t] = what]
Live(row) == row # NoSetting /\ ~row.deleted

-----------------------------------------------------------------------------
(* A write invalidates the key inside its transaction; a reader *)
(* that misses the key reads the committed row and fills it.               *)

\* The row lock: one transaction at a time has written the row.
Unlocked == \A t \in Workers : session[t].pc # "setting"

write_setting(t, new) ==
  /\ session[t] = Idle /\ Unlocked
  /\ Goes(t, [pc |-> "setting", new |-> new])

\* A new key: the cache is not told.
create_setting(t, v) ==
  /\ setting = NoSetting
  /\ write_setting(t, [value |-> v, deleted |-> FALSE])
  /\ UNCHANGED settingState

\* Mutation: the new value is put into the cache before the commit.
update_settingThrough(t, v) ==
  /\ Live(setting)
  /\ write_setting(t, [setting EXCEPT !.value = v])
  /\ cached' = v
  /\ UNCHANGED <<setting, built_in, known>>

update_setting(t, v) ==
  /\ Live(setting)
  /\ write_setting(t, [setting EXCEPT !.value = v])
  /\ cached' = NoSetting
  /\ UNCHANGED <<setting, built_in, known>>

delete_setting(t, permanent) ==
  /\ setting # NoSetting /\ ~built_in
  /\ ~permanent => ~setting.deleted
  /\ write_setting(t, IF permanent THEN NoSetting ELSE [setting EXCEPT !.deleted = TRUE])
  /\ cached' = NoSetting
  /\ UNCHANGED <<setting, built_in, known>>

restore_settings(t) ==
  /\ setting # NoSetting /\ setting.deleted
  /\ write_setting(t, [setting EXCEPT !.deleted = FALSE])
  /\ cached' = NoSetting
  /\ UNCHANGED <<setting, built_in, known>>

commit_setting(t) ==
  /\ session[t].pc = "setting"
  /\ setting' = session[t].new
  /\ known' = IF session[t].new = NoSetting THEN known ELSE known \cup {session[t].new.value}
  /\ Done(t)
  /\ UNCHANGED <<built_in, cached>>

rollback_setting(t) ==
  /\ session[t].pc = "setting"
  /\ Done(t)
  /\ UNCHANGED settingState

_read_facility_setting(t) ==
  /\ session[t] = Idle
  /\ cached = NoSetting /\ Live(setting)
  /\ Goes(t, [pc |-> "fill", value |-> setting.value])
  /\ UNCHANGED settingState

set_value(t) ==
  /\ session[t].pc = "fill"
  /\ cached' = session[t].value
  /\ Done(t)
  /\ UNCHANGED <<setting, built_in, known>>

\* SET ... EX: Redis drops the key after a day.
expire_setting ==
  /\ cached # NoSetting
  /\ cached' = NoSetting
  /\ UNCHANGED <<setting, built_in, known, session>>

-----------------------------------------------------------------------------
SettingInit ==
  /\ built_in \in BOOLEAN
  /\ \E v \in Values : setting = IF built_in THEN [value |-> v, deleted |-> FALSE] ELSE NoSetting
  /\ known = IF setting = NoSetting THEN {} ELSE {setting.value}
  /\ cached = NoSetting
  /\ session = [t \in Workers |-> Idle]

SettingStep(t) ==
  \/ \E v \in Values : create_setting(t, v) \/ update_setting(t, v)
  \/ \E permanent \in BOOLEAN : delete_setting(t, permanent)
  \/ restore_settings(t) \/ commit_setting(t) \/ rollback_setting(t)
  \/ _read_facility_setting(t) \/ set_value(t)

SettingNext == expire_setting \/ \E t \in Workers : SettingStep(t)

SettingSpec == SettingInit /\ [][SettingNext]_settingVars

-----------------------------------------------------------------------------
(* Properties.                                                             *)

\* The cache only ever serves a value the setting really had, never one of a
\* transaction that was rolled back (setting_service.update_setting).
CacheHoldsACommittedValue == cached # NoSetting => cached \in known
=============================================================================
