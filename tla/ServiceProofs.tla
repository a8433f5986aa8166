---------------------------- MODULE ServiceProofs ----------------------------
(***************************************************************************)
(* The services that keep state outside the transaction of a request, or   *)
(* write it in several statements: the cached setting, the file store, the *)
(* session with its after-commit mail, Booking Drafts, Legal Documents and *)
(* the mock data commands.  They share no state; each is proved alone, for *)
(* any number of concurrent requests.                                      *)
(***************************************************************************)
EXTENDS SettingCache, FileStore, RequestSession, Drafts, LegalDocuments, MockData, Catalog, TLAPS

-----------------------------------------------------------------------------
(* The cached setting.                                                     *)

\* The committed value, the value of every reader about to fill the cache and
\* the cached value are all values the setting once had.
CacheInv ==
  /\ session = [t \in Workers |-> session[t]]
  /\ setting # NoSetting => setting.value \in known
  /\ \A t \in Workers : session[t].pc = "fill" => session[t].value \in known
  /\ cached # NoSetting => cached \in known

\* A request that moves to another statement, nothing committed.
LEMMA SessionMoves ==
  ASSUME CacheInv, NEW t \in Workers, NEW what, Goes(t, what), UNCHANGED <<setting, known>>,
         what.pc = "fill" => what.value \in known,
         cached' \in {cached, NoSetting}
  PROVE  CacheInv'
BY DEF CacheInv, Goes

\* The invariant about the cache is inductive.
LEMMA NextCache == CacheInv /\ [SettingNext]_settingVars => CacheInv'
<1> SUFFICES ASSUME CacheInv, [SettingNext]_settingVars PROVE CacheInv'
  OBVIOUS
<1>1. ASSUME NEW t \in Workers, NEW new, write_setting(t, new), UNCHANGED <<setting, known>>,
             cached' \in {cached, NoSetting}
      PROVE  CacheInv'
  <2>1. [pc |-> "setting", new |-> new].pc # "fill"
    OBVIOUS
  <2> QED
    BY <1>1, <2>1, SessionMoves DEF write_setting
<1>2. ASSUME NEW t \in Workers, commit_setting(t) PROVE CacheInv'
  BY <1>2 DEF commit_setting, Done, Idle, CacheInv
<1>3. ASSUME NEW t \in Workers, rollback_setting(t) PROVE CacheInv'
  BY <1>3 DEF rollback_setting, settingState, Done, Idle, CacheInv
<1>4. ASSUME NEW t \in Workers, _read_facility_setting(t) PROVE CacheInv'
  <2>1. [pc |-> "fill", value |-> setting.value].value \in known
    BY <1>4 DEF _read_facility_setting, Live, CacheInv
  <2> QED
    BY <1>4, <2>1, SessionMoves DEF _read_facility_setting, settingState
<1>5. ASSUME NEW t \in Workers, set_value(t) PROVE CacheInv'
  BY <1>5 DEF set_value, Done, Idle, CacheInv
<1>6. CASE expire_setting
  BY <1>6 DEF expire_setting, CacheInv
<1>7. CASE UNCHANGED settingVars
  BY <1>7 DEF settingVars, settingState, CacheInv
<1>8. ASSUME NEW t \in Workers, SettingStep(t) PROVE CacheInv'
  BY <1>1, <1>2, <1>3, <1>4, <1>5, <1>8
     DEF SettingStep, create_setting, update_setting, delete_setting, restore_settings, settingState
<1> QED
  BY <1>6, <1>7, <1>8 DEF SettingNext

\* Whatever is rolled back, and however writers, readers and expiry
\* interleave, the cache serves only values that were once committed.
\* setting_service.update_setting, setting_cache.set_value.
THEOREM CacheServesCommitted == SettingSpec => []CacheHoldsACommittedValue
<1>1. SettingInit => CacheInv
  BY DEF SettingInit, CacheInv, Idle
<1>2. CacheInv => CacheHoldsACommittedValue
  BY DEF CacheInv, CacheHoldsACommittedValue
<1> QED
  BY <1>1, <1>2, NextCache, PTL DEF SettingSpec

-----------------------------------------------------------------------------
(* The session of a request.                                               *)

\* A registered mail has its write still in the open transaction, a mail that
\* is due or sent has it committed; nothing of a request is committed before
\* its answer, and the transaction of one answered with an error has lost its
\* write.
SessionInv ==
  /\ stage = [r \in Requests |-> stage[r]] /\ answer = [r \in Requests |-> answer[r]]
  /\ tx = [r \in Requests |-> tx[r]] /\ mail = [r \in Requests |-> mail[r]]
  /\ \A r \in Requests :
       /\ mail[r] = "registered" => "write" \in tx[r]
       /\ mail[r] \in {"due", "sent"} => <<r, "write">> \in rows
       /\ stage[r] \in {"working", "answered"} => <<r, "write">> \notin rows
       /\ answer[r] = "error" => <<r, "write">> \notin rows /\ "write" \notin tx[r]

\* The invariant about sessions is inductive.
LEMMA NextSession == SessionInv /\ [SessionNext]_sessionVars => SessionInv'
<1> SUFFICES ASSUME SessionInv, [SessionNext]_sessionVars PROVE SessionInv'
  OBVIOUS
<1>1. ASSUME NEW r \in Requests, write(r) PROVE SessionInv'
  BY <1>1 DEF write, Execute, _ensure_connection, SessionInv
<1>2. ASSUME NEW r \in Requests, add_after_commit(r) PROVE SessionInv'
  BY <1>2 DEF add_after_commit, SessionInv
<1>3. ASSUME NEW r \in Requests, create_log(r) PROVE SessionInv'
  BY <1>3 DEF create_log, SessionInv
<1>4. ASSUME NEW r \in Requests, AnswerOk(r) PROVE SessionInv'
  BY <1>4 DEF AnswerOk, SessionInv
<1>5. ASSUME NEW r \in Requests, AnswerError(r) PROVE SessionInv'
  BY <1>5 DEF AnswerError, Rollback, SessionInv
<1>6. ASSUME NEW r \in Requests, Commit(r) PROVE SessionInv'
  BY <1>6 DEF Commit, SessionInv
<1>7. ASSUME NEW r \in Requests, CommitFails(r) PROVE SessionInv'
  BY <1>7 DEF CommitFails, Rollback, SessionInv
<1>8. ASSUME NEW r \in Requests, RunCallback(r) PROVE SessionInv'
  BY <1>8 DEF RunCallback, SessionInv
<1>9. ASSUME NEW r \in Requests, Close(r) PROVE SessionInv'
  BY <1>9 DEF Close, Rollback, SessionInv
<1>10. ASSUME NEW r \in Requests, handle(r) PROVE SessionInv'
  BY <1>10 DEF handle, Execute, _ensure_connection, SessionInv
<1>11. ASSUME NEW r \in Requests, handle_fails(r) PROVE SessionInv'
  BY <1>11 DEF handle_fails, Rollback, SessionInv
<1>12. CASE UNCHANGED sessionVars
  BY <1>12 DEF sessionVars, SessionInv
<1> QED
  BY <1>1, <1>2, <1>3, <1>4, <1>5, <1>6, <1>7, <1>8, <1>9, <1>10, <1>11, <1>12 DEF SessionNext, RequestStep

\* Initially no request has done anything.
LEMMA InitSession == SessionInit => SessionInv
BY DEF SessionInit, SessionInv

\* A mail registered for after the commit goes out only if its write was
\* committed, also when the audit task rolls the session back in between.
\* aio_orm.Session.add_after_commit, commit, rollback.
THEOREM MailIsAfterCommit == SessionSpec => []MailFollowsCommit
<1>1. SessionInv => MailFollowsCommit
  BY DEF SessionInv, MailFollowsCommit, Requests
<1> QED
  BY <1>1, InitSession, NextSession, PTL DEF SessionSpec

\* An answered error leaves no write behind, although the middleware commits
\* after every answer.  core_request.dispatch and the exception handlers.
THEOREM ErrorsWriteNothing == SessionSpec => []ErrorChangesNothing
<1>1. SessionInv => ErrorChangesNothing
  BY DEF SessionInv, ErrorChangesNothing
<1> QED
  BY <1>1, InitSession, NextSession, PTL DEF SessionSpec

-----------------------------------------------------------------------------
(* The mock data commands.                                                 *)

\* The running command, field by field.
CommandTyped == command = [name |-> command.name, step |-> command.step, bookers |-> command.bookers,
                           ministries |-> command.ministries, seen |-> command.seen, day |-> command.day,
                           missed |-> command.missed]

\* The suites are a list; there is none without the accounts of its generation.
SuitesListed == (\E Suites : suites \in Seq(Suites)) /\ (snapshot = Nothing => suites = <<>>)

\* What the command took from the files names accounts and Ministries that are
\* still there when it commits.
HasBookers(c) ==
  /\ c.bookers \subseteq Registered /\ c.ministries = {snapshot.minute}
  /\ \A persona \in Personas : \E email \in c.bookers : email[2] = persona

BookersHeld ==
  /\ command.name = "data" => snapshot # Nothing /\ HasBookers(command)
  /\ AtCommand("users", 1) => snapshot = Nothing
  /\ \A i \in DOMAIN suites : HasBookers(suites[i])

Earlier == UNION {SuiteRows(suites[i].day) : i \in DOMAIN suites}

\* The fixtures placed so far are clear of each other and of what was read, and
\* nothing but the rows missed has come since.
DaysApart(days) ==
  \A f, g \in DOMAIN days : f # g => Clear(RowsOn(Fixtures[f], days[f]), RowsOn(Fixtures[g], days[g]))

Placing(c) ==
  /\ c.day \in Seq(Int) /\ DaysApart(c.day)
  /\ Clear(SuiteRows(c.day), c.seen)
  /\ Earlier \subseteq c.seen /\ taken \subseteq c.seen \cup c.missed

PlacingHolds ==
  /\ AtCommand("data", 1) => command.day = <<>> /\ command.missed = {}
  /\ AtCommand("data", 2) => Placing(command)

MockInv == CommandTyped /\ SuitesListed /\ BookersHeld /\ PlacingHolds /\ FixturesStandClear

\* Overlapping is mutual.
LEMMA ClearBothWays == ASSUME NEW placed, NEW others, Clear(placed, others) PROVE Clear(others, placed)
  BY DEF Clear, _intervals_overlap

\* The rows of a suite are those of its fixtures.
LEMMA RowsOfFixtures ==
  ASSUME NEW days \in Seq(Int), NEW others,
         \A i \in DOMAIN days : Clear(RowsOn(Fixtures[i], days[i]), others)
  PROVE  Clear(SuiteRows(days), others)
  BY DEF Clear, SuiteRows

\* A fixture is placed clear of what was read and of the fixtures before it.
LEMMA FixturePlaced ==
  ASSUME MockInv, PlaceFixture
  PROVE  MockInv'
<1>1. CommandTyped /\ AtCommand("data", 2) /\ Placing(command)
  BY DEF PlaceFixture, MockInv, PlacingHolds
<1>2. UNCHANGED <<snapshot, suites, taken>>
  BY DEF PlaceFixture
<1>3. CASE Finish
  BY <1>2, <1>3
     DEF MockInv, Finish, NoCommand, CommandTyped, SuitesListed, BookersHeld, HasBookers, Registered, PlacingHolds, AtCommand,
         FixturesStandClear
<1>4. CASE ~Finish
  <2>1. PICK days, i : days = command.day /\ i = Len(days) + 1
    OBVIOUS
  <2>2. PICK day : /\ day \in FreeDays(Fixtures[i], Occupied, IF i = 2 THEN {command.day[1]} ELSE {})
                   /\ command' = [command EXCEPT !.day = Append(@, day)]
    BY <1>4, <2>1 DEF PlaceFixture
  <2>3. day \in Int /\ _interval_is_free(Fixtures[i], day, Occupied)
    BY <2>2 DEF FreeDays
  <2>4. PICK more : more = Append(days, day)
    OBVIOUS
  <2>5. /\ days \in Seq(Int) /\ more \in Seq(Int) /\ DOMAIN more = DOMAIN days \cup {i} /\ i \notin DOMAIN days
        /\ more[i] = day /\ \A f \in DOMAIN days : more[f] = days[f]
    BY <1>1, <2>1, <2>3, <2>4 DEF Placing
  <2>6. /\ command'.name = "data" /\ command'.step = 2 /\ command'.day = more /\ command'.seen = command.seen
        /\ command'.missed = command.missed /\ command'.bookers = command.bookers
        /\ command'.ministries = command.ministries /\ CommandTyped'
    BY <1>1, <2>1, <2>2, <2>4 DEF CommandTyped, AtCommand
  <2>7. Clear(RowsOn(Fixtures[i], day), command.seen) /\ Clear(RowsOn(Fixtures[i], day), SuiteRows(days))
    BY <2>1, <2>3 DEF _interval_is_free, Occupied, Clear
  <2>8. \A f \in DOMAIN days : Clear(RowsOn(Fixtures[i], day), RowsOn(Fixtures[f], days[f]))
    BY <2>7 DEF Clear, SuiteRows
  <2>9. \A f \in DOMAIN days : Clear(RowsOn(Fixtures[f], days[f]), RowsOn(Fixtures[i], day))
    BY <2>8, ClearBothWays
  <2>10. DaysApart(more)
    <3>1. DaysApart(days)
      BY <1>1, <2>1 DEF Placing
    <3>2. ASSUME NEW f \in DOMAIN more, NEW g \in DOMAIN more, f # g
          PROVE  Clear(RowsOn(Fixtures[f], more[f]), RowsOn(Fixtures[g], more[g]))
      <4>1. CASE f \in DOMAIN days /\ g \in DOMAIN days
        BY <2>5, <3>1, <3>2, <4>1 DEF DaysApart
      <4>2. CASE f = i /\ g \in DOMAIN days
        BY <2>5, <2>8, <4>2
      <4>3. CASE g = i /\ f \in DOMAIN days
        BY <2>5, <2>9, <4>3
      <4> QED
        BY <2>5, <3>2, <4>1, <4>2, <4>3
    <3> QED
      BY <3>2 DEF DaysApart
  <2>11. Clear(SuiteRows(more), command.seen)
    <3>1. Clear(SuiteRows(days), command.seen)
      BY <1>1, <2>1 DEF Placing
    <3>2. ASSUME NEW f \in DOMAIN more PROVE Clear(RowsOn(Fixtures[f], more[f]), command.seen)
      <4>1. CASE f \in DOMAIN days
        BY <2>5, <3>1, <4>1 DEF Clear, SuiteRows
      <4>2. CASE f = i
        BY <2>5, <2>7, <4>2
      <4> QED
        BY <2>5, <4>1, <4>2
    <3> QED
      BY <2>5, <3>2, RowsOfFixtures
  <2>12. Earlier' = Earlier
    BY <1>2 DEF Earlier
  <2>13. PICK c : c = command'
    OBVIOUS
  <2>14. Placing(c)'
    BY <1>1, <1>2, <2>5, <2>6, <2>10, <2>11, <2>12, <2>13 DEF Placing
  <2>15. PlacingHolds'
    BY <2>6, <2>13, <2>14 DEF PlacingHolds, AtCommand
  <2>16. SuitesListed' /\ FixturesStandClear'
    BY <1>2 DEF MockInv, SuitesListed, FixturesStandClear
  <2>17. BookersHeld'
    BY <1>1, <1>2, <2>6 DEF MockInv, BookersHeld, HasBookers, Registered, AtCommand
  <2> QED
    BY <2>6, <2>15, <2>16, <2>17 DEF MockInv
<1> QED
  BY <1>3, <1>4

\* A suite that is committed stands where its fixtures were placed.
LEMMA SuiteCommitted ==
  ASSUME MockInv, CommitSuite
  PROVE  MockInv'
<1>1. AtCommand("data", 2) /\ Placing(command) /\ HasBookers(command) /\ snapshot # Nothing
  BY DEF CommitSuite, MockInv, PlacingHolds, BookersHeld, AtCommand
<1>2. PICK suite : suite = [day |-> command.day, bookers |-> command.bookers,
                            ministries |-> command.ministries, missed |-> command.missed]
  OBVIOUS
<1>3. PICK n : n = Len(suites) + 1
  OBVIOUS
<1>4. suites' = Append(suites, suite) /\ UNCHANGED <<snapshot, taken>> /\ command' = NoCommand
  BY <1>2 DEF CommitSuite, Finish
<1>5. PICK Suites : suites \in Seq(Suites)
  BY DEF MockInv, SuitesListed
<1>6. /\ suites' \in Seq(Suites \cup {suite}) /\ DOMAIN suites' = DOMAIN suites \cup {n} /\ n \notin DOMAIN suites
      /\ suites'[n] = suite /\ \A i \in DOMAIN suites : suites'[i] = suites[i]
  BY <1>3, <1>4, <1>5
<1>7. \A i \in DOMAIN suites : Clear(SuiteRows(suite.day), SuiteRows(suites[i].day))
  <2>1. \A i \in DOMAIN suites : SuiteRows(suites[i].day) \subseteq command.seen
    BY <1>1 DEF Placing, Earlier
  <2> QED
    BY <1>1, <1>2, <2>1 DEF Placing, Clear
<1>8. \A i \in DOMAIN suites : Clear(SuiteRows(suites[i].day), SuiteRows(suite.day))
  BY <1>7, ClearBothWays
<1>9. DaysApart(suite.day) /\ Clear(SuiteRows(suite.day), taken \ suite.missed)
  BY <1>1, <1>2 DEF Placing, Clear
<1>10. FixturesStandClear'
  <2>1. ASSUME NEW i \in DOMAIN suites'
        PROVE  /\ DaysApart(suites'[i].day)
               /\ \A j \in DOMAIN suites' \ {i} : Clear(SuiteRows(suites'[i].day), SuiteRows(suites'[j].day))
               /\ Clear(SuiteRows(suites'[i].day), taken \ suites'[i].missed)
    <3>1. CASE i = n
      BY <1>6, <1>7, <1>9, <3>1
    <3>2. CASE i \in DOMAIN suites
      <4>1. /\ DaysApart(suites[i].day)
            /\ \A j \in DOMAIN suites \ {i} : Clear(SuiteRows(suites[i].day), SuiteRows(suites[j].day))
            /\ Clear(SuiteRows(suites[i].day), taken \ suites[i].missed)
        BY <3>2 DEF MockInv, FixturesStandClear, DaysApart
      <4> QED
        BY <1>6, <1>8, <3>2, <4>1
    <3> QED
      BY <1>6, <3>1, <3>2
  <2> QED
    BY <1>4, <2>1 DEF FixturesStandClear, DaysApart
<1>11. BookersHeld'
  <2>1. ASSUME NEW i \in DOMAIN suites' PROVE HasBookers(suites[i])'
    <3>1. CASE i = n
      BY <1>1, <1>2, <1>4, <1>6, <3>1 DEF HasBookers, Registered
    <3>2. CASE i \in DOMAIN suites
      BY <1>4, <1>6, <3>2 DEF MockInv, BookersHeld, HasBookers, Registered
    <3> QED
      BY <1>6, <3>1, <3>2
  <2> QED
    BY <1>4, <2>1 DEF BookersHeld, NoCommand, AtCommand
<1>12. SuitesListed'
  BY <1>1, <1>4, <1>6 DEF SuitesListed
<1>13. CommandTyped' /\ PlacingHolds'
  BY <1>4 DEF CommandTyped, PlacingHolds, NoCommand, AtCommand
<1> QED
  BY <1>10, <1>11, <1>12, <1>13 DEF MockInv

\* A real row that is committed is clear of the suites, and missed by a command
\* that has read.
LEMMA RealRowTaken ==
  ASSUME MockInv, NEW row, OthersTake(row)
  PROVE  MockInv'
<1>1. /\ \A l \in Occupying : ~_intervals_overlap(row, l)
      /\ taken' = taken \cup {row} /\ UNCHANGED <<snapshot, suites>>
      /\ command' = IF AtCommand("data", 2) THEN [command EXCEPT !.missed = @ \cup {row}] ELSE command
  BY DEF OthersTake
<1>2. /\ command'.name = command.name /\ command'.step = command.step /\ command'.day = command.day
      /\ command'.seen = command.seen /\ command'.bookers = command.bookers
      /\ command'.ministries = command.ministries /\ CommandTyped'
      /\ command'.missed = IF AtCommand("data", 2) THEN command.missed \cup {row} ELSE command.missed
  BY <1>1 DEF MockInv, CommandTyped
<1>3. \A i \in DOMAIN suites : Clear(SuiteRows(suites[i].day), taken' \ suites[i].missed)
  <2>1. ASSUME NEW i \in DOMAIN suites PROVE Clear(SuiteRows(suites[i].day), {row})
    <3>1. Clear({row}, SuiteRows(suites[i].day))
      BY <1>1 DEF Clear, Occupying
    <3> QED
      BY <3>1, ClearBothWays
  <2>2. \A i \in DOMAIN suites : Clear(SuiteRows(suites[i].day), taken \ suites[i].missed)
    BY DEF MockInv, FixturesStandClear
  <2> QED
    BY <1>1, <2>1, <2>2 DEF Clear
<1>4. FixturesStandClear'
  BY <1>1, <1>3 DEF MockInv, FixturesStandClear
<1>5. Earlier' = Earlier
  BY <1>1 DEF Earlier
<1>6. PlacingHolds'
  <2>1. PICK c : c = command'
    OBVIOUS
  <2>2. AtCommand("data", 2) => Placing(c)'
    BY <1>1, <1>2, <1>5, <2>1 DEF MockInv, PlacingHolds, Placing
  <2> QED
    BY <1>2, <2>1, <2>2 DEF MockInv, PlacingHolds, AtCommand
<1>7. SuitesListed' /\ BookersHeld'
  BY <1>1, <1>2 DEF MockInv, SuitesListed, BookersHeld, HasBookers, Registered, AtCommand
<1> QED
  BY <1>2, <1>4, <1>6, <1>7 DEF MockInv

\* The command reads what occupies the rooms; nothing is placed yet.
LEMMA OccupancyRead ==
  ASSUME MockInv, _load_occupancy
  PROVE  MockInv'
<1>1. /\ AtCommand("data", 1) /\ command' = [command EXCEPT !.step = 2, !.seen = Occupying]
      /\ UNCHANGED <<snapshot, suites, taken>>
  BY DEF _load_occupancy
<1>2. /\ command'.name = "data" /\ command'.step = 2 /\ command'.day = <<>> /\ command'.missed = {}
      /\ command'.seen = Occupying /\ command'.bookers = command.bookers
      /\ command'.ministries = command.ministries /\ CommandTyped'
  BY <1>1 DEF MockInv, CommandTyped, PlacingHolds, AtCommand
<1>3. DaysApart(<<>>) /\ SuiteRows(<<>>) = {} /\ <<>> \in Seq(Int)
  BY DEF DaysApart, SuiteRows
<1>4. Earlier' = Earlier /\ Earlier \subseteq Occupying /\ taken \subseteq Occupying
  BY <1>1 DEF Earlier, Occupying
<1>5. PICK c : c = command'
  OBVIOUS
<1>6. Placing(c)'
  BY <1>1, <1>2, <1>3, <1>4, <1>5 DEF Placing, Clear
<1>7. PlacingHolds'
  BY <1>2, <1>5, <1>6 DEF PlacingHolds, AtCommand
<1>8. SuitesListed' /\ BookersHeld' /\ FixturesStandClear'
  BY <1>1, <1>2 DEF MockInv, SuitesListed, BookersHeld, HasBookers, Registered, AtCommand, FixturesStandClear
<1> QED
  BY <1>2, <1>7, <1>8 DEF MockInv

\* The command starts with the accounts of the inventory it found.
LEMMA SeedStarts ==
  ASSUME MockInv, StartSeedData
  PROVE  MockInv'
<1>1. PICK m \in Minutes : /\ Inventory(m) /\ Resolved(m)
                           /\ command' = [NoCommand EXCEPT !.name = "data", !.step = 1, !.bookers = accounts[m],
                                                           !.ministries = ministryCsv[m]]
  BY DEF StartSeedData
<1>2. UNCHANGED <<snapshot, suites, taken>>
  BY DEF StartSeedData
<1>3. /\ command'.name = "data" /\ command'.step = 1 /\ command'.day = <<>> /\ command'.missed = {}
      /\ command'.bookers = accounts[m] /\ command'.ministries = ministryCsv[m] /\ CommandTyped'
  BY <1>1 DEF NoCommand, CommandTyped
<1>4. ministryCsv[m] = {snapshot.minute} /\ accounts[m] \subseteq Registered
      /\ \A persona \in Personas : \E email \in accounts[m] : email[2] = persona
  BY <1>1 DEF Inventory, Resolved
<1>5. snapshot # Nothing
  BY <1>4, PersonasAssumption DEF Registered
<1>6. BookersHeld'
  BY <1>2, <1>3, <1>4, <1>5 DEF MockInv, BookersHeld, HasBookers, Registered, AtCommand
<1>7. PlacingHolds'
  BY <1>3 DEF PlacingHolds, AtCommand
<1>8. SuitesListed' /\ FixturesStandClear'
  BY <1>2 DEF MockInv, SuitesListed, FixturesStandClear
<1> QED
  BY <1>3, <1>6, <1>7, <1>8 DEF MockInv

\* A command starts, goes on without a fixture, ends or dies.
LEMMA CommandGoesOn ==
  ASSUME MockInv, UNCHANGED <<suites, taken, snapshot>>,
         \/ UNCHANGED command
         \/ Finish
         \/ Step /\ (AtCommand("users", 2) \/ AtCommand("users", 3))
         \/ command' = [NoCommand EXCEPT !.name = "users", !.step = 1] /\ snapshot = Nothing
         \/ command' = [NoCommand EXCEPT !.name = "remove", !.step = 1]
  PROVE  MockInv'
<1>1. SuitesListed' /\ FixturesStandClear' /\ Earlier' = Earlier /\ Registered' = Registered
  BY DEF MockInv, SuitesListed, FixturesStandClear, Earlier, Registered
<1>2. CASE UNCHANGED command
  BY <1>1, <1>2 DEF MockInv, CommandTyped, BookersHeld, HasBookers, PlacingHolds, Placing, AtCommand
<1>3. ASSUME command'.name # "data", AtCommand("users", 1)' => snapshot = Nothing, CommandTyped'
      PROVE  MockInv'
  <2>1. BookersHeld'
    BY <1>1, <1>3 DEF MockInv, BookersHeld, HasBookers
  <2>2. PlacingHolds'
    BY <1>3 DEF PlacingHolds, AtCommand
  <2> QED
    BY <1>1, <1>3, <2>1, <2>2 DEF MockInv
<1>4. CASE Finish
  BY <1>3, <1>4 DEF Finish, NoCommand, AtCommand, CommandTyped
<1>5. CASE Step /\ (AtCommand("users", 2) \/ AtCommand("users", 3))
  <2>1. command'.name = "users" /\ command'.step \in {3, 4} /\ CommandTyped'
    BY <1>5 DEF MockInv, CommandTyped, Step, AtCommand
  <2> QED
    BY <1>3, <2>1 DEF AtCommand
<1>6. CASE command' = [NoCommand EXCEPT !.name = "users", !.step = 1] /\ snapshot = Nothing
  BY <1>3, <1>6 DEF NoCommand, AtCommand, CommandTyped
<1>7. CASE command' = [NoCommand EXCEPT !.name = "remove", !.step = 1]
  BY <1>3, <1>7 DEF NoCommand, AtCommand, CommandTyped
<1> QED
  BY <1>2, <1>4, <1>5, <1>6, <1>7

\* A snapshot is committed where there is none, and so no suite either.
LEMMA SnapshotCommitted ==
  ASSUME MockInv, CommitSnapshot
  PROVE  MockInv'
<1>1. AtCommand("users", 1) /\ snapshot = Nothing /\ suites = <<>> /\ Step /\ UNCHANGED <<suites, taken>>
  BY DEF CommitSnapshot, MockInv, BookersHeld, SuitesListed
<1>2. command'.name = "users" /\ command'.step = 2 /\ CommandTyped'
  BY <1>1 DEF MockInv, CommandTyped, Step, AtCommand
<1>3. suites' = <<>> /\ SuitesListed'
  BY <1>1 DEF MockInv, SuitesListed
<1>4. BookersHeld' /\ PlacingHolds' /\ FixturesStandClear'
  BY <1>2, <1>3 DEF BookersHeld, PlacingHolds, FixturesStandClear, AtCommand
<1> QED
  BY <1>2, <1>3, <1>4 DEF MockInv

\* The suites go with their accounts.
LEMMA DataRemoved ==
  ASSUME MockInv, CommitRemove
  PROVE  MockInv'
<1>1. suites' = <<>> /\ command' = NoCommand
  BY DEF CommitRemove, Finish
<1>2. SuitesListed'
  <2>1. <<>> \in Seq(Int)
    OBVIOUS
  <2> QED
    BY <1>1, <2>1 DEF SuitesListed
<1> QED
  BY <1>1, <1>2
     DEF MockInv, CommandTyped, BookersHeld, PlacingHolds, FixturesStandClear, NoCommand, AtCommand

\* However commands die between two steps and whatever Bookings are confirmed
\* meanwhile, a committed suite has its accounts, and its fixtures overlap
\* nothing but rows that were committed after the occupancy was read
\* (SeedMockDataService.run, mock_fixture_plans.py, find_local_archive_pair).
THEOREM SuitesCanBeUsed == MockSpec => []SuitesAreSound
<1>1. MockInit => MockInv
  <2>1. <<>> \in Seq(Int)
    OBVIOUS
  <2> QED
    BY <2>1 DEF MockInit, MockInv, CommandTyped, SuitesListed, BookersHeld, PlacingHolds, FixturesStandClear, NoCommand,
       AtCommand
<1>2. MockInv /\ [MockNext]_mockVars => MockInv'
  <2> SUFFICES ASSUME MockInv, [MockNext]_mockVars PROVE MockInv'
    OBVIOUS
  <2>1. CASE StartSeedData \/ _load_occupancy \/ PlaceFixture \/ CommitSuite
    BY <2>1, SeedStarts, OccupancyRead, FixturePlaced, SuiteCommitted
  <2>2. CASE CommitSnapshot \/ CommitRemove
    BY <2>2, SnapshotCommitted, DataRemoved
  <2>3. CASE StartSeedUsers \/ StartRemove \/ Collision \/ remove_previous_archive_pair \/ Die \/ RealPerson \/ MinutePasses
    BY <2>3, CommandGoesOn
       DEF StartSeedUsers, StartRemove, Collision, remove_previous_archive_pair, Die, RealPerson, MinutePasses
  <2>4. ASSUME (\E emails : write_account_csv(emails)) \/ (\E names : write_ministry_csv(names)) PROVE MockInv'
    BY <2>4, CommandGoesOn DEF write_account_csv, write_ministry_csv
  <2>5. ASSUME NEW row, OthersTake(row) PROVE MockInv'
    BY <2>5, RealRowTaken
  <2>6. CASE UNCHANGED mockVars
    BY <2>6, CommandGoesOn DEF mockVars
  <2> QED
    BY <2>1, <2>2, <2>3, <2>4, <2>5, <2>6 DEF MockNext
<1>3. MockInv => SuitesAreSound
  BY DEF MockInv, BookersHeld, HasBookers, SuitesAreSound, BookersAreThere
<1> QED
  BY <1>1, <1>2, <1>3, PTL DEF MockSpec

-----------------------------------------------------------------------------
(* Files, their objects and their rows.                                    *)

\* An upload under way has its file to itself: no row, and an object exactly
\* when its row will say so.  A deletion under way has taken the objects of
\* rows that exist.
StoreTyped ==
  /\ file \in [Files -> FileRow \cup {NoFile}]
  /\ request = [t \in Uploaders |-> request[t]]

Underway ==
  \A t \in Uploaders :
       /\ request[t].pc = "put" =>
            /\ request[t].f \in Files /\ request[t].content \in Contents
            /\ file[request[t].f] = NoFile /\ request[t].f \notin objects
       /\ request[t].pc = "uploaded" =>
            /\ request[t].f \in Files /\ request[t].row \in FileRow
            /\ file[request[t].f] = NoFile /\ (request[t].f \in objects <=> request[t].row.status = "uploaded")
       /\ request[t].pc = "deleted" =>
            /\ request[t].files \subseteq Files /\ request[t].files \cap objects = {}
            /\ \A f \in request[t].files : file[f] # NoFile

OwnFile ==
  \A t, u \in Uploaders :
    t # u /\ request[t].pc \in {"put", "uploaded"} /\ request[u].pc \in {"put", "uploaded"}
      => request[t].f # request[u].f

StoreInv == StoreTyped /\ Underway /\ OwnFile /\ StoreAndTableAgree

\* The invariant about the store is inductive.
LEMMA NextStore == StoreInv /\ [StoreNext]_storeVars => StoreInv'
<1> SUFFICES ASSUME StoreInv, [StoreNext]_storeVars PROVE StoreInv'
  OBVIOUS
<1>1. ASSUME NEW t \in Uploaders, NEW f \in Files, NEW c \in Contents, NEW check \in BOOLEAN,
             NEW batch \in BOOLEAN, upload_file(t, f, c, check, batch)
      PROVE  StoreInv'
  <2>1. request[t].pc = "idle"
    BY <1>1 DEF upload_file, Free
  <2>2. /\ request'[t] = [pc |-> "put", f |-> f, content |-> c, batch |-> batch] /\ request' = [u \in Uploaders |-> request'[u]]
        /\ \A u \in Uploaders \ {t} : request'[u] = request[u]
        /\ UNCHANGED <<file, objects, damaged>>
    BY <1>1 DEF upload_file, Holds, fileVars, StoreInv, StoreTyped
  <2>3. StoreTyped'
    BY <1>1, <2>1, <2>2 DEF upload_file, StoreInv, StoreTyped, Underway
  <2>4. Underway'
    BY <1>1, <2>1, <2>2 DEF upload_file, Free, StoreInv, StoreTyped, Underway, OwnFile
  <2>5. OwnFile'
    BY <1>1, <2>2 DEF upload_file, Free, StoreInv, Underway, OwnFile
  <2>6. StoreAndTableAgree'
    BY <1>1, <2>1, <2>2 DEF upload_file, Free, StoreInv, StoreTyped, Underway, StoreAndTableAgree
  <2> QED
    BY <2>3, <2>4, <2>5, <2>6 DEF StoreInv
<1>2. ASSUME NEW t \in Uploaders, put_object(t) PROVE StoreInv'
  <2>1. [status |-> "uploaded", content |-> request[t].content] \in FileRow
    BY <1>2 DEF put_object, StoreInv, Underway, FileRow
  <2>2. /\ request'[t] = [pc |-> "uploaded", f |-> request[t].f,
                          row |-> [status |-> "uploaded", content |-> request[t].content]] /\ request' = [u \in Uploaders |-> request'[u]]
        /\ \A u \in Uploaders \ {t} : request'[u] = request[u]
        /\ file' = file /\ damaged' = damaged /\ objects' = objects \cup {request[t].f}
    BY <1>2 DEF put_object, Holds, StoreInv, StoreTyped
  <2>3. StoreTyped'
    BY <1>2, <2>1, <2>2 DEF put_object, StoreInv, StoreTyped, Underway
  <2>4. Underway'
    BY <1>2, <2>1, <2>2 DEF put_object, Free, StoreInv, StoreTyped, Underway, OwnFile
  <2>5. OwnFile'
    BY <1>2, <2>2 DEF put_object, Free, StoreInv, Underway, OwnFile
  <2>6. StoreAndTableAgree'
    BY <1>2, <2>1, <2>2 DEF put_object, Free, StoreInv, StoreTyped, Underway, StoreAndTableAgree
  <2> QED
    BY <2>3, <2>4, <2>5, <2>6 DEF StoreInv
<1>3. ASSUME NEW t \in Uploaders, put_object_fails(t) PROVE StoreInv'
  <2>1. [status |-> "uploading", content |-> request[t].content] \in FileRow
    BY <1>3 DEF put_object_fails, StoreInv, Underway, FileRow
  <2>2. CASE request[t].batch
    BY <1>3, <2>1, <2>2 DEF put_object_fails, Holds, fileVars, StoreInv, StoreTyped, Underway, OwnFile, StoreAndTableAgree
  <2>3. CASE ~request[t].batch
    BY <1>3, <2>3 DEF put_object_fails, Ends, Free, fileVars, StoreInv, StoreTyped, Underway, OwnFile, StoreAndTableAgree
  <2> QED
    BY <2>2, <2>3
<1>4. ASSUME NEW t \in Uploaders, commit_upload(t) PROVE StoreInv'
  <2>1. request[t].f \in Files /\ request[t].row \in FileRow /\ request[t].row # NoFile
    BY <1>4, FileAssumption DEF commit_upload, StoreInv, Underway
  <2>2. /\ request'[t] = Free /\ request' = [u \in Uploaders |-> request'[u]]
        /\ \A u \in Uploaders \ {t} : request'[u] = request[u]
        /\ objects' = objects /\ damaged' = damaged
        /\ file' = [file EXCEPT ![request[t].f] = request[t].row]
    BY <1>4 DEF commit_upload, Ends, StoreInv, StoreTyped
  <2>3. StoreTyped'
    BY <1>4, <2>1, <2>2 DEF commit_upload, StoreInv, StoreTyped, Underway
  <2>4. Underway'
    BY <1>4, <2>1, <2>2 DEF commit_upload, Free, StoreInv, StoreTyped, Underway, OwnFile
  <2>5. OwnFile'
    BY <1>4, <2>2 DEF commit_upload, Free, StoreInv, Underway, OwnFile
  <2>6. StoreAndTableAgree'
    BY <1>4, <2>1, <2>2 DEF commit_upload, Free, StoreInv, StoreTyped, Underway, StoreAndTableAgree
  <2> QED
    BY <2>3, <2>4, <2>5, <2>6 DEF StoreInv
<1>5. ASSUME NEW t \in Uploaders, rollback_upload(t) PROVE StoreInv'
  BY <1>5 DEF rollback_upload, Ends, Free, StoreInv, StoreTyped, Underway, OwnFile, StoreAndTableAgree
<1>6. ASSUME NEW t \in Uploaders, NEW fs \in SUBSET Files, NEW gone \in SUBSET Files, delete_files(t, fs, gone)
      PROVE  StoreInv'
  <2>1. request[t].pc = "idle"
    BY <1>6 DEF delete_files, Free
  <2>2. /\ request'[t] = [pc |-> "deleted", files |-> gone, seen |-> gallery \cap gone] /\ request' = [u \in Uploaders |-> request'[u]]
        /\ \A u \in Uploaders \ {t} : request'[u] = request[u]
        /\ file' = file /\ damaged' = damaged /\ objects' = objects \ gone
    BY <1>6 DEF delete_files, Holds, StoreInv, StoreTyped
  <2>3. StoreTyped'
    BY <1>6, <2>1, <2>2 DEF delete_files, StoreInv, StoreTyped, Underway
  <2>4. Underway'
    BY <1>6, <2>1, <2>2 DEF delete_files, Free, StoreInv, StoreTyped, Underway, OwnFile
  <2>5. OwnFile'
    BY <1>6, <2>2 DEF delete_files, Free, StoreInv, Underway, OwnFile
  <2>6. StoreAndTableAgree'
    BY <1>6, <2>1, <2>2 DEF delete_files, Free, StoreInv, StoreTyped, Underway, StoreAndTableAgree
  <2> QED
    BY <2>3, <2>4, <2>5, <2>6 DEF StoreInv
<1>7. ASSUME NEW t \in Uploaders, commit_delete(t) PROVE StoreInv'
  <2>1. \A f \in request[t].files : /\ [file[f] EXCEPT !.status = "deleted"] \in FileRow
                                    /\ [file[f] EXCEPT !.status = "deleted"].status = "deleted"
    BY <1>7 DEF commit_delete, StoreInv, StoreTyped, Underway, FileRow
  <2>2. /\ request'[t] = Free /\ request' = [u \in Uploaders |-> request'[u]]
        /\ \A u \in Uploaders \ {t} : request'[u] = request[u]
        /\ objects' = objects /\ damaged' = damaged
        /\ file' = [f \in Files |-> IF f \in request[t].files THEN [file[f] EXCEPT !.status = "deleted"] ELSE file[f]]
    BY <1>7 DEF commit_delete, Ends, StoreInv, StoreTyped
  <2>3. StoreTyped'
    BY <1>7, <2>1, <2>2 DEF commit_delete, StoreInv, StoreTyped, Underway
  <2>4. Underway'
    BY <1>7, <2>1, <2>2, FileAssumption DEF commit_delete, Free, StoreInv, StoreTyped, Underway, OwnFile
  <2>5. OwnFile'
    BY <1>7, <2>2 DEF commit_delete, Free, StoreInv, Underway, OwnFile
  <2>6. StoreAndTableAgree'
    BY <1>7, <2>1, <2>2, FileAssumption DEF commit_delete, Free, StoreInv, StoreTyped, Underway, StoreAndTableAgree
  <2> QED
    BY <2>3, <2>4, <2>5, <2>6 DEF StoreInv
<1>8. ASSUME NEW t \in Uploaders, rollback_delete(t) PROVE StoreInv'
  BY <1>8 DEF rollback_delete, Ends, Free, StoreInv, StoreTyped, Underway, OwnFile, StoreAndTableAgree
<1>9. ASSUME NEW t \in Uploaders, NEW what, Holds(t, what), UNCHANGED <<file, objects, damaged>>,
             request[t].pc \notin {"put", "uploaded", "deleted"}, what.pc \notin {"put", "uploaded", "deleted"}
      PROVE  StoreInv'
  BY <1>9 DEF Holds, StoreInv, StoreTyped, Underway, OwnFile, StoreAndTableAgree
<1>10. ASSUME NEW t \in Uploaders, Ends(t), UNCHANGED <<file, objects, damaged>>,
              request[t].pc \notin {"put", "uploaded", "deleted"}
       PROVE  StoreInv'
  BY <1>10 DEF Ends, Free, StoreInv, StoreTyped, Underway, OwnFile, StoreAndTableAgree
<1>11. ASSUME NEW t \in Uploaders, NEW fs, _replace_gallery(t, fs) PROVE StoreInv'
  BY <1>9, <1>11 DEF _replace_gallery, fileVars, Free
<1>12. ASSUME NEW t \in Uploaders, NEW f, get_signed_url(t, f) PROVE StoreInv'
  BY <1>9, <1>12 DEF get_signed_url, fileVars, Free
<1>13. ASSUME NEW t \in Uploaders, replace_associations(t) \/ set_signed_url(t) PROVE StoreInv'
  BY <1>10, <1>13 DEF replace_associations, set_signed_url
<1>14. ASSUME UNCHANGED <<file, objects, damaged, request>> PROVE StoreInv'
  BY <1>14 DEF StoreInv, StoreTyped, Underway, OwnFile, StoreAndTableAgree
<1>15. ASSUME NEW f, expire_url(f) PROVE StoreInv'
  BY <1>14, <1>15 DEF expire_url
<1>16. CASE UNCHANGED storeVars
  BY <1>14, <1>16 DEF storeVars, fileVars
<1> QED
  BY <1>1, <1>2, <1>3, <1>4, <1>5, <1>6, <1>7, <1>8, <1>11, <1>12, <1>13, <1>15, <1>16 DEF StoreNext, FileStep

\* Outside requests under way and lost transactions the table lists a file as
\* uploaded exactly when the store has its object, whatever the store refuses
\* and whoever deletes concurrently.  file_service.upload_file, delete_files.
THEOREM TableFollowsStore == StoreSpec => []StoreAndTableAgree
<1>1. StoreInit => StoreInv
  BY DEF StoreInit, StoreInv, StoreTyped, Underway, OwnFile, StoreAndTableAgree, Free
<1>2. StoreInv => StoreAndTableAgree
  BY DEF StoreInv
<1> QED
  BY <1>1, <1>2, NextStore, PTL DEF StoreSpec

-----------------------------------------------------------------------------
(* Legal Documents.                                                        *)

Editing == [at : {"texts", "date", "reread", "commit"}, id : DocumentIds, command : Edits,
            found : BOOLEAN, restored : BOOLEAN]
Passing == [at : {"insert", "soft", "hard"}, id : DocumentIds]

LegalTyped ==
  /\ document \in DocumentRow \cup {NoDocument}
  /\ editor \in [Editors -> {AtRest} \cup Passing \cup Editing]

\* An edit that has written texts keeps its document from being deleted for
\* good; one whose UPDATE found the row keeps it out of the bin; one whose
\* UPDATE found nothing sees a binned document until somebody restores it.
EditsHold ==
  \A w \in Editors :
    /\ editor[w].at \in {"date", "reread", "commit"} => Holding(editor[w].id)
    /\ editor[w].at \in {"reread", "commit"} /\ editor[w].found => ~document.deleted
    /\ editor[w].at = "reread" /\ ~editor[w].found /\ ~editor[w].restored => document.deleted
    /\ editor[w].at = "commit" /\ ~editor[w].found => editor[w].restored

LegalInv == LegalTyped /\ EditsHold

\* A request that only moves on, to a state as EditsHold wants it.
LEMMA EditorMoves ==
  ASSUME LegalInv, NEW w \in Editors, NEW q \in {AtRest} \cup Passing \cup Editing, Moves(w, q),
         UNCHANGED document,
         q.at \in {"date", "reread", "commit"} => Holding(q.id),
         q.at \in {"reread", "commit"} /\ q.found => ~document.deleted,
         q.at = "reread" /\ ~q.found /\ ~q.restored => document.deleted,
         q.at = "commit" /\ ~q.found => q.restored
  PROVE  LegalInv'
<1>1. editor'[w] = q /\ \A v \in Editors \ {w} : editor'[v] = editor[v]
  BY DEF Moves, LegalInv, LegalTyped
<1>2. LegalTyped'
  BY DEF Moves, LegalInv, LegalTyped
<1>3. EditsHold'
  BY <1>1 DEF LegalInv, EditsHold, Holding
<1> QED
  BY <1>2, <1>3 DEF LegalInv

\* A request that ends.
LEMMA EditorRests ==
  ASSUME LegalInv, NEW w \in Editors, Moves(w, AtRest), UNCHANGED document
  PROVE  LegalInv'
<1>1. AtRest.at = "rest"
  BY DEF AtRest
<1> QED
  BY <1>1, EditorMoves

\* A request that ends and leaves another document row behind, with the same
\* id, and binned only if it was or if nobody's UPDATE found it.
LEMMA EditorLeaves ==
  ASSUME LegalInv, NEW w \in Editors, Moves(w, AtRest), document' \in DocumentRow,
         document # NoDocument, document'.id = document.id,
         ~document'.deleted => ~document.deleted,
         document'.deleted => document.deleted \/ ~RowHeld(w)
  PROVE  LegalInv'
<1>1. editor'[w] = AtRest /\ AtRest.at = "rest" /\ \A v \in Editors \ {w} : editor'[v] = editor[v]
  BY DEF Moves, LegalInv, LegalTyped, AtRest
<1>2. LegalTyped'
  BY DEF Moves, LegalInv, LegalTyped
<1>3. document' # NoDocument
  BY EditAssumption
<1>4. ASSUME NEW v \in Editors \ {w}, editor[v].at \in {"reread", "commit"}, editor[v].found
      PROVE  ~document'.deleted
  BY <1>4 DEF RowHeld, LegalInv, EditsHold
<1>5. EditsHold'
  BY <1>1, <1>3, <1>4 DEF LegalInv, EditsHold, Holding
<1> QED
  BY <1>2, <1>5 DEF LegalInv

\* The rows that a commit and a soft delete write are rows.
LEMMA DocumentWritten ==
  ASSUME document \in DocumentRow, NEW edit \in Edits, NEW found
  PROVE  /\ LET d == [document EXCEPT !.date = IF found THEN edit.date ELSE @,
                                      !.body = [l \in TextLocales |->
                                        IF l \in DOMAIN edit.bodies THEN edit.bodies[l] ELSE @[l]]]
            IN  d \in DocumentRow /\ d.id = document.id /\ d.deleted = document.deleted
         /\ \A b \in BOOLEAN : LET d == [document EXCEPT !.deleted = b]
                               IN  d \in DocumentRow /\ d.id = document.id /\ d.deleted = b
<1>1. \A l \in DOMAIN edit.bodies : edit.bodies[l] \in UNION {BodiesOf(e) : e \in Edits}
  BY DEF BodiesOf
<1> DEFINE Texts == {NoText} \cup UNION {BodiesOf(e) : e \in Edits}
           Dates == {FirstDate} \cup {e.date : e \in Edits}
           date == IF found THEN edit.date ELSE document.date
           body == [l \in TextLocales |-> IF l \in DOMAIN edit.bodies THEN edit.bodies[l] ELSE document.body[l]]
<1>2. document.body \in [TextLocales -> Texts] /\ document.date \in Dates
      /\ document.id \in DocumentIds /\ document.deleted \in BOOLEAN
  BY DEF DocumentRow
<1>3. body \in [TextLocales -> Texts]
  BY <1>1, <1>2
<1>4. date \in Dates
  BY <1>2
<1>5. DocumentRow = [id : DocumentIds, deleted : BOOLEAN, date : Dates, body : [TextLocales -> Texts]]
  BY DEF DocumentRow
<1> HIDE DEF Texts, Dates, date, body
<1>6. [[document EXCEPT !.date = date] EXCEPT !.body = body] \in DocumentRow
      /\ [[document EXCEPT !.date = date] EXCEPT !.body = body].id = document.id
      /\ [[document EXCEPT !.date = date] EXCEPT !.body = body].deleted = document.deleted
  BY <1>2, <1>3, <1>4, <1>5
<1>7. \A b \in BOOLEAN : LET d == [document EXCEPT !.deleted = b]
                         IN  d \in DocumentRow /\ d.id = document.id /\ d.deleted = b
  BY <1>2, <1>5
<1> QED
  BY <1>6, <1>7 DEF date, body

\* A step after which no edit has written texts keeps the invariant.
LEMMA NobodyEdits ==
  ASSUME LegalInv, NEW w \in Editors, Moves(w, AtRest), document' \in DocumentRow \cup {NoDocument},
         \A v \in Editors : editor[v].at \notin {"date", "reread", "commit"}
  PROVE  LegalInv'
<1>1. editor'[w] = AtRest /\ AtRest.at = "rest" /\ \A v \in Editors \ {w} : editor'[v] = editor[v]
  BY DEF Moves, LegalInv, LegalTyped, AtRest
<1>2. LegalTyped'
  BY DEF Moves, LegalInv, LegalTyped
<1>3. \A v \in Editors : editor'[v].at \notin {"date", "reread", "commit"}
  BY <1>1
<1>4. EditsHold'
  BY <1>3 DEF EditsHold
<1> QED
  BY <1>2, <1>4 DEF LegalInv

\* The steps of an edit.
LEMMA NextEdit ==
  ASSUME LegalInv, NEW w \in Editors,
         \/ \E edit \in Edits : update_legal_document(w, edit)
         \/ upsert_translations(w) \/ update_document(w) \/ read_again(w)
  PROVE  LegalInv'
<1>0. editor[w] \in {AtRest} \cup Passing \cup Editing /\ AtRest.at = "rest"
  BY DEF LegalInv, LegalTyped, AtRest
<1>1. ASSUME NEW edit \in Edits, update_legal_document(w, edit) PROVE LegalInv'
  <2> DEFINE q == [at |-> "texts", id |-> document.id, command |-> edit, found |-> FALSE, restored |-> FALSE]
  <2>1. document.id \in DocumentIds
    BY <1>1 DEF update_legal_document, LegalInv, LegalTyped, DocumentRow
  <2>2. q \in Editing /\ q.at = "texts"
    BY <2>1 DEF Editing
  <2>3. Moves(w, q) /\ UNCHANGED document
    BY <1>1 DEF update_legal_document
  <2> HIDE DEF q
  <2> QED
    BY <2>2, <2>3, EditorMoves
<1>2. CASE upsert_translations(w) /\ ~Moves(w, AtRest)
  <2> DEFINE q == [editor[w] EXCEPT !.at = "date"]
  <2>1. editor[w].at = "texts" /\ Moves(w, q) /\ Holding(editor[w].id) /\ UNCHANGED document
    BY <1>2 DEF upsert_translations
  <2>2. editor[w] \in Editing
    BY <1>0, <2>1 DEF Passing
  <2>3. q \in Editing /\ q.at = "date" /\ q.id = editor[w].id
    BY <2>2 DEF Editing
  <2> HIDE DEF q
  <2> QED
    BY <2>1, <2>3, EditorMoves
<1>3. CASE update_document(w)
  <2> DEFINE found == Standing(editor[w].id)
             q == [[editor[w] EXCEPT !.at = "reread"] EXCEPT !.found = found]
  <2>1. editor[w].at = "date" /\ Moves(w, q) /\ UNCHANGED document
    BY <1>3 DEF update_document
  <2>2. editor[w] \in Editing
    BY <1>0, <2>1 DEF Passing
  <2>3. Holding(editor[w].id)
    BY <2>1 DEF LegalInv, EditsHold
  <2>4. found \in BOOLEAN /\ (found <=> ~document.deleted)
    BY <2>3 DEF Standing
  <2> HIDE DEF found
  <2>5. q \in Editing /\ q.at = "reread" /\ q.id = editor[w].id /\ q.found = found
    BY <2>2, <2>4 DEF Editing
  <2> HIDE DEF q
  <2> QED
    BY <2>1, <2>3, <2>4, <2>5, EditorMoves
<1>4. CASE read_again(w) /\ Standing(editor[w].id)
  <2> DEFINE q == [editor[w] EXCEPT !.at = "commit"]
  <2>1. editor[w].at = "reread" /\ Moves(w, q) /\ UNCHANGED document
    BY <1>4 DEF read_again
  <2>2. editor[w] \in Editing
    BY <1>0, <2>1 DEF Passing
  <2>3. Holding(editor[w].id) /\ ~document.deleted
    BY <1>4 DEF Standing
  <2>4. ~editor[w].found => editor[w].restored
    BY <2>1, <2>3 DEF LegalInv, EditsHold
  <2>5. /\ q \in Editing /\ q.at = "commit" /\ q.id = editor[w].id
        /\ q.found = editor[w].found /\ q.restored = editor[w].restored
    BY <2>2 DEF Editing
  <2> HIDE DEF q
  <2> QED
    BY <2>1, <2>3, <2>4, <2>5, EditorMoves
<1>5. CASE Moves(w, AtRest) /\ UNCHANGED document
  BY <1>5, EditorRests
<1> QED
  BY <1>1, <1>2, <1>3, <1>4, <1>5 DEF upsert_translations, read_again

\* The steps that write the document row at their end.
LEMMA NextWritten ==
  ASSUME LegalInv, NEW w \in Editors,
         insert_document(w) \/ commit_edit(w) \/ delete_soft(w) \/ delete_hard(w)
  PROVE  LegalInv'
<1>0. editor[w] \in {AtRest} \cup Passing \cup Editing /\ AtRest.at = "rest"
  BY DEF LegalInv, LegalTyped, AtRest
<1>1. CASE UNCHANGED document
  BY <1>1, EditorRests DEF insert_document, commit_edit, delete_soft, delete_hard
<1>2. CASE insert_document(w) /\ document = NoDocument
  <2>1. editor[w] \in Passing
    BY <1>0, <1>2 DEF insert_document, Editing
  <2>2. [id |-> editor[w].id, deleted |-> FALSE, date |-> FirstDate, body |-> [l \in TextLocales |-> NoText]]
          \in DocumentRow
    BY <2>1 DEF DocumentRow, Passing
  <2>3. \A v \in Editors : editor[v].at \notin {"date", "reread", "commit"}
    BY <1>2 DEF LegalInv, EditsHold, Holding
  <2> QED
    BY <1>2, <2>2, <2>3, NobodyEdits DEF insert_document
<1>3. CASE commit_edit(w)
  <2>1. editor[w] \in Editing /\ editor[w].at = "commit"
    BY <1>0, <1>3 DEF commit_edit, Passing
  <2>2. document \in DocumentRow /\ document # NoDocument
    BY <2>1 DEF LegalInv, LegalTyped, EditsHold, Holding
  <2>3. editor[w].command \in Edits
    BY <2>1 DEF Editing
  <2>4. document' \in DocumentRow /\ document'.id = document.id /\ document'.deleted = document.deleted
    BY <1>3, <2>2, <2>3, DocumentWritten DEF commit_edit
  <2>5. Moves(w, AtRest)
    BY <1>3 DEF commit_edit
  <2> QED
    BY <2>2, <2>4, <2>5, EditorLeaves
<1>4. CASE delete_soft(w) /\ Standing(editor[w].id)
  <2>1. document \in DocumentRow /\ document # NoDocument /\ ~document.deleted
    BY <1>4 DEF Standing, Holding, LegalInv, LegalTyped
  <2>2. document' = [document EXCEPT !.deleted = TRUE] /\ Moves(w, AtRest) /\ ~RowHeld(w)
    BY <1>4 DEF delete_soft
  <2>3. LET d == [document EXCEPT !.deleted = TRUE] IN d \in DocumentRow /\ d.id = document.id /\ d.deleted
    BY <2>1 DEF DocumentRow
  <2> QED
    BY <2>1, <2>2, <2>3, EditorLeaves
<1>5. CASE delete_hard(w) /\ Holding(editor[w].id)
  BY <1>5, NobodyEdits DEF delete_hard, Referenced
<1> QED
  BY <1>1, <1>2, <1>3, <1>4, <1>5 DEF insert_document, delete_soft, delete_hard

\* A restore keeps the invariant: every edit under way learns of it.
LEMMA NextRestore == ASSUME LegalInv, restore_legal_documents PROVE LegalInv'
<1>1. /\ document # NoDocument /\ document \in DocumentRow /\ document.deleted
      /\ document' = [document EXCEPT !.deleted = FALSE]
  BY DEF restore_legal_documents, LegalInv, LegalTyped
<1>2. document' \in DocumentRow /\ document'.id = document.id /\ ~document'.deleted /\ document' # NoDocument
  BY <1>1, EditAssumption DEF DocumentRow
<1>3. ASSUME NEW w \in Editors
      PROVE  /\ editor[w] \in Editing =>
                  /\ editor'[w] \in Editing /\ editor'[w].at = editor[w].at /\ editor'[w].id = editor[w].id
                  /\ editor'[w].found = editor[w].found /\ editor'[w].restored
             /\ editor[w] \notin Editing => editor'[w] = editor[w]
  <2>1. CASE editor[w] \in Editing
    <3>1. editor'[w] = [editor[w] EXCEPT !.restored = TRUE]
      BY <2>1 DEF restore_legal_documents, Editing
    <3> QED
      BY <2>1, <3>1 DEF Editing
  <2>2. CASE editor[w] \notin Editing
    <3>1. editor[w] \in {AtRest} \cup Passing
      BY <2>2 DEF LegalInv, LegalTyped
    <3>2. "restored" \notin DOMAIN editor[w]
      BY <3>1 DEF AtRest, Passing
    <3> QED
      BY <2>2, <3>2 DEF restore_legal_documents
  <2> QED
    BY <2>1, <2>2
<1>4. LegalTyped'
  BY <1>2, <1>3 DEF restore_legal_documents, LegalInv, LegalTyped
<1>5. \A w \in Editors : editor[w].at \in {"date", "reread", "commit"} => editor[w] \in Editing
  BY DEF LegalInv, LegalTyped, AtRest, Passing
<1>6. \A w \in Editors : editor'[w].at = editor[w].at
  BY <1>3
<1>7. EditsHold'
  BY <1>2, <1>3, <1>5, <1>6 DEF LegalInv, EditsHold, Holding
<1> QED
  BY <1>4, <1>7 DEF LegalInv

\* The invariant about Legal Documents is inductive.
LEMMA NextLegal == LegalInv /\ [LegalNext]_legalVars => LegalInv'
<1> SUFFICES ASSUME LegalInv, [LegalNext]_legalVars PROVE LegalInv'
  OBVIOUS
<1>1. ASSUME NEW w \in Editors, create_legal_document(w) PROVE LegalInv'
  <2>1. PICK id \in DocumentIds : Moves(w, [at |-> "insert", id |-> id]) /\ UNCHANGED document
    BY <1>1 DEF create_legal_document
  <2>2. [at |-> "insert", id |-> id] \in Passing /\ [at |-> "insert", id |-> id].at = "insert"
    BY DEF Passing
  <2> QED
    BY <2>1, <2>2, EditorMoves
<1>2. ASSUME NEW w \in Editors, NEW permanent \in BOOLEAN, delete_legal_document(w, permanent) PROVE LegalInv'
  <2> DEFINE q == [at |-> IF permanent THEN "hard" ELSE "soft", id |-> document.id]
  <2>1. document.id \in DocumentIds
    BY <1>2 DEF delete_legal_document, LegalInv, LegalTyped, DocumentRow
  <2>2. q \in Passing /\ q.at \in {"hard", "soft"}
    BY <2>1 DEF Passing
  <2>3. Moves(w, q) /\ UNCHANGED document
    BY <1>2 DEF delete_legal_document
  <2> HIDE DEF q
  <2> QED
    BY <2>2, <2>3, EditorMoves
<1>3. ASSUME NEW w \in Editors, abort_edit(w) PROVE LegalInv'
  BY <1>3, EditorRests DEF abort_edit
<1>4. CASE UNCHANGED legalVars
  BY <1>4 DEF legalVars, LegalInv, LegalTyped, EditsHold, Holding
<1> QED
  BY <1>1, <1>2, <1>3, <1>4, NextEdit, NextWritten, NextRestore DEF LegalNext

\* A binned Legal Document keeps the texts and the date it was deleted with,
\* whatever edits were under way; only one during which the document was
\* restored and deleted once more can still commit.
\* legal_document_service.update_legal_document.
THEOREM BinIsSafe == LegalSpec => BinnedKeepsItsText
<1> DEFINE Kept ==
      document # NoDocument /\ document' # NoDocument /\ document'.id = document.id /\ document.deleted /\ document'.deleted
        => document' = document \/ \E w \in Editors : editor[w].at = "commit" /\ editor[w].restored
<1>1. LegalInit => LegalInv
  <2>1. AtRest.at = "rest"
    BY DEF AtRest
  <2> QED
    BY <2>1 DEF LegalInit, LegalInv, LegalTyped, EditsHold
<1>2. LegalInv /\ [LegalNext]_legalVars => [Kept]_legalVars
  <2> SUFFICES ASSUME LegalInv, LegalNext, document # NoDocument, document' # NoDocument,
                      document.deleted, document'.deleted, document' # document
               PROVE  \E w \in Editors : editor[w].at = "commit" /\ editor[w].restored
    OBVIOUS
  <2>1. ~restore_legal_documents
    <3>1. document \in DocumentRow
      BY DEF LegalInv, LegalTyped
    <3>2. ~[document EXCEPT !.deleted = FALSE].deleted
      BY <3>1 DEF DocumentRow
    <3> QED
      BY <3>2 DEF restore_legal_documents
  <2>2. PICK w \in Editors : commit_edit(w)
    BY <2>1 DEF LegalNext, create_legal_document, insert_document, update_legal_document, upsert_translations,
                update_document, read_again, abort_edit, delete_legal_document, delete_soft, delete_hard, Standing
  <2>3. editor[w].at = "commit" /\ ~editor[w].found
    BY <2>2 DEF commit_edit, LegalInv, EditsHold
  <2> QED
    BY <2>3 DEF LegalInv, EditsHold
<1> QED
  BY <1>1, <1>2, NextLegal, PTL DEF LegalSpec, BinnedKeepsItsText

-----------------------------------------------------------------------------
(* Booking and Series Drafts.                                              *)

DraftPC ==
  {<<"idle", 0>>, <<"lines", 0>>, <<"rooms", 0>>, <<"create", 1>>, <<"create", 2>>}
    \cup {<<"update", n>> : n \in 1..5} \cup {<<kind, n>> : kind \in {"delete", "confirm"}, n \in 1..4}

DraftRequest ==
  [pc : DraftPC, new : Proposals \cup {NoDraft}, locks : BOOLEAN, snap : SUBSET Proposals, del : SUBSET Proposals,
   ins : SUBSET Proposals, gone : BOOLEAN, made : SUBSET Proposals]

DraftTyped ==
  /\ header \in Proposals \cup {NoDraft} /\ lines \subseteq Proposals
  /\ drafting \in [DraftWorkers -> DraftRequest]

Kind(q) == q.pc[1]
Stmt(q) == q.pc[2]

\* What one transaction knows of the committed rows.
Knows(q) ==
  /\ Kind(q) \in {"update", "create"} => q.new \in Proposals
  /\ q.ins = IF q.pc \in {<<"update", 5>>, <<"create", 2>>} THEN {q.new} ELSE {}
  /\ q.gone => q.locks /\ lines \subseteq q.del /\ Kind(q) \in {"delete", "confirm"} /\ Stmt(q) = 4
  /\ q.locks => header # NoDraft /\ (q.gone \/ (Kind(q) = "update" /\ Stmt(q) > 1))
  /\ q.del \subseteq lines
  /\ q.del # {} => q.locks \/ (Stmt(q) = 3 /\ Kind(q) \in {"delete", "confirm"})
  /\ Kind(q) = "update" /\ Stmt(q) > 1 /\ ~q.locks => header = NoDraft /\ Stmt(q) < 5
  /\ Kind(q) = "update" /\ q.locks /\ Stmt(q) = 3 => q.snap = lines
  /\ Kind(q) = "update" /\ q.locks => q.del = IF Stmt(q) > 3 THEN lines ELSE {}
  /\ Kind(q) = "create" => header = NoDraft

\* Two transactions never hold the same row, and a Draft that is being created
\* meets only deletions.
Apart(p, q) ==
  /\ ~(p.locks /\ q.locks) /\ p.del \cap q.del = {}
  /\ Kind(p) = "create" => Kind(q) \in {"idle", "delete"}

DraftInv ==
  /\ DraftTyped /\ DraftIsOneProposal
  /\ \A t \in DraftWorkers : Knows(drafting[t])
  /\ \A t, u \in DraftWorkers : t # u => Apart(drafting[t], drafting[u])

\* Which request runs which statement.
LEMMA StatementAt ==
  ASSUME DraftTyped, NEW t \in DraftWorkers
  PROVE  /\ At(t, "header") => drafting[t].pc = <<"update", 1>>
         /\ At(t, "snapshot") => drafting[t].pc \in {<<"update", 2>>, <<"delete", 1>>, <<"confirm", 1>>}
         /\ At(t, "delete") => drafting[t].pc \in {<<"update", 3>>, <<"delete", 2>>, <<"confirm", 2>>}
         /\ At(t, "insert") => drafting[t].pc \in {<<"update", 4>>, <<"create", 1>>}
         /\ At(t, "drop") => drafting[t].pc \in {<<"delete", 3>>, <<"confirm", 3>>}
         /\ At(t, "commit") => drafting[t].pc \in {<<"update", 5>>, <<"create", 2>>, <<"delete", 4>>, <<"confirm", 4>>}
<1> DEFINE pc == drafting[t].pc
<1>1. pc \in DraftPC
  BY DEF DraftTyped, DraftRequest
<1>2. \A s : At(t, s) <=> pc[2] > 0 /\ StatementsOf(pc[1])[pc[2]] = s
  BY DEF At
<1>3. CASE pc \in {<<"idle", 0>>, <<"lines", 0>>, <<"rooms", 0>>}
  BY <1>2, <1>3
<1>4. CASE pc \in {<<"create", 1>>, <<"create", 2>>}
  BY <1>2, <1>4 DEF StatementsOf, create_statements
<1>5. CASE \E n \in 1..5 : pc = <<"update", n>>
  BY <1>2, <1>5 DEF StatementsOf, update_statements
<1>6. CASE \E kind \in {"delete", "confirm"}, n \in 1..4 : pc = <<kind, n>>
  BY <1>2, <1>6 DEF StatementsOf, delete_statements
<1> QED
  BY <1>1, <1>3, <1>4, <1>5, <1>6 DEF DraftPC

\* Where a request is, as a pair.
LEMMA PcIsPair == \A pc \in DraftPC : \E kind, n : n \in Nat /\ pc = <<kind, n>>
<1> SUFFICES ASSUME NEW pc \in DraftPC PROVE \E kind, n : n \in Nat /\ pc = <<kind, n>>
  OBVIOUS
<1>1. CASE pc \in {<<"idle", 0>>, <<"lines", 0>>, <<"rooms", 0>>, <<"create", 1>>, <<"create", 2>>}
  BY <1>1, Zenon, 0 \in Nat, 1 \in Nat, 2 \in Nat
<1>2. CASE \E n \in 1..5 : pc = <<"update", n>>
  <2>1. PICK n \in 1..5 : pc = <<"update", n>>
    BY <1>2
  <2>2. n \in Nat
    OBVIOUS
  <2> QED
    BY <2>1, <2>2, Zenon
<1>3. CASE \E kind \in {"delete", "confirm"}, n \in 1..4 : pc = <<kind, n>>
  <2>1. PICK kind \in {"delete", "confirm"}, n \in 1..4 : pc = <<kind, n>>
    BY <1>3
  <2>2. n \in Nat
    OBVIOUS
  <2> QED
    BY <2>1, <2>2, Zenon
<1> QED
  BY <1>1, <1>2, <1>3 DEF DraftPC

\* The next statement of a request leaves the rest of it alone.
LEMMA AfterStatement ==
  ASSUME DraftTyped, NEW t \in DraftWorkers, NEW kind, NEW n \in Nat, drafting[t].pc = <<kind, n>>,
         <<kind, n + 1>> \in DraftPC
  PROVE  /\ After(t) \in DraftRequest /\ After(t).pc = <<kind, n + 1>>
         /\ After(t).new = drafting[t].new /\ After(t).locks = drafting[t].locks
         /\ After(t).snap = drafting[t].snap /\ After(t).del = drafting[t].del
         /\ After(t).ins = drafting[t].ins /\ After(t).gone = drafting[t].gone
         /\ After(t).made = drafting[t].made
<1>1. [<<kind, n>> EXCEPT ![2] = n + 1] = <<kind, n + 1>>
  OBVIOUS
<1>2. After(t) = [drafting[t] EXCEPT !.pc = <<kind, n + 1>>]
  BY <1>1 DEF After
<1>3. drafting[t] \in DraftRequest
  BY DEF DraftTyped
<1> QED
  BY <1>2, <1>3 DEF DraftRequest

\* A transaction that moves on, to a state that fits the others, keeps the
\* invariant: committed rows do not change.
LEMMA DraftMoves ==
  ASSUME DraftInv, NEW t \in DraftWorkers, NEW q \in DraftRequest, Continues(t, q), Quiet, Knows(q),
         \A u \in Others(t) : Apart(q, drafting[u]) /\ Apart(drafting[u], q)
  PROVE  DraftInv'
<1>1. drafting'[t] = q /\ \A u \in Others(t) : drafting'[u] = drafting[u]
  BY DEF Continues, DraftInv, DraftTyped, Others
<1>2. DraftTyped' /\ DraftIsOneProposal'
  BY DEF Continues, Quiet, DraftInv, DraftTyped, DraftIsOneProposal
<1>3. \A v \in DraftWorkers : Knows(drafting'[v])
  BY <1>1 DEF DraftInv, Others
<1>4. \A v \in DraftWorkers : Knows(drafting[v])'
  BY <1>3 DEF Knows, Quiet
<1>5. \A u, v \in DraftWorkers : u # v => Apart(drafting[u], drafting[v])'
  BY <1>1 DEF DraftInv, Others, Apart, Kind
<1> QED
  BY <1>2, <1>4, <1>5 DEF DraftInv

\* A request that is over holds nothing.
LEMMA NothingHeld ==
  /\ NoRequest \in DraftRequest /\ NoRequest.pc = <<"idle", 0>> /\ ~NoRequest.locks /\ ~NoRequest.gone
  /\ NoRequest.del = {} /\ NoRequest.ins = {} /\ NoRequest.snap = {} /\ NoRequest.made = {}
BY DEF NoRequest, DraftRequest, DraftPC

\* A transaction that has written nothing yet fits any state.
LEMMA NothingYet ==
  ASSUME DraftInv, NEW t \in DraftWorkers, NEW q \in DraftRequest, Continues(t, q), Quiet,
         ~q.locks, ~q.gone, q.del = {}, q.ins = {},
         \/ Kind(q) \in {"idle", "delete"}
         \/ Kind(q) \in {"lines", "rooms", "confirm"} /\ \A u \in Others(t) : Kind(drafting[u]) # "create"
         \/ q.pc = <<"update", 1>> /\ q.new \in Proposals /\ \A u \in Others(t) : Kind(drafting[u]) # "create"
         \/ /\ q.pc = <<"create", 1>> /\ q.new \in Proposals /\ header = NoDraft
            /\ \A u \in Others(t) : drafting[u] = NoRequest
  PROVE  DraftInv'
<1>1. q.pc \notin {<<"update", 5>>, <<"create", 2>>}
  BY DEF Kind
<1>2. Knows(q)
  BY <1>1 DEF Knows, Kind, Stmt
<1>3. ASSUME NEW u \in Others(t) PROVE Apart(q, drafting[u]) /\ Apart(drafting[u], q)
  BY <1>3, NothingHeld DEF Apart, Kind
<1> QED
  BY <1>2, <1>3, DraftMoves

\* A transaction that moves on with the same row locks.
LEMMA SameLocks ==
  ASSUME DraftInv, NEW t \in DraftWorkers, NEW q \in DraftRequest, Continues(t, q), Quiet, Knows(q),
         q.locks => drafting[t].locks, q.del \subseteq drafting[t].del, Kind(q) = Kind(drafting[t])
  PROVE  DraftInv'
<1>1. ASSUME NEW u \in Others(t) PROVE Apart(q, drafting[u]) /\ Apart(drafting[u], q)
  BY <1>1 DEF Apart, DraftInv, Others
<1> QED
  BY <1>1, DraftMoves

\* update_header takes the lock of the header, if there is one.
LEMMA HeaderStep == ASSUME DraftInv, NEW t \in DraftWorkers, update_header(t) PROVE DraftInv'
<1> DEFINE there == header # NoDraft
           a == After(t)
           q == [a EXCEPT !.locks = there]
<1>0. DraftTyped /\ drafting[t].pc = <<"update", 1>> /\ Continues(t, q) /\ Quiet /\ HeaderFree(t)
  BY StatementAt DEF update_header, DraftInv
<1>1. Knows(drafting[t])
  BY DEF DraftInv
<1>2. <<"update", 1 + 1>> \in DraftPC /\ 1 + 1 = 2
  BY DEF DraftPC
<1>3. /\ a \in DraftRequest /\ a.pc = <<"update", 2>>
      /\ a.new = drafting[t].new /\ a.del = drafting[t].del /\ a.ins = drafting[t].ins /\ a.gone = drafting[t].gone
  BY <1>0, <1>2, AfterStatement
<1> HIDE DEF a
<1>4. there \in BOOLEAN /\ (there <=> header # NoDraft)
  OBVIOUS
<1> HIDE DEF there
<1>5. /\ q \in DraftRequest /\ q.pc = <<"update", 2>> /\ q.locks = there
      /\ q.new = drafting[t].new /\ q.del = drafting[t].del /\ q.ins = drafting[t].ins /\ q.gone = drafting[t].gone
  BY <1>3, <1>4 DEF DraftRequest
<1> HIDE DEF q
<1>6. q.del = {} /\ q.ins = {} /\ ~q.gone /\ q.new \in Proposals
  BY <1>0, <1>1, <1>5 DEF Knows, Kind, Stmt
<1>7. Knows(q)
  BY <1>4, <1>5, <1>6 DEF Knows, Kind, Stmt
<1>8. ASSUME NEW u \in Others(t) PROVE Apart(q, drafting[u]) /\ Apart(drafting[u], q)
  <2>1. Apart(drafting[u], drafting[t])
    BY DEF DraftInv, Others
  <2> QED
    BY <1>0, <1>5, <1>6, <2>1 DEF Apart, Kind, HeaderFree
<1> QED
  BY <1>0, <1>5, <1>7, <1>8, DraftMoves

\* The DELETE of the lines begins: an update that holds the header sees them
\* as they stay until its end.
LEMMA SnapshotStep == ASSUME DraftInv, NEW t \in DraftWorkers, BeginDelete(t) PROVE DraftInv'
<1> DEFINE a == After(t)
           q == [a EXCEPT !.snap = lines]
<1>0. DraftTyped /\ Continues(t, q) /\ Quiet
  BY DEF BeginDelete, DraftInv
<1>p. drafting[t].pc \in {<<"update", 2>>, <<"delete", 1>>, <<"confirm", 1>>} /\ drafting[t].pc \in DraftPC
  BY <1>0, StatementAt DEF BeginDelete, DraftTyped, DraftRequest
<1>k. PICK kind, n : n \in Nat /\ drafting[t].pc = <<kind, n>>
  BY <1>p, PcIsPair
<1>1. n \in Nat /\ drafting[t].pc = <<kind, n>> /\ <<kind, n>> \in {<<"update", 2>>, <<"delete", 1>>, <<"confirm", 1>>}
  BY <1>p, <1>k
<1>2. Knows(drafting[t])
  BY DEF DraftInv
<1>3. <<kind, n + 1>> \in DraftPC
  BY <1>1 DEF DraftPC
<1>4. /\ a \in DraftRequest /\ a.pc = <<kind, n + 1>> /\ a.new = drafting[t].new /\ a.locks = drafting[t].locks
      /\ a.del = drafting[t].del /\ a.ins = drafting[t].ins /\ a.gone = drafting[t].gone
  BY <1>0, <1>1, <1>3, AfterStatement
<1> HIDE DEF a
<1>5. /\ q \in DraftRequest /\ q.pc = <<kind, n + 1>> /\ q.snap = lines
      /\ q.new = drafting[t].new /\ q.locks = drafting[t].locks
      /\ q.del = drafting[t].del /\ q.ins = drafting[t].ins /\ q.gone = drafting[t].gone
  BY <1>0, <1>4 DEF DraftRequest, DraftTyped
<1> HIDE DEF q
<1>6. Knows(q)
  BY <1>1, <1>2, <1>5 DEF Knows, Kind, Stmt
<1>7. Kind(q) = Kind(drafting[t])
  BY <1>1, <1>5 DEF Kind
<1> QED
  BY <1>0, <1>5, <1>6, <1>7, SameLocks

\* The DELETE of the lines ends: the rows it takes are nobody else's.
LEMMA DeleteStep == ASSUME DraftInv, NEW t \in DraftWorkers, FinishDelete(t) PROVE DraftInv'
<1> DEFINE taken_rows == drafting[t].snap \cap lines
           a == After(t)
           q == [[a EXCEPT !.del = taken_rows] EXCEPT !.snap = {}]
<1>0. DraftTyped /\ Continues(t, q) /\ Quiet /\ LinesFree(t, taken_rows)
  BY DEF FinishDelete, DraftInv
<1>p. drafting[t].pc \in {<<"update", 3>>, <<"delete", 2>>, <<"confirm", 2>>} /\ drafting[t].pc \in DraftPC
  BY <1>0, StatementAt DEF FinishDelete, DraftTyped, DraftRequest
<1>k. PICK kind, n : n \in Nat /\ drafting[t].pc = <<kind, n>>
  BY <1>p, PcIsPair
<1>1. n \in Nat /\ drafting[t].pc = <<kind, n>> /\ <<kind, n>> \in {<<"update", 3>>, <<"delete", 2>>, <<"confirm", 2>>}
  BY <1>p, <1>k
<1>2. Knows(drafting[t])
  BY DEF DraftInv
<1>3. <<kind, n + 1>> \in DraftPC
  BY <1>1 DEF DraftPC
<1>4. /\ a \in DraftRequest /\ a.pc = <<kind, n + 1>> /\ a.new = drafting[t].new /\ a.locks = drafting[t].locks
      /\ a.ins = drafting[t].ins /\ a.gone = drafting[t].gone
  BY <1>0, <1>1, <1>3, AfterStatement
<1>t. taken_rows \subseteq lines /\ taken_rows \subseteq Proposals
      /\ (drafting[t].snap = lines => taken_rows = lines) /\ (lines = {} => taken_rows = {})
  BY <1>0 DEF DraftTyped
<1> HIDE DEF a, taken_rows
<1>5. /\ q \in DraftRequest /\ q.pc = <<kind, n + 1>> /\ q.del = taken_rows
      /\ q.new = drafting[t].new /\ q.locks = drafting[t].locks
      /\ q.ins = drafting[t].ins /\ q.gone = drafting[t].gone
  BY <1>4, <1>t DEF DraftRequest
<1> HIDE DEF q
<1>6. Knows(q)
  <2>1. header = NoDraft => lines = {}
    BY DEF DraftInv, DraftIsOneProposal
  <2>2. CASE <<kind, n>> = <<"update", 3>>
    BY <1>1, <1>2, <1>5, <1>t, <2>1, <2>2 DEF Knows, Kind, Stmt
  <2>3. CASE <<kind, n>> \in {<<"delete", 2>>, <<"confirm", 2>>}
    BY <1>1, <1>2, <1>5, <1>t, <2>3 DEF Knows, Kind, Stmt
  <2> QED
    BY <1>1, <2>2, <2>3
<1>7. ASSUME NEW u \in Others(t) PROVE Apart(q, drafting[u]) /\ Apart(drafting[u], q)
  <2>1. Apart(drafting[u], drafting[t]) /\ Apart(drafting[t], drafting[u])
    BY DEF DraftInv, Others
  <2>2. drafting[u].del \cap q.del = {}
    BY <1>0, <1>5 DEF LinesFree
  <2>3. Kind(q) = Kind(drafting[t])
    BY <1>1, <1>5 DEF Kind
  <2> QED
    BY <1>5, <2>1, <2>2, <2>3 DEF Apart
<1> QED
  BY <1>0, <1>5, <1>6, <1>7, DraftMoves

\* An insert of lines comes under the header it belongs to.
LEMMA InsertStep == ASSUME DraftInv, NEW t \in DraftWorkers, insert_lines(t) PROVE DraftInv'
<1> DEFINE a == After(t)
           q == [a EXCEPT !.ins = {drafting[t].new}]
<1>0. DraftTyped /\ Continues(t, q) /\ Quiet
  BY DEF insert_lines, DraftInv
<1>p. drafting[t].pc \in {<<"update", 4>>, <<"create", 1>>} /\ drafting[t].pc \in DraftPC
  BY <1>0, StatementAt DEF insert_lines, DraftTyped, DraftRequest
<1>k. PICK kind, n : n \in Nat /\ drafting[t].pc = <<kind, n>>
  BY <1>p, PcIsPair
<1>1. n \in Nat /\ drafting[t].pc = <<kind, n>> /\ <<kind, n>> \in {<<"update", 4>>, <<"create", 1>>}
  BY <1>p, <1>k
<1>2. Knows(drafting[t]) /\ drafting[t].new \in Proposals
  <2>1. Knows(drafting[t])
    BY DEF DraftInv
  <2>2. Kind(drafting[t]) \in {"update", "create"}
    BY <1>p DEF Kind
  <2> QED
    BY <2>1, <2>2 DEF Knows
<1>3. <<kind, n + 1>> \in DraftPC
  BY <1>1 DEF DraftPC
<1>4. /\ a \in DraftRequest /\ a.pc = <<kind, n + 1>> /\ a.new = drafting[t].new /\ a.locks = drafting[t].locks
      /\ a.snap = drafting[t].snap /\ a.del = drafting[t].del /\ a.gone = drafting[t].gone
  BY <1>0, <1>1, <1>3, AfterStatement
<1> HIDE DEF a
<1>5. /\ q \in DraftRequest /\ q.pc = <<kind, n + 1>> /\ q.ins = {drafting[t].new}
      /\ q.new = drafting[t].new /\ q.locks = drafting[t].locks
      /\ q.del = drafting[t].del /\ q.snap = drafting[t].snap /\ q.gone = drafting[t].gone
  BY <1>2, <1>4 DEF DraftRequest
<1> HIDE DEF q
<1>6. Knows(q)
  <2>1. CASE <<kind, n>> = <<"update", 4>>
    <3>1. header # NoDraft
      BY <1>1, <2>1 DEF insert_lines
    <3> QED
      BY <1>1, <1>2, <1>5, <2>1, <3>1 DEF Knows, Kind, Stmt
  <2>2. CASE <<kind, n>> = <<"create", 1>>
    BY <1>1, <1>2, <1>5, <2>2 DEF Knows, Kind, Stmt
  <2> QED
    BY <1>1, <2>1, <2>2
<1>7. Kind(q) = Kind(drafting[t])
  BY <1>1, <1>5 DEF Kind
<1> QED
  BY <1>0, <1>5, <1>6, <1>7, SameLocks

\* The DELETE of the header takes it and all its lines, or finds none.
LEMMA DropStep == ASSUME DraftInv, NEW t \in DraftWorkers, drop_header(t) PROVE DraftInv'
<1> DEFINE there == header # NoDraft
           rows_gone == IF there THEN drafting[t].del \cup lines ELSE drafting[t].del
           a == After(t)
           q == [[[a EXCEPT !.locks = there] EXCEPT !.gone = there] EXCEPT !.del = rows_gone]
<1>0. DraftTyped /\ Quiet /\ HeaderFree(t) /\ (there => LinesFree(t, lines))
  BY DEF drop_header, DraftInv
<1>p. drafting[t].pc \in {<<"delete", 3>>, <<"confirm", 3>>} /\ drafting[t].pc \in DraftPC
  BY <1>0, StatementAt DEF drop_header, DraftTyped, DraftRequest
<1>k. PICK kind, n : n \in Nat /\ drafting[t].pc = <<kind, n>>
  BY <1>p, PcIsPair
<1>1. n \in Nat /\ drafting[t].pc = <<kind, n>> /\ <<kind, n>> \in {<<"delete", 3>>, <<"confirm", 3>>}
  BY <1>p, <1>k
<1>2. Knows(drafting[t])
  BY DEF DraftInv
<1>3. <<kind, n + 1>> \in DraftPC
  BY <1>1 DEF DraftPC
<1>4. /\ a \in DraftRequest /\ a.pc = <<kind, n + 1>> /\ a.new = drafting[t].new
      /\ a.del = drafting[t].del /\ a.ins = drafting[t].ins
  BY <1>0, <1>1, <1>3, AfterStatement
<1>c. Continues(t, q)
  BY <1>4 DEF drop_header
<1>t. /\ there \in BOOLEAN /\ (there <=> header # NoDraft)
      /\ rows_gone \subseteq Proposals /\ rows_gone = IF header # NoDraft THEN lines ELSE {}
  <2>1. drafting[t].del \subseteq lines /\ lines \subseteq Proposals
    BY <1>0, <1>2 DEF Knows, DraftTyped
  <2>2. header = NoDraft => lines = {}
    BY DEF DraftInv, DraftIsOneProposal
  <2> QED
    BY <2>1, <2>2
<1> HIDE DEF a, there, rows_gone
<1>5. /\ q \in DraftRequest /\ q.pc = <<kind, n + 1>> /\ q.del = rows_gone
      /\ q.locks = there /\ q.gone = there /\ q.ins = drafting[t].ins
  BY <1>4, <1>t DEF DraftRequest
<1> HIDE DEF q
<1>6. Knows(q)
  BY <1>1, <1>2, <1>5, <1>t DEF Knows, Kind, Stmt
<1>7. ASSUME NEW u \in Others(t) PROVE Apart(q, drafting[u]) /\ Apart(drafting[u], q)
  <2>1. Apart(drafting[u], drafting[t]) /\ Apart(drafting[t], drafting[u])
    BY DEF DraftInv, Others
  <2>2. drafting[u].del \cap q.del = {} /\ ~drafting[u].locks
    BY <1>0, <1>5, <1>t DEF LinesFree, HeaderFree
  <2>3. Kind(q) = Kind(drafting[t])
    BY <1>1, <1>5 DEF Kind
  <2> QED
    BY <1>5, <2>1, <2>2, <2>3 DEF Apart
<1> QED
  BY <1>0, <1>c, <1>5, <1>6, <1>7, DraftMoves

\* A commit replaces header and lines together, and what the others hold or
\* have seen stays true.
LEMMA CommitStep == ASSUME DraftInv, NEW t \in DraftWorkers, commit_draft(t) PROVE DraftInv'
<1> DEFINE q == drafting[t]
<1>0. /\ DraftTyped /\ Knows(q) /\ q \in DraftRequest
      /\ q.pc \in {<<"update", 5>>, <<"create", 2>>, <<"delete", 4>>, <<"confirm", 4>>}
      /\ header' = CommittedHeader(q) /\ lines' = (lines \ q.del) \cup q.ins
      /\ Continues(t, NoRequest)
  BY StatementAt DEF commit_draft, DraftInv, DraftTyped
<1>1. /\ drafting'[t] = NoRequest /\ \A u \in Others(t) : drafting'[u] = drafting[u]
      /\ drafting' \in [DraftWorkers -> DraftRequest]
  BY <1>0, NothingHeld DEF Continues, DraftTyped, Others
<1>2. \A u \in Others(t) : /\ Knows(drafting[u]) /\ Apart(drafting[u], q) /\ Apart(q, drafting[u])
                           /\ u \in DraftWorkers
  BY DEF DraftInv, Others
<1>3. lines = IF header = NoDraft THEN {} ELSE {header}
  BY DEF DraftInv, DraftIsOneProposal
<1>4. \A u, v \in DraftWorkers : u # v => Apart(drafting[u], drafting[v])'
  <2>1. \A u \in Others(t) : /\ Apart(NoRequest, drafting[u]) /\ Apart(drafting[u], NoRequest)
    BY NothingHeld DEF Apart, Kind
  <2>2. \A u, v \in DraftWorkers : u # v => Apart(drafting'[u], drafting'[v])
    BY <1>1, <2>1 DEF DraftInv, Others
  <2> QED
    BY <2>2 DEF Apart, Kind
<1> HIDE DEF q
<1>5. ASSUME DraftTyped', DraftIsOneProposal',
             \A u \in Others(t) : Knows(drafting[u])'
      PROVE  DraftInv'
  <2>1. Knows(NoRequest)'
    BY NothingHeld DEF Knows, Kind, Stmt
  <2>2. Knows(drafting[t])'
    BY <1>1, <2>1 DEF Knows, Kind, Stmt
  <2> QED
    BY <1>4, <1>5, <2>2 DEF DraftInv, Others
<1>6. CASE q.pc = <<"update", 5>>
  <2>1. /\ q.new \in Proposals /\ q.locks /\ ~q.gone /\ q.ins = {q.new} /\ q.del = lines /\ header # NoDraft
    BY <1>0, <1>6 DEF Knows, Kind, Stmt
  <2>2. header' = q.new /\ lines' = {q.new} /\ q.new # NoDraft
    BY <1>0, <1>6, <2>1, DraftAssumption DEF CommittedHeader
  <2>3. DraftTyped' /\ DraftIsOneProposal'
    BY <1>1, <2>1, <2>2 DEF DraftTyped, DraftIsOneProposal
  <2>4. ASSUME NEW u \in Others(t) PROVE Knows(drafting[u])'
    <3>1. /\ ~drafting[u].locks /\ ~drafting[u].gone /\ drafting[u].del = {} /\ Kind(drafting[u]) # "create"
          /\ (Kind(drafting[u]) = "update" => ~(Stmt(drafting[u]) > 1))
      BY <1>2, <2>1 DEF Knows, Apart
    <3>2. Knows(drafting[u]) /\ drafting'[u] = drafting[u]
      BY <1>1, <1>2
    <3> QED
      BY <2>2, <3>1, <3>2 DEF Knows, Kind, Stmt
  <2> QED
    BY <1>5, <2>3, <2>4
<1>7. CASE q.pc = <<"create", 2>>
  <2>1. /\ q.new \in Proposals /\ ~q.locks /\ ~q.gone /\ q.ins = {q.new} /\ header = NoDraft /\ lines = {}
    BY <1>0, <1>3, <1>7 DEF Knows, Kind, Stmt
  <2>2. header' = q.new /\ lines' = {q.new} /\ q.new # NoDraft
    BY <1>0, <1>7, <2>1, DraftAssumption DEF CommittedHeader
  <2>3. DraftTyped' /\ DraftIsOneProposal'
    BY <1>1, <2>1, <2>2 DEF DraftTyped, DraftIsOneProposal
  <2>4. ASSUME NEW u \in Others(t) PROVE Knows(drafting[u])'
    <3>1. Kind(q) = "create"
      BY <1>7 DEF Kind
    <3>2. /\ ~drafting[u].locks /\ ~drafting[u].gone /\ drafting[u].del = {}
          /\ Kind(drafting[u]) \in {"idle", "delete"}
      BY <1>2, <2>1, <3>1 DEF Knows, Apart
    <3>3. Knows(drafting[u]) /\ drafting'[u] = drafting[u]
      BY <1>1, <1>2
    <3> QED
      BY <2>2, <3>2, <3>3 DEF Knows, Kind, Stmt
  <2> QED
    BY <1>5, <2>3, <2>4
<1>8. CASE q.pc \in {<<"delete", 4>>, <<"confirm", 4>>} /\ q.gone
  <2>1. q.locks /\ q.del = lines /\ q.ins = {} /\ header # NoDraft
    BY <1>0, <1>8 DEF Knows, Kind, Stmt
  <2>2. header' = NoDraft /\ lines' = {}
    BY <1>0, <1>8, <2>1 DEF CommittedHeader
  <2>3. DraftTyped' /\ DraftIsOneProposal'
    BY <1>1, <2>2 DEF DraftTyped, DraftIsOneProposal
  <2>4. ASSUME NEW u \in Others(t) PROVE Knows(drafting[u])'
    <3>1. /\ ~drafting[u].locks /\ ~drafting[u].gone /\ drafting[u].del = {}
      BY <1>2, <2>1 DEF Knows, Apart
    <3>2. Knows(drafting[u]) /\ drafting'[u] = drafting[u]
      BY <1>1, <1>2
    <3>3. Kind(drafting[u]) = "update" /\ Stmt(drafting[u]) > 1 => Stmt(drafting[u]) < 5
      BY <3>1, <3>2 DEF Knows
    <3> QED
      BY <2>2, <3>1, <3>2, <3>3 DEF Knows, Kind, Stmt
  <2> QED
    BY <1>5, <2>3, <2>4
<1>9. CASE q.pc \in {<<"delete", 4>>, <<"confirm", 4>>} /\ ~q.gone
  <2>1. ~q.locks /\ q.del = {} /\ q.ins = {}
    BY <1>0, <1>9 DEF Knows, Kind, Stmt
  <2>2. header' = header /\ lines' = lines
    BY <1>0, <1>9, <2>1 DEF CommittedHeader
  <2>3. DraftTyped' /\ DraftIsOneProposal'
    BY <1>0, <1>1, <2>2 DEF DraftTyped, DraftIsOneProposal, DraftInv
  <2>4. ASSUME NEW u \in Others(t) PROVE Knows(drafting[u])'
    <3>1. Knows(drafting[u]) /\ drafting'[u] = drafting[u]
      BY <1>1, <1>2
    <3> QED
      BY <2>2, <3>1 DEF Knows, Kind, Stmt
  <2> QED
    BY <1>5, <2>3, <2>4
<1> QED
  BY <1>0, <1>6, <1>7, <1>8, <1>9

\* The invariant about Drafts is inductive.
LEMMA NextDraft == DraftInv /\ [DraftNext]_draftVars => DraftInv'
<1> SUFFICES ASSUME DraftInv, [DraftNext]_draftVars PROVE DraftInv'
  OBVIOUS
<1>0. DraftTyped
  BY DEF DraftInv
<1>c. ASSUME NEW u \in DraftWorkers, header # NoDraft PROVE Kind(drafting[u]) # "create"
  BY <1>c DEF DraftInv, Knows
<1>1. ASSUME NEW t \in DraftWorkers, NEW p \in Proposals, create_draft(t, p) PROVE DraftInv'
  <2> DEFINE q == [NoRequest EXCEPT !.pc = <<"create", 1>>, !.new = p]
  <2>0. <<"create", 1>> \in DraftPC
    BY DEF DraftPC
  <2>1. /\ q \in DraftRequest /\ q.pc = <<"create", 1>> /\ q.new = p
        /\ ~q.locks /\ ~q.gone /\ q.del = {} /\ q.ins = {}
    BY <2>0 DEF NoRequest, DraftRequest
  <2>2. Continues(t, q) /\ Quiet /\ header = NoDraft /\ \A u \in Others(t) : drafting[u] = NoRequest
    BY <1>1 DEF create_draft
  <2> HIDE DEF q
  <2> QED
    BY <2>1, <2>2, NothingYet
<1>2. ASSUME NEW t \in DraftWorkers, NEW p \in Proposals, update_draft(t, p) PROVE DraftInv'
  <2> DEFINE q == [NoRequest EXCEPT !.pc = <<"update", 1>>, !.new = p]
  <2>0. <<"update", 1>> \in DraftPC
    BY DEF DraftPC
  <2>1. /\ q \in DraftRequest /\ q.pc = <<"update", 1>> /\ q.new = p
        /\ ~q.locks /\ ~q.gone /\ q.del = {} /\ q.ins = {}
    BY <2>0 DEF NoRequest, DraftRequest
  <2>2. Continues(t, q) /\ Quiet /\ \A u \in Others(t) : Kind(drafting[u]) # "create"
    BY <1>2, <1>c DEF update_draft, Others
  <2> HIDE DEF q
  <2> QED
    BY <2>1, <2>2, NothingYet
<1>3. ASSUME NEW t \in DraftWorkers, delete_all_my_drafts(t) PROVE DraftInv'
  <2> DEFINE q == [NoRequest EXCEPT !.pc = <<"delete", 1>>]
  <2>0. <<"delete", 1>> \in DraftPC
    BY DEF DraftPC
  <2>1. /\ q \in DraftRequest /\ q.pc = <<"delete", 1>>
        /\ ~q.locks /\ ~q.gone /\ q.del = {} /\ q.ins = {}
    BY <2>0 DEF NoRequest, DraftRequest
  <2>k. Kind(q) = "delete"
    BY <2>1 DEF Kind
  <2>2. Continues(t, q) /\ Quiet
    BY <1>3 DEF delete_all_my_drafts
  <2> HIDE DEF q
  <2> QED
    BY <2>1, <2>2, <2>k, NothingYet
<1>4. ASSUME NEW t \in DraftWorkers, confirm_draft(t) PROVE DraftInv'
  <2> DEFINE q == [NoRequest EXCEPT !.pc = <<"lines", 0>>]
  <2>0. <<"lines", 0>> \in DraftPC
    BY DEF DraftPC
  <2>1. /\ q \in DraftRequest /\ q.pc = <<"lines", 0>>
        /\ ~q.locks /\ ~q.gone /\ q.del = {} /\ q.ins = {}
    BY <2>0 DEF NoRequest, DraftRequest
  <2>k. Kind(q) = "lines"
    BY <2>1 DEF Kind
  <2>2. Continues(t, q) /\ Quiet /\ \A u \in Others(t) : Kind(drafting[u]) # "create"
    BY <1>4, <1>c DEF confirm_draft, Others
  <2> HIDE DEF q
  <2> QED
    BY <2>1, <2>2, <2>k, NothingYet
<1>5. ASSUME NEW t \in DraftWorkers, Kind(drafting[t]) \in {"lines", "rooms"}
      PROVE  /\ ~drafting[t].locks /\ ~drafting[t].gone /\ drafting[t].del = {} /\ drafting[t].ins = {}
             /\ \A u \in Others(t) : Kind(drafting[u]) # "create"
  <2>1. Knows(drafting[t]) /\ \A u \in Others(t) : Apart(drafting[u], drafting[t])
    BY DEF DraftInv, Others
  <2> QED
    BY <1>5, <2>1 DEF Knows, Apart, Kind
<1>6. ASSUME NEW t \in DraftWorkers, get_detail(t) PROVE DraftInv'
  <2> DEFINE q == [[drafting[t] EXCEPT !.pc = <<"rooms", 0>>] EXCEPT !.snap = lines]
  <2>0. <<"rooms", 0>> \in DraftPC
    BY DEF DraftPC
  <2>1. /\ q \in DraftRequest /\ q.pc = <<"rooms", 0>> /\ q.locks = drafting[t].locks
        /\ q.gone = drafting[t].gone /\ q.del = drafting[t].del /\ q.ins = drafting[t].ins
    BY <1>0, <2>0 DEF DraftTyped, DraftRequest
  <2>k. Kind(q) = "rooms"
    BY <2>1 DEF Kind
  <2>2. Continues(t, q) /\ Quiet /\ Kind(drafting[t]) = "lines"
    BY <1>6 DEF get_detail, Kind
  <2> HIDE DEF q
  <2> QED
    BY <1>5, <2>1, <2>2, <2>k, NothingYet
<1>7. ASSUME NEW t \in DraftWorkers, create_series(t) PROVE DraftInv'
  <2> DEFINE q == [[[drafting[t] EXCEPT !.pc = <<"confirm", 1>>] EXCEPT !.made = drafting[t].snap] EXCEPT !.snap = {}]
  <2>0. <<"confirm", 1>> \in DraftPC
    BY DEF DraftPC
  <2>1. /\ q \in DraftRequest /\ q.pc = <<"confirm", 1>> /\ q.locks = drafting[t].locks
        /\ q.gone = drafting[t].gone /\ q.del = drafting[t].del /\ q.ins = drafting[t].ins
    BY <1>0, <2>0 DEF DraftTyped, DraftRequest
  <2>k. Kind(q) = "confirm"
    BY <2>1 DEF Kind
  <2>2. Continues(t, q) /\ Quiet /\ Kind(drafting[t]) = "rooms"
    BY <1>7 DEF create_series, Kind
  <2> HIDE DEF q
  <2> QED
    BY <1>5, <2>1, <2>2, <2>k, NothingYet
<1>8. ASSUME NEW t \in DraftWorkers, rollback_draft(t) PROVE DraftInv'
  <2>1. Kind(NoRequest) = "idle"
    BY NothingHeld DEF Kind
  <2> QED
    BY <1>8, <2>1, NothingHeld, NothingYet DEF rollback_draft
<1>9. CASE UNCHANGED draftVars
  BY <1>9 DEF draftVars, DraftInv, DraftTyped, DraftIsOneProposal, Knows, Apart, Kind, Stmt
<1> QED
  BY <1>1, <1>2, <1>3, <1>4, <1>6, <1>7, <1>8, <1>9, HeaderStep, SnapshotStep, DeleteStep, InsertStep, DropStep,
     CommitStep DEF DraftNext

\* Concurrent updates, deletions and confirmations of one Draft never mix: a
\* stored Draft is the header and the lines of one request, and one that is
\* gone leaves no line.  update_draft, delete_draft, confirm_draft.
THEOREM DraftsStayWhole == DraftSpec => []DraftIsOneProposal
<1>1. DraftInit => DraftInv
  <2> SUFFICES ASSUME DraftInit PROVE DraftInv
    OBVIOUS
  <2>1. \A t \in DraftWorkers : drafting[t] = NoRequest
    BY DEF DraftInit
  <2>2. DraftTyped /\ DraftIsOneProposal
    BY NothingHeld DEF DraftInit, DraftTyped, DraftIsOneProposal
  <2>3. Knows(NoRequest) /\ Apart(NoRequest, NoRequest)
    BY NothingHeld DEF Knows, Apart, Kind, Stmt
  <2> QED
    BY <2>1, <2>2, <2>3 DEF DraftInv
<1>2. DraftInv => DraftIsOneProposal
  BY DEF DraftInv
<1> QED
  BY <1>1, <1>2, NextDraft, PTL DEF DraftSpec

-----------------------------------------------------------------------------
(* The bootstrap catalogue.                                                *)

HoldRow == [value : Nat, active : BOOLEAN, deleted : BOOLEAN, built_in : BOOLEAN]
SeededCodes == leaf_resources \X seed_verbs

\* The settings have their types, and hours in force are not zero.
HoldTyped ==
  /\ holdDays \in HoldRow /\ holdHours \in HoldRow
  /\ holdHours.active => holdHours.value # 0

\* A seeded code whose row and resource are there, active and shown, is granted
\* unless excluded.  Soft deletion is beside the point: it undoes none of this.
Opened(code) ==
  /\ code \in permCodes /\ code \notin inactiveCodes
  /\ code[1] \in resourceCodes /\ (code[1] \in hiddenResources => code[1] \in hidden_resources)
  /\ code[1] \in excluded_prefixes \/ code \in grantedCodes

CatalogInv == HoldTyped /\ (asSeeded => \A code \in SeededCodes : Opened(code))

\* Every leaf resource has two parts.
LEMMA LeavesHaveTwoParts == \A code \in leaf_resources : Len(code) > 1
<1> SUFFICES ASSUME NEW code \in leaf_resources PROVE Len(code) = 2
    OBVIOUS
<1>1. \E x, y : code = <<x, y>>
    BY DEF leaf_resources
<1> QED
    BY <1>1

\* A seeded code is of a leaf resource.
LEMMA SeededResource == \A code \in SeededCodes : code[1] \in leaf_resources
BY DEF SeededCodes

\* A step that leaves settings, roles and permissions alone.
LEMMA RowsKeep ==
  ASSUME CatalogInv, UNCHANGED <<rbacRows, holdRows>>
  PROVE  CatalogInv'
BY DEF CatalogInv, HoldTyped, Opened, rbacRows, resourceRows, permRows, roleRows, holdRows, SeededCodes

\* A step after which the catalogue is not as seeded.
LEMMA EditKeeps ==
  ASSUME CatalogInv, UNCHANGED holdRows, asSeeded' = FALSE
  PROVE  CatalogInv'
BY DEF CatalogInv, HoldTyped, holdRows

\* A step that switches nothing off, hides, withdraws and purges nothing.
LEMMA OpeningKeeps ==
  ASSUME CatalogInv, UNCHANGED holdRows, asSeeded' => asSeeded,
         permCodes \subseteq permCodes', inactiveCodes' \subseteq inactiveCodes,
         resourceCodes \subseteq resourceCodes', hiddenResources' \subseteq hiddenResources,
         grantedCodes \subseteq grantedCodes'
  PROVE  CatalogInv'
<1>1. HoldTyped'
  BY DEF CatalogInv, HoldTyped, holdRows
<1>2. ASSUME NEW code \in SeededCodes, Opened(code) PROVE Opened(code)'
  BY <1>2 DEF Opened
<1> QED
  BY <1>1, <1>2 DEF CatalogInv, SeededCodes

\* A seed of the roles over permissions and resources that include the seeded ones.
LEMMA SeedKeeps ==
  ASSUME CatalogInv, UNCHANGED holdRows, seed_roles,
         SeededCodes \subseteq permCodes' \ inactiveCodes', leaf_resources \subseteq resourceCodes',
         leaf_resources \cap hiddenResources' \subseteq hidden_resources
  PROVE  CatalogInv'
<1>1. HoldTyped'
  BY DEF CatalogInv, HoldTyped, holdRows
<1>2. ASSUME NEW code \in SeededCodes PROVE Opened(code)'
  <2>1. code[1] \in leaf_resources
    BY SeededResource
  <2> QED
    BY <2>1 DEF Opened, seed_roles
<1> QED
  BY <1>1, <1>2 DEF CatalogInv, SeededCodes

\* What every step does to the settings, given that it keeps them: RunStep's
\* steps but one, and the edits, leave them alone.
LEMMA NextCatalog ==
  ASSUME CatalogAssumption, CatalogInv, [CatalogNext]_catalogVars
  PROVE  CatalogInv'
<1>1. CASE run_rbac_seed
  <2> DEFINE codes == {code \in resourceCodes' : Len(code) > 1} \X seed_verbs
  <2>0. /\ leaf_resources \subseteq resourceCodes'
        /\ leaf_resources \cap hiddenResources' \subseteq hidden_resources
      BY <1>1 DEF run_rbac_seed, upsert_resources
  <2>1. SeededCodes \subseteq codes
      BY <2>0, LeavesHaveTwoParts DEF SeededCodes
  <2>2. permCodes' = permCodes \cup codes /\ inactiveCodes' = inactiveCodes \ codes
      BY <1>1 DEF run_rbac_seed, upsert_permissions
  <2>3. SeededCodes \subseteq permCodes' \ inactiveCodes'
      BY <2>1, <2>2
  <2> QED
      BY <1>1, <2>0, <2>3, SeedKeeps DEF run_rbac_seed
<1>2. CASE run_rbac_reset
    BY <1>2, SeedKeeps DEF run_rbac_reset, SeededCodes
<1>3. CASE run_setting_seed
  <2>1. holdHours' = holdHours /\ UNCHANGED rbacRows
      BY <1>3 DEF run_setting_seed
  <2>2. holdDays' \in HoldRow
    <3>1. CASE holdDays # NoHold
        BY <1>3, <3>1 DEF run_setting_seed, CatalogInv, HoldTyped
    <3>2. CASE holdDays = NoHold
      <4>1. _legacy_hold_hours_conversion \subseteq Nat
          BY DEF _legacy_hold_hours_conversion, seeded_hold_days, CatalogInv, HoldTyped, HoldRow
      <4>2. NoHold \in HoldRow
          BY DEF NoHold, HoldRow
      <4>3. \/ holdDays' = NoHold
            \/ \E d \in _legacy_hold_hours_conversion :
                 holdDays' = [value |-> d, active |-> TRUE, deleted |-> FALSE, built_in |-> TRUE]
          BY <1>3, <3>2 DEF run_setting_seed
      <4>4. \A d \in Nat : [value |-> d, active |-> TRUE, deleted |-> FALSE, built_in |-> TRUE] \in HoldRow
          BY DEF HoldRow
      <4> QED
          BY <4>1, <4>2, <4>3, <4>4
    <3> QED
        BY <3>1, <3>2
  <2> QED
      BY <2>1, <2>2 DEF CatalogInv, HoldTyped, Opened, rbacRows, resourceRows, permRows, roleRows, SeededCodes
<1>4. ASSUME NEW d \in HoldChoices, NEW active \in BOOLEAN, save_hold_days(d, active) PROVE CatalogInv'
  <2>1. holdHours' = holdHours /\ UNCHANGED rbacRows
      BY <1>4 DEF save_hold_days, HoldKept
  <2>2. holdDays' = [holdDays EXCEPT !.value = d, !.active = active] /\ d \in Nat
      BY <1>4 DEF save_hold_days, CatalogAssumption
  <2>3. holdDays' \in HoldRow
      BY <2>2 DEF CatalogInv, HoldTyped, HoldRow
  <2> QED
      BY <2>1, <2>3 DEF CatalogInv, HoldTyped, Opened, rbacRows, resourceRows, permRows, roleRows, SeededCodes
<1>5. CASE delete_hold_days
  <2>1. holdHours' = holdHours /\ UNCHANGED rbacRows
      BY <1>5 DEF delete_hold_days, HoldKept
  <2>2. holdDays' \in HoldRow
      BY <1>5 DEF delete_hold_days, CatalogInv, HoldTyped, HoldRow
  <2> QED
      BY <2>1, <2>2 DEF CatalogInv, HoldTyped, Opened, rbacRows, resourceRows, permRows, roleRows, SeededCodes
<1>6. ASSUME NEW gone \in BOOLEAN, retire_hold_hours(gone) PROVE CatalogInv'
  <2>1. holdDays' = holdDays /\ UNCHANGED rbacRows
      BY <1>6 DEF retire_hold_hours, HoldKept
  <2>2. holdHours' \in HoldRow /\ (holdHours'.active => holdHours'.value # 0)
      BY <1>6 DEF retire_hold_hours, CatalogInv, HoldTyped, HoldRow
  <2> QED
      BY <2>1, <2>2 DEF CatalogInv, HoldTyped, Opened, rbacRows, resourceRows, permRows, roleRows, SeededCodes
<1>7. CASE \/ delete_permission_permanently \/ assign_role_permissions
           \/ \E resource \in EditedResources : delete_resource_permanently(resource)
    BY <1>7, EditKeeps DEF delete_permission_permanently, assign_role_permissions, delete_resource_permanently, Purge, RbacKept
<1>8. CASE \/ delete_permission \/ restore_permission \/ create_role_and_bind \/ create_resource
           \/ \E resource \in EditedResources : delete_resource(resource) \/ restore_resource(resource)
    BY <1>8, OpeningKeeps DEF delete_permission, restore_permission, create_role_and_bind, create_resource, delete_resource,
       restore_resource, resourceRows, permRows, roleRows, RbacKept
<1>9. ASSUME NEW active \in BOOLEAN, update_permission(active) PROVE CatalogInv'
  <2>1. CASE active
      BY <1>9, <2>1, OpeningKeeps DEF update_permission, resourceRows, roleRows, RbacKept
  <2>2. CASE ~active
      BY <1>9, <2>2, EditKeeps DEF update_permission, RbacKept
  <2> QED
      BY <2>1, <2>2
<1>10. ASSUME NEW resource \in EditedResources, NEW visible \in BOOLEAN, update_resource(resource, visible) PROVE CatalogInv'
  <2>1. CASE visible
      BY <1>10, <2>1, OpeningKeeps DEF update_resource, permRows, roleRows, RbacKept
  <2>2. CASE ~visible
      BY <1>10, <2>2, EditKeeps DEF update_resource, RbacKept
  <2> QED
      BY <2>1, <2>2
<1>11. CASE \/ init_locales \/ run_position_seed \/ run_position_assignment_seed
           \/ \E group \in {"audiences", "ministry_types"} : run_catalog_seed(group)
           \/ clear_facility_rental_catalog \/ run_facility_rental_seed \/ run_legal_document_seed
           \/ run_superuser_seed
    BY <1>11, RowsKeep DEF init_locales, run_position_seed, run_position_assignment_seed, run_catalog_seed,
       clear_facility_rental_catalog, run_facility_rental_seed, run_legal_document_seed, run_superuser_seed
<1>12. CASE \/ \E name \in DOMAIN Command : Start(name)
            \/ FailFast \/ delete_position \/ member_books \/ UNCHANGED catalogVars
    BY <1>12, RowsKeep DEF Start, FailFast, delete_position, member_books, catalogVars
<1> QED
    BY <1>1, <1>2, <1>3, <1>4, <1>5, <1>6, <1>7, <1>8, <1>9, <1>10, <1>11, <1>12 DEF CatalogNext, RunStep

\* An empty environment, perhaps with the legacy setting.
LEMMA InitCatalog == ASSUME CatalogAssumption, CatalogInit PROVE CatalogInv
<1>1. NoHold \in HoldRow /\ ~NoHold.active
    BY DEF NoHold, HoldRow
<1>2. \A h \in LegacyHours : LET r == [NoHold EXCEPT !.value = h, !.active = TRUE] IN r \in HoldRow /\ r.value # 0
    BY DEF NoHold, HoldRow, CatalogAssumption
<1>3. holdHours \in HoldRow /\ (holdHours.active => holdHours.value # 0)
    BY <1>1, <1>2 DEF CatalogInit
<1>4. holdDays \in HoldRow /\ asSeeded = FALSE
    BY <1>1 DEF CatalogInit
<1> QED
    BY <1>3, <1>4 DEF CatalogInv, HoldTyped

\* However permissions and resources were switched off, hidden, purged or withdrawn
\* before it, a seed of the roles gives an administrator what the routers ask for,
\* for that is what the seed data has and upserts; but for the excluded resources,
\* the hidden ones and what is soft-deleted.
THEOREM SeedOpensRoutes == CatalogSpec => []RoutesAreGrantable
<1>1. CatalogInit => CatalogInv
    BY CatalogAssumption, InitCatalog
<1>2. CatalogInv => RoutesAreGrantable
  <2>1. RequiredCodes \subseteq SeededCodes
      BY RoutersAssumption DEF SeededCodes
  <2> QED
      BY <2>1 DEF CatalogInv, Opened, RoutesAreGrantable, list_user_role_permissions
<1>3. CatalogInv /\ [CatalogNext]_catalogVars => CatalogInv'
    BY CatalogAssumption, NextCatalog
<1> QED
    BY <1>1, <1>2, <1>3, PTL DEF CatalogSpec

\* No seed changes a payment hold in force or brings back retired hours: the
\* days take over the hours exactly when the hours still decide.
THEOREM SeedKeepsHold == CatalogSpec => SeedKeepsHoldInForce
<1> DEFINE Keeps == HoldInForce' = HoldInForce \/ (HoldInForce = {} /\ HoldInForce' = {seeded_hold_days})
<1>1. CatalogInit => CatalogInv
    BY CatalogAssumption, InitCatalog
<1>2. CatalogInv /\ [CatalogNext]_catalogVars => CatalogInv'
    BY CatalogAssumption, NextCatalog
<1>3. ASSUME UNCHANGED holdRows PROVE Keeps
    BY <1>3 DEF HoldInForce, holdRows
<1>4. ASSUME CatalogInv, RunStep PROVE Keeps
  <2>1. CASE run_setting_seed
    <3>1. CASE holdDays # NoHold
        BY <1>3, <2>1, <3>1 DEF run_setting_seed, holdRows
    <3>2. CASE holdDays = NoHold /\ _legacy_hold_hours_conversion = {}
      <4>1. UNCHANGED holdRows
          BY <2>1, <3>2 DEF run_setting_seed, holdRows
      <4> QED
          BY <1>3, <4>1
    <3>3. CASE holdDays = NoHold /\ _legacy_hold_hours_conversion # {}
      <4>1. PICK d \in _legacy_hold_hours_conversion :
              holdDays' = [value |-> d, active |-> TRUE, deleted |-> FALSE, built_in |-> TRUE]
          BY <2>1, <3>3 DEF run_setting_seed
      <4>2. HoldInForce' = {d}
          BY <4>1 DEF HoldInForce
      <4>3. HoldInForce =
              IF holdHours.active /\ ~holdHours.deleted /\ holdHours.value % 24 = 0 THEN {holdHours.value \div 24} ELSE {}
          BY <3>3 DEF HoldInForce, NoHold
      <4>4. CASE holdHours.value = 0 \/ holdHours.deleted \/ ~holdHours.active
        <5>1. d = seeded_hold_days /\ HoldInForce = {}
            BY <1>4, <4>1, <4>3, <4>4 DEF _legacy_hold_hours_conversion, CatalogInv, HoldTyped
        <5> QED
            BY <4>2, <5>1
      <4>5. CASE ~(holdHours.value = 0 \/ holdHours.deleted \/ ~holdHours.active)
        <5>1. holdHours.value % 24 = 0 /\ d = holdHours.value \div 24
            BY <4>1, <4>5 DEF _legacy_hold_hours_conversion
        <5> QED
            BY <4>2, <4>3, <4>5, <5>1
      <4> QED
          BY <4>4, <4>5
    <3> QED
        BY <3>1, <3>2, <3>3
  <2>2. CASE ~run_setting_seed
    <3>1. UNCHANGED holdRows
        BY <1>4, <2>2 DEF RunStep, init_locales, run_rbac_seed, run_rbac_reset, run_position_seed,
           run_position_assignment_seed, run_catalog_seed, clear_facility_rental_catalog,
           run_facility_rental_seed, run_legal_document_seed, run_superuser_seed
    <3> QED
        BY <1>3, <3>1
  <2> QED
      BY <2>1, <2>2
<1>5. CatalogInv => [RunStep => Keeps]_catalogVars
    BY <1>4
<1> QED
    BY <1>1, <1>2, <1>5, PTL DEF CatalogSpec, SeedKeepsHoldInForce
=============================================================================
