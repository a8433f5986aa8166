-------------------------------- MODULE MockData --------------------------------
(***************************************************************************)
(* The Mock QA data of an environment (application/cli): seed-mock-users   *)
(* commits a generation of random Testing accounts and Ministries, then    *)
(* writes its CSV inventory; seed-mock-data reads that inventory, finds a  *)
(* place for the fixture suite and commits it; remove-mock-data deletes    *)
(* everything.  One operator runs one command at a time, and a command may *)
(* fail or die between any two of its steps; the portal goes on meanwhile.  *)
(*                                                                         *)
(* Files are named after the minute, Ministries too; the accounts' emails  *)
(* are random.  Days are counted from the day of the seed.                 *)
(***************************************************************************)
EXTENDS Integers, Sequences, FiniteSets

CONSTANTS Generations,  \* bound: runs of seed-mock-users, 1..n
          Minutes,      \* bound: minutes the clock shows, 1..n
          Personas,     \* REQUIRED_PERSONAS
          Window,       \* BOOKING_PLACEMENT_WINDOW_DAYS
          RealRows,     \* intervals that real Bookings and Blackouts may take
          NoCsv         \* there is no such file

ASSUME PersonasAssumption == Personas # {}

VARIABLES
  snapshot,   \* committed Mock accounts and Ministries: [generation, minute], or Nothing
  outsider,   \* a real person has a row in one of the Mock Ministries
  accounts,   \* the *_test_account.csv files: minute -> the emails it lists
  ministryCsv,\* the *_ministry.csv files: minute -> the Ministries it lists
  suites,     \* committed fixture suites, in their order: the days, the accounts that book, their
              \* Ministries and (history) the real rows committed since the command read them
  taken,      \* days and rooms real Bookings and Blackouts take
  incumbent,  \* who holds the first owning Position: "real", "mock" or "none"
  minute, generation, \* the clock; the last generation that was committed
  command     \* the running command, its progress and what it holds

mockVars == <<snapshot, outsider, accounts, ministryCsv, suites, taken, incumbent, minute, generation, command>>

Nothing == [generation |-> 0, minute |-> 0]
NoCommand == [name |-> "none", step |-> 0, bookers |-> {}, ministries |-> {}, seen |-> {}, day |-> <<>>,
              missed |-> {}]

AtCommand(name, step) == command.name = name /\ command.step = step
Step == command' = [command EXCEPT !.step = @ + 1]
Finish == command' = NoCommand

-----------------------------------------------------------------------------
(* seed-mock-users.                                                        *)

\* An account is its email, which carries a random token; no two generations
\* share one.
generate_mock_user_personas(g) == {<<g, persona>> : persona \in Personas}

\* The Mock accounts in the database.
Registered == IF snapshot = Nothing THEN {} ELSE generate_mock_user_personas(snapshot.generation)

\* _require_no_active_snapshot
StartSeedUsers ==
  /\ command = NoCommand
  /\ snapshot = Nothing
  /\ generation + 1 \in Generations
  /\ command' = [NoCommand EXCEPT !.name = "users", !.step = 1]
  /\ UNCHANGED <<snapshot, outsider, accounts, ministryCsv, suites, taken, incumbent, minute, generation>>

\* Accounts, Ministries, members and schedules, in one transaction.
CommitSnapshot ==
  /\ AtCommand("users", 1)
  /\ generation' = generation + 1
  /\ snapshot' = [generation |-> generation + 1, minute |-> minute]
  /\ Step
  /\ UNCHANGED <<outsider, accounts, ministryCsv, suites, taken, incumbent, minute>>

\* A file of this minute exists: MockSeedArchiveCollisionError.
Collision ==
  /\ AtCommand("users", 2)
  /\ accounts[snapshot.minute] # NoCsv \/ ministryCsv[snapshot.minute] # NoCsv
  /\ Finish
  /\ UNCHANGED <<snapshot, outsider, accounts, ministryCsv, suites, taken, incumbent, minute, generation>>

\* A command that dies while it writes leaves some of the rows.
write_account_csv(emails) ==
  /\ AtCommand("users", 2)
  /\ accounts[snapshot.minute] = NoCsv /\ ministryCsv[snapshot.minute] = NoCsv
  /\ accounts' = [accounts EXCEPT ![snapshot.minute] = emails]
  /\ IF emails = Registered THEN Step ELSE Finish
  /\ UNCHANGED <<snapshot, outsider, ministryCsv, suites, taken, incumbent, minute, generation>>

write_ministry_csv(names) ==
  /\ AtCommand("users", 3)
  /\ ministryCsv' = [ministryCsv EXCEPT ![snapshot.minute] = names]
  /\ IF names # {} THEN Step ELSE Finish
  /\ UNCHANGED <<snapshot, outsider, accounts, suites, taken, incumbent, minute, generation>>

Previous(files) == {m \in Minutes : m # snapshot.minute /\ files[m] # NoCsv}

\* One unlink after the other, the account files first; then the upload to
\* SharePoint, whose failure changes nothing here.
remove_previous_archive_pair ==
  /\ AtCommand("users", 4)
  /\ \/ /\ \E m \in Previous(accounts) : accounts' = [accounts EXCEPT ![m] = NoCsv]
        /\ UNCHANGED <<ministryCsv, command>>
     \/ /\ Previous(accounts) = {}
        /\ \E m \in Previous(ministryCsv) : ministryCsv' = [ministryCsv EXCEPT ![m] = NoCsv]
        /\ UNCHANGED <<accounts, command>>
     \/ /\ Previous(accounts) = {} /\ Previous(ministryCsv) = {}
        /\ Finish
        /\ UNCHANGED <<accounts, ministryCsv>>
  /\ UNCHANGED <<snapshot, outsider, suites, taken, incumbent, minute, generation>>

-----------------------------------------------------------------------------
(* Placement of the fixture suite.  An interval is a day, a room and hours; *)
(* hours are whole, the end of 23:59 counted as 24.                        *)

MOCK_ROOMS == {"sanctuary-hall", "gym", "lobby", "lounge", "classroom"}

Interval(day, room, start, end) == [day |-> day, room |-> room, start |-> start, end |-> end]

\* The scenarios that share a room or an hour; the others have theirs alone.
build_mock_booking_plans ==
  << [rooms |-> {"lounge"}, start |-> 14, end |-> 15],
     [rooms |-> {"gym"}, start |-> 18, end |-> 19],
     [rooms |-> {"lobby"}, start |-> 18, end |-> 19],
     [rooms |-> {"gym", "lobby"}, start |-> 17, end |-> 18] >>

CAMPUS_BLACKOUT == [rooms |-> MOCK_ROOMS, start |-> 0, end |-> 24]
ROOM_BLACKOUT == [rooms |-> {"sanctuary-hall"}, start |-> 13, end |-> 17]

Fixtures == <<CAMPUS_BLACKOUT, ROOM_BLACKOUT>> \o build_mock_booking_plans

\* Rows that one fixture takes on a day, and a suite on its days.
RowsOn(plan, day) == {Interval(day, room, plan.start, plan.end) : room \in plan.rooms}
SuiteRows(days) == UNION {RowsOn(Fixtures[i], days[i]) : i \in DOMAIN days}

_intervals_overlap(k, l) == k.day = l.day /\ k.room = l.room /\ k.start < l.end /\ l.start < k.end

_interval_is_free(plan, day, rows) == \A k \in RowsOn(plan, day), l \in rows : ~_intervals_overlap(k, l)

\* The days of the window on which a fixture may be placed.
FreeDays(plan, rows, excluded) == {d \in 1..Window \ excluded : _interval_is_free(plan, d, rows)}

-----------------------------------------------------------------------------
(* seed-mock-data.                                                         *)

MinutesOf(csv) == {m \in Minutes : csv[m] # NoCsv}

\* find_local_archive_pair and _read_inventory: exactly one pair, of one
\* minute, with every persona and every Ministry.
Inventory(m) ==
  /\ MinutesOf(accounts) = {m} /\ MinutesOf(ministryCsv) = {m}
  /\ \A persona \in Personas : \E email \in accounts[m] : email[2] = persona
  /\ ministryCsv[m] # {}

\* _resolve_user_id for every account, _resolve_ministry_id by name.
Resolved(m) == accounts[m] \subseteq Registered /\ ministryCsv[m] \subseteq {snapshot.minute}

StartSeedData ==
  /\ command = NoCommand
  /\ \E m \in Minutes :
       /\ Inventory(m) /\ Resolved(m)
       /\ command' = [NoCommand EXCEPT !.name = "data", !.step = 1, !.bookers = accounts[m],
                                            !.ministries = ministryCsv[m]]
  /\ UNCHANGED <<snapshot, outsider, accounts, ministryCsv, suites, taken, incumbent, minute, generation>>

\* The rows that occupy rooms: real ones and those of earlier suites.
Occupying == taken \cup UNION {SuiteRows(suites[i].day) : i \in DOMAIN suites}

\* The confirmed slots and the Blackouts.  Others that come are not looked for again.
_load_occupancy ==
  /\ AtCommand("data", 1)
  /\ command' = [command EXCEPT !.step = 2, !.seen = Occupying]
  /\ UNCHANGED <<snapshot, outsider, accounts, ministryCsv, suites, taken, incumbent, minute, generation>>

\* Mutant: what is placed is not appended to the occupancy.
OccupiedForgotten == command.seen

\* What a fixture must not overlap: the rows read and the fixtures placed before it.
Occupied == command.seen \cup SuiteRows(command.day)

\* The campus Blackout, the room's on another day, then every plan in turn, each
\* on the first free day; a fixture without one fails the command before any write.
PlaceFixture ==
  LET i == Len(command.day) + 1
      free == FreeDays(Fixtures[i], Occupied, IF i = 2 THEN {command.day[1]} ELSE {})
  IN  /\ AtCommand("data", 2) /\ i <= Len(Fixtures)
      /\ \/ free = {} /\ Finish
         \/ \E day \in free : (\A d \in free : day <= d) /\ command' = [command EXCEPT !.day = Append(@, day)]
      /\ UNCHANGED <<snapshot, outsider, accounts, ministryCsv, suites, taken, incumbent, minute, generation>>

\* Templates, Blackouts, Bookings, the Owner's assignment, which ends that of
\* the Position's incumbent, and the Ministry Application, in one transaction;
\* without the locks of the rooms.
CommitSuite ==
  /\ AtCommand("data", 2) /\ Len(command.day) = Len(Fixtures)
  /\ suites' = Append(suites, [day |-> command.day, bookers |-> command.bookers,
                              ministries |-> command.ministries, missed |-> command.missed])
  /\ incumbent' = "mock"
  /\ Finish
  /\ UNCHANGED <<snapshot, outsider, accounts, ministryCsv, taken, minute, generation>>

-----------------------------------------------------------------------------
(* remove-mock-data.                                                       *)

\* _candidate_ministry_ids and the dependency check: a Mock Ministry with a
\* row of a real person fails the command and nothing is deleted.
StartRemove ==
  /\ command = NoCommand
  /\ snapshot # Nothing \/ suites # <<>>
  /\ ~outsider
  /\ command' = [NoCommand EXCEPT !.name = "remove", !.step = 1]
  /\ UNCHANGED <<snapshot, outsider, accounts, ministryCsv, suites, taken, incumbent, minute, generation>>

\* The deletes, cascades included, in one transaction; rows that were attached
\* to a Mock Ministry since the check go with it.  The files stay.
CommitRemove ==
  /\ AtCommand("remove", 1)
  /\ snapshot' = Nothing /\ suites' = <<>> /\ outsider' = FALSE
  /\ incumbent' = IF incumbent = "real" THEN "real" ELSE "none"
  /\ Finish
  /\ UNCHANGED <<accounts, ministryCsv, taken, minute, generation>>

-----------------------------------------------------------------------------
\* The command dies; its transaction, if it has one open, is rolled back.
Die ==
  /\ command # NoCommand
  /\ Finish
  /\ UNCHANGED <<snapshot, outsider, accounts, ministryCsv, suites, taken, incumbent, minute, generation>>

\* A real person joins or books with a Mock Ministry, or withdraws again.
RealPerson ==
  /\ snapshot # Nothing
  /\ outsider' = ~outsider
  /\ UNCHANGED <<snapshot, accounts, ministryCsv, suites, taken, incumbent, minute, generation, command>>

\* A request confirms a Booking, which it does only where nothing stands in the
\* way, or saves a Blackout of hours nobody holds.
OthersTake(row) ==
  /\ \A l \in Occupying : ~_intervals_overlap(row, l)
  /\ taken' = taken \cup {row}
  /\ command' = IF AtCommand("data", 2) THEN [command EXCEPT !.missed = @ \cup {row}] ELSE command
  /\ UNCHANGED <<snapshot, outsider, accounts, ministryCsv, suites, incumbent, minute, generation>>

MinutePasses ==
  /\ minute + 1 \in Minutes
  /\ minute' = minute + 1
  /\ UNCHANGED <<snapshot, outsider, accounts, ministryCsv, suites, taken, incumbent, generation, command>>

MockInit ==
  /\ snapshot = Nothing /\ outsider = FALSE /\ suites = <<>> /\ taken = {} /\ incumbent = "real"
  /\ accounts = [m \in Minutes |-> NoCsv] /\ ministryCsv = [m \in Minutes |-> NoCsv]
  /\ minute = 1 /\ generation = 0 /\ command = NoCommand

MockNext ==
  \/ StartSeedUsers \/ CommitSnapshot \/ Collision
  \/ \E emails \in SUBSET Registered : write_account_csv(emails)
  \/ \E names \in SUBSET {snapshot.minute} : write_ministry_csv(names)
  \/ remove_previous_archive_pair
  \/ StartSeedData \/ _load_occupancy \/ PlaceFixture \/ CommitSuite
  \/ StartRemove \/ CommitRemove
  \/ Die \/ RealPerson \/ MinutePasses
  \/ \E row \in RealRows : OthersTake(row)

MockSpec == MockInit /\ [][MockNext]_mockVars

-----------------------------------------------------------------------------
(* Properties.                                                             *)

\* Every booker of a suite is an account in the database, one of each persona,
\* and there is a Ministry, one of theirs.
BookersAreThere ==
  \A i \in DOMAIN suites :
    /\ suites[i].bookers \subseteq Registered /\ suites[i].ministries = {snapshot.minute}
    /\ \A persona \in Personas : \E email \in suites[i].bookers : email[2] = persona

Clear(rows, others) == \A k \in rows, l \in others : ~_intervals_overlap(k, l)

\* No fixture overlaps another one, of its suite or of an earlier one, or a real
\* row but those committed while the suite was placed.
FixturesStandClear ==
  \A i \in DOMAIN suites :
    LET days == suites[i].day IN
    /\ \A f, g \in DOMAIN days : f # g => Clear(RowsOn(Fixtures[f], days[f]), RowsOn(Fixtures[g], days[g]))
    /\ \A j \in DOMAIN suites \ {i} : Clear(SuiteRows(days), SuiteRows(suites[j].day))
    /\ Clear(SuiteRows(days), taken \ suites[i].missed)

\* Whatever commands died on the way and whatever the portal did meanwhile, a
\* suite that is committed can be used: accounts and files of different
\* generations, or half a file, never make one, and its fixtures replace neither
\* each other nor existing occupancy, except a row that was committed after the
\* occupancy was read, as nothing is locked (seed_mock_data_service.py).
SuitesAreSound == BookersAreThere /\ FixturesStandClear
=============================================================================
