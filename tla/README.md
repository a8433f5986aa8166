# A TLA+ model of newlife-core-api

`newlife-core-api` is the backend of a church: a FastAPI application (admin,
member and public APIs) on PostgreSQL and Redis, with a blob store, a mailer and
a set of command line seeds. Its centre is the facility part: members, Ministry
stewards and Operators book the same rooms concurrently, some Bookings occupy a
room only until a payment deadline, some may push others out, and every worker
process runs a background sweep over the same rows. Around it stand sign-in and
access control, the Ministry workflow, settings, files, locales and Legal
Documents, each a small protocol between rows in PostgreSQL and things that take no
part in its transactions, and a schema history with its seeds.

This directory specifies these parts in TLA+, model-checks them with TLC and
proves with TLAPS all that the runs check but liveness. Words with a capital
(Booking, Series, Rental, Ministry, Booker, Draft) are those of `CONTEXT.md`.

## Inventory

Paths are under `portal/`; `facility/`, `org/` and so on under `portal/application/`.

| Component | State | Operations | Module |
| --- | --- | --- | --- |
| Booking creation (`facility/booking_service.py`, `recurring_booking_service.py`) | `booking`, `booking_slot`, `booking_series`; advisory room locks | `create_booking`, `create_series`, previews | `BookingCreate` |
| Priority Ministry override (`priority_override.py`, `one_time_override.py`) | override log, review tokens, after-commit mail | review, displacement, notification | `BookingCreate` |
| Series lifecycle (`recurring_booking_service.py`, `pending_payment_expiry_job.py`) | Series status and hold, sweep lock | confirm, cancel, expire | `SeriesLifecycle` |
| Blackouts (`room_blackout_service.py`) | Blackout rows | create, update, delete, restore, impact | `RoomBlackout` |
| Drafts (`booking_draft_service.py`, `recurring_series_draft_service.py`) | header and line rows | create, update, delete, confirm | `Drafts` |
| Calendar (`domain/facility/recurring.py`) | the clock | windows, openings, deadlines | `Calendar` |
| Timetable (`availability_service.py`, `timetable_projection.py`, `opening_hours.py`, `room_slot_template_service.py`) | slot templates, Blackouts, Bookings | template edits, the cells shown | `Timetable` |
| Pricing (`pricing_service.py`, `rental_rate*_service.py`, `discount_eligibility_service.py`) | rate templates, room rates | edits, quotes | `Pricing` |
| Session (`libs/database/aio_orm.py`, `middlewares/core_request.py`, `apps.py`) and event bus (`events/bus.py`) | transaction, callbacks, connections | execute, commit, rollback, close, handlers | `RequestSession` |
| Sign-in (`auth/`, `providers/`) | accounts, refresh tokens, Redis binding | logins, rotation, logout, revocation | `TokenFamilies` |
| Access control (`rbac/`, `libs/authorization/`) | roles, grants, permissions, resources, caches | edits, sign-in load, check | `AccessControl` |
| Routing (`routers/`, `middlewares/auth_middleware.py`) | the route tables | lookup of the configuration, dispatch | `Routes`, `Dispatch` |
| Ministries (`org/`) | Ministries, members, approvals, positions | apply, submit, decide, edit, assign | `Ministries` |
| Settings (`system/`) | a row and its Redis key | create, update, delete, restore, read | `SettingCache` |
| Files (`content/file_service.py`) | rows, blobs, signed urls, galleries | upload, batch, delete, link | `FileStore` |
| Locales (`locale/`, `infrastructure/cache/locale_cache.py`, `middlewares/core_request.py`) | rows, four Redis keys | snapshot, populate, match | `Locales` |
| Legal Documents (`content/legal_document_service.py`) | a document and its texts | create, edit, delete, restore | `LegalDocuments` |
| Schema (`alembic/`, `models/`) | tables, recorded version | every upgrade and downgrade | `OrmModels`, `Migrations` |
| Bootstrap (`cli/`, `application/cli/`) | catalogue rows | `init-all` and its seeds | `Catalog` |
| Mock data (`application/cli/`) | accounts, CSV archives, fixtures | seed users, seed data, remove | `MockData` |
| Mappers, serializers, containers, My Bookings, rooms, HTTP client | none, or single rows | copying, wiring | not modelled |

How they interact. The services of the facility part never call each other; they
meet in the tables. A create takes `pg_advisory_xact_lock` on each of its rooms and
keeps it to the end of its transaction; confirmation, cancellation, sweep and
Blackout take no room lock, read rows in one statement and rewrite them by id in
a later one, and wait for each other only on PostgreSQL's row locks. The same
pattern, read and decide and then write by id at READ COMMITTED, is that of
Ministries, roles, Drafts, files and Legal Documents. Redis and the blob store are
written inside a request and keep what was written when it rolls back. Every request
runs in one session, which the middleware commits after the answer; an exception
handler rolls it back first.

What is hard: check-then-write across statements, two locking disciplines on one
table, a deadline that three services compare with three clock readings, values
read before a lock wait and used after it, caches outside the transaction, mails
before and after a commit, a lock shared by all workers, and route, permission,
schema and seed tables that must agree without anything comparing them.
`PROJECT.json` lists these hazards at the lines where they bite.

## Modules

`PROJECT.json` maps every definition to the lines it models.

### The facility part

* `OccupancyTables`: the rows and the predicates on them, the clock
  (`Tick`) and the edits of a Ministry. A row is identified before it exists: a
  request owns the Booking ids it would insert, `"absent"` until then. What an
  insert fixes for good (room lines, Booker, Ministry) is therefore a constant,
  what later transactions rewrite is a variable. `ActiveOccupancy` is
  `_active_occupancy_clause`: confirmed, or pending with an active hold.
  `dirty[w]` holds the rows a multi-statement transaction has updated and not
  committed; `RowsFree` is the wait for them. `lapsed` is a history variable: the
  Series whose hold has run out at some time.
* `BookingCreate`: one create request is `Begin` (gates, preparation, the first
  lock statement, which opens the transaction and fixes the database's `now()`),
  `AcquireRoom` once per room in `lock_rooms`' order, `Accept` or `Reject`, `Commit`, and
  `Notify` for the after-commit callback. `Abort` is any failure. The two paths differ
  as in the code (`CreateView`): the One-time path reads clock and Ministry under the
  locks, the Series path before them.
* `SeriesLifecycle`: `ConfirmCheck`/`ConfirmCommit`, `CancelRead`/`CancelWrite`/`CancelCommit`,
  `CancelBooking`, and the sweep: `SweepBegin` (lock and list), `SweepRead` and
  `SweepWrite` per Series, `SweepCommit`. `SweepLosesWrites` is the case where a query of the
  mail service fails on the sweep's session: `Session._fetch` rolls back, the
  sweep swallows the exception and goes on.
* `RoomBlackout`: an Operator's request reads, writes (with `apply_blackout_impact`) and
  commits; deletion and restoration are single statements. What a Blackout closes is a
  Shape, a constant that says which Bookings it covers.
* `FacilityBooking`: the composition, its fairness and its properties. `RoomLedger` is the
  abstract specification: a set of held and a set of gone Bookings, where a
  request reserves and displaces in one atomic step.
* `Drafts`: the statements of each operation one by one, with the row locks they wait
  for; a proposal is a model value.
* `Calendar`: instants are hours, local time has daylight saving; periods, windows and
  deadlines are the code's functions.
* `Timetable`: a day of a few cells with slot templates, Blackouts and Bookings that start
  and end inside cells; what is shown against what a create accepts.
* `Pricing`: amounts in hundredths of a cent where the code multiplies, rounded where
  the code rounds.

### Requests and access

* `RequestSession`: a request, its transaction, its after-commit mail and its audit event.
* `Routes`, `Dispatch`: all routes of both applications in declaration order; the
  middleware's search and the framework's.
* `TokenFamilies`: a rotation is read, write, account check, binding check and
  commit; `raced` and `late` record rotations that overlapped another one or a revocation.
* `AccessControl`: an edit of a role's links is read and write, one of an account's roles
  is read, clearing of the key and commit, since `bind_roles` clears the cache before the session is
  committed; a sign-in fills the cache with one step per code and a last one for the
  expiry, and may die in between. What a sign-in lists has all the filters of
  `list_user_role_permissions`, the verb's included: `verbs` is the set of verbs an environment has
  switched on, which no operation changes. `listed` and `crossed` are histories: what sign-ins listed
  since the last rebinding of an account, and whether one crossed that rebinding. A code names a
  row, but a row deleted for good and created again is another row with another id: a
  deletion takes it out of the edits in flight (`Without`), and an edit that would insert a link to
  a row that is gone is `lost`, its transaction fails.
* `Ministries`: a request is read, for a member list the DELETE, and the write with
  its commit. A mail is what the last step sent.
* `SettingCache`, `FileStore`, `Locales`, `LegalDocuments`: one record each, with the cache or the
  store beside it, and several workers.

### Schema and commands

* `OrmModels`: the tables the ORM classes declare. `Migrations`: every revision as the
  statements it executes, `Script` one after the other, in one transaction per command
  (`alembic/env.py`); commands go up and down, over empty and filled tables, and fail.
* `Catalog`: `init-all` and its eight seeds, each a transaction, between edits of
  administrators, who switch off, hide, bin, restore and purge what was seeded (an edit that
  changes nothing is left out); it uses `Routes` for the codes the endpoints ask for.
* `MockData`: three commands over accounts, CSV files and fixtures, each of which may die
  between its steps. An account is its email, a file the emails or Ministries it lists, perhaps not
  all of them; `seed-mock-data` resolves them one for one, reads the occupancy once and
  places the fixtures one by one, while real Bookings and Blackouts go on being committed.

`MCCreateRace`, `MCSeriesLife`, `MCBlackout`, `MCTokens`, `MCAccess`, `MCMinistries` and `MCServices` are the
instances for TLC. `FacilityBookingProofs`, `LifecycleProofs`, `TokenProofs`, `AccessProofs`, `MinistryProofs`,
`ServiceProofs`, `OfferProofs` and `TableProofs` hold the theorems; no model depends on them.

Left out everywhere: titles, remarks, audit columns, mail text, tracing, paging.

## Runs

| Run | Instance | Checks |
| --- | --- | --- |
| `create_race` | a two-room Rental, a Priority Ministry's One-time Booking and its two-occurrence Series; clock 0..1; the Ministry is edited | `NoDoubleBooking`, `EvaluationHolds`, `OverrideMailIsTrue` |
| `series_life` | a Personal Series of two occurrences and a Rental that wants one; a confirmer, a canceller, a worker | `OccurrenceMatchesPayment`, `SweptOnlyAfterDeadline` |
| `override_life` | the same with a Priority Ministry instead of the Rental | `DisplacedStaysReleased`, `RefinesLedger` |
| `progress` | requests with two rooms in common, two workers, a confirmer, under fairness | `RequestsFinish`, `ExpiredHoldIsSwept` |
| `blackout_life` | a Personal Series of two occurrences, a Blackout that covers the second or both; a confirmer, a canceller, an Operator | `CancelledSeriesIsReleased` |
| `token_families` | one account, one family, three tokens, two requests, two web apps | `OneLiveTokenPerFamily`, `RevocationReachesFamily`, `ReplacedTokenHasHolder`, `ReuseIsRevoked`, `AccessTokenKeepsApp` |
| `access_control` | one administrator, one role, two codes, two requests in flight, two edits; an environment with all verbs and one with a verb switched off | `AdmittedOnHeldCode`, `EditIsExact`, `RebindingTakesEffect`, `WithdrawnLeavesCache` |
| `ministries` | one Ministry, one position, four people, two requests, two submissions | `StewardsNeverMissing`, `RequestHasApprover`, `DecidedRequestIsFinal`, `DecisionMailReachesApplicant` |
| `services` | thirteen components that share no state, each explored while the others rest | see below |

`services` checks, component by component: settings, two workers and two values,
`CacheHoldsACommittedValue`; files, two files and two requests, `StoreAndTableAgree`; session,
three requests on two connections, `MailFollowsCommit`, `ErrorChangesNothing`; calendar, every
hour from the end of May 2026 to the end of March 2027 in Toronto, `HoldLastsAsPromised`,
`OpeningIsAnnounced`; timetable, two rooms, three templates, two closings, four cells,
`OfferedIsBookable`; pricing, amounts whose products need rounding, `QuotesAreSound`; dispatch,
one request for every route, `OwnEndpointOwnConfig`; schema, every revision, `VersionTellsTheSchema`,
`HeadIsTheModels`; Drafts, three requests of one owner, `DraftIsOneProposal`; mock data, three
generations in two minutes, two personas, a window of four days, two real rows,
`SuitesAreSound`; catalogue, two commands and two edits, `RoutesAreGrantable`,
`SeedKeepsHoldInForce`; locales, two requests, `AnswersAsTheTable`; Legal Documents, two editors,
`BinnedKeepsItsText`. They are one run because interleaving them says nothing: a behaviour of
`MCServices` is one of a single component, chosen by `part`.

Three runs state a sentence of the repository that the code does not keep, and
TLC finds the counterexample; `PROJECT.json` quotes the sentence.

| Run | Counterexample |
| --- | --- |
| `late_payment` | the hold runs out between the check and the commit of a confirmation, another request books the room, two Bookings occupy it |
| `audit_session` | the audit handler writes on the request's session after its commit; the insert succeeded and is lost |
| `fresh_upgrade` | the second revision creates a constraint the first one has created; `upgrade head` on an empty database is refused |

`late_payment` is why `NoDoubleBooking` speaks of Bookings that are *held*: a Series whose
deadline has passed has no claim to its room even if a late confirmation writes
`confirmed`. `fresh_upgrade` is why `Migrations` starts from a database in the state the
maintainers' own must have been in as well (`Legacy`, without that constraint): its
runs go through the whole history.

### Disagreements without a run

`FacilityBooking` ends with further sentences of the documents that the code does not keep
(`CancelledIsNeverConfirmed`, `PriorityIsCurrent`, `CreatedOutsideBlackouts`,
`NoOccurrenceInsideBlackout`, `OneSeriesRentalPerWeek`); the model reaches their
counterexamples, no run repeats them. Others were met while modelling:

* Facility. A cancellation rewrites an occurrence that was overridden after it read it
  (ADR 0023 says never). One Booking may have overlapping lines of one room: only equal ones
  are refused (`booking_line_validation.py:44-66`). Two transactions that cancel the last two occurrences each count
  the other's as live, so the Series stays live without any (ADR 0024). Restoring a slot
  template checks no overlap (`room_slot_template_service.py:150`). `day_cell_bounds` miscounts a
  day of 23 or 25 hours. A discount of 100 percent on a subtotal of half a cent
  quotes -0.01, and with a surcharge per hour of a fraction of a cent it may quote a cent
  more than the surcharge shown: the discount is rounded, the subtotal it is taken
  from is not. `get_detail` of a Series Draft reads header and lines in two statements, so
  a confirmation that overlaps an update may mix two proposals.
* Ministries. An approval and a rejection cross and leave a Ministry active with a
  rejected request; a late submission reopens an Active Ministry; two member lists
  merge into two primaries; a double submission leaves two pending requests; a former
  incumbent's decision lands after his replacement; mails go out before the commit.
* Sign-in. Changing a password or deleting an account revokes no refresh token; the
  access token blacklist is written and never read. A worker that dies between HSET and
  EXPIRE leaves a permission key for ever, and the role cache is read by nobody.
* Access control. `bind_roles` clears the key before its commit, so that a sign-in in between fills
  it with the old codes again. The menu query (`resource_repository.py:223-238`) has no
  verb filters, the permission query has (`permission_repository.py:287-288`): with a verb switched
  off, which no endpoint does, the menu shows a resource without a code. The expiry date of
  a grant is asked for (`permission_repository.py:291`) and written by nobody.
* Hidden resources. `facility:booking_payment` and `facility:rental_rate_template` are seeded invisible
  (`rbac_seed_data.py:289`, `:333`), and a sign-in lists codes of visible resources only
  (`permission_repository.py:290`). Nobody but a superuser is therefore given
  `facility:booking_payment:update`, which `confirm-payment` asks for (`admin/v1/facility/booking_series.py:81`),
  although ADR 0021:43 says that the resource is invisible "so Role Management can assign
  it without a sidebar item"; so do ADR 0022:19 and `CONTEXT.md:198`. The mails to its
  operators do go to those it is assigned to. Showing the resource helps until the next `init-rbac`.
* Routes. Three restore endpoints are shadowed by routes declared before them
  (`room.py` 65 and 77, `position.py` 80 and 94, `ministry.py` 104 and 118); `Shadowed` names
  them.
* Caches and files. Between an update's invalidation and its commit a reader refills the
  old value of a setting for a day. A failed upload of a batch commits a row in
  status UPLOADING, and a failed statement rolls back rows of files already reported as
  uploaded; these are the `damaged` files. `clear_locale_cache` has no caller, and the
  seeded locales share one sequence value, so that `zh` alone may mean either Chinese one.
* Legal Documents. An edit overlapped by a delete and a restore loses its date;
  delete, restore and delete around one edit changes a binned text.
* Commands. `init-locales` cannot be re-run (the English row has a fixed id and NULL script and
  region, which `ON CONFLICT` does not match), so `init-all` cannot either, although `README.md:539`
  says re-running upserts. Re-running `init-rbac` deletes all roles and assignments
  (`README.md:545` says it is safe). It grants `admin` also what was soft-deleted and leaves it
  so (`rbac_seed_service.py:256`), so that those codes stay unusable. A soft-deleted setting makes
  `seed-system-settings` fail. A second mock suite doubles the first one's fixtures. Mock fixtures are
  placed without the rooms' locks: one that is committed after `_load_occupancy` has read may be
  overlapped, although `mock_fixture_plans.py` promises that placement "never replaces existing occupancy"
  (the `missed` rows).
* Migrations. Columns NOT NULL without default are refused by filled tables (`2e4a`, `f55b`, `a879`,
  `8d43`); `f2e4` drops `preferred_language` without carrying it over; the downgrade of `ca9c` creates schemas
  where it should drop them.

### Bounds

`MaxTime` bounds the clocks, `Edited` which Ministries are edited, `MaxEdits`, `MaxSubmissions`,
`MaxCommands` and `MaxChanges` the edits, submissions, commands and changes, `FirstHour` and `LastHour` the
calendar, `Generations`, `Minutes`, `Window` and `RealRows` the mock data, `EditedCode` and `EditedResources`
what administrators edit of the catalogue; everything else is bounded by the small sets of the `.cfg` files. Each instance
has the smallest number of actors that shows its interleavings: two creates that share
one of two rooms and differ in another, one writer of each kind against one create, a hold
that can expire before, during and after each of them; two rotations of one token and a
logout; two edits of one role and a sign-in. The mock fixtures are those that share a room or
an hour, the edited resources one leaf and its parent, which the seed shows; the ones the
seed hides are named by the property. `access_control` begins with an ordinary administrator where all verbs
are on and with a superuser where one is off; she may be made either by an edit. The calendar's hours include both
changes of the clock, an opening of every window and a turn of the year. The routes and the
migrations are not bounded: they are all there. Requests and tokens of `token_families`, and the
two pairs of people of `ministries`, are symmetric; the runs with liveness properties use
no symmetry.

Deadlock is not checked by the passing runs: in a bounded scenario, all requests done
and the clock at its bound is a proper end. That nobody waits for ever is `RequestsFinish`.

### Fairness

A request that was sent is executed to its end unless it fails; a worker sweeps at
startup and every fifteen minutes; a cancellation's transaction ends. Strong
fairness stands for PostgreSQL's lock queues, which serve waiters in order.
`ExpiredHoldIsSwept` assumes in addition that sweeps fail only finitely often: a mail
query that fails in every sweep does undo every sweep. In `AccessControl` a Redis key with an
expiry expires and a request in flight goes on; nothing makes an administrator, a
user or a failure act.

### Mutants

Each property has a mutant: a plausible slip in the code (a lock on the first room
only, an unsorted lock order, a callback that survives a rollback, a revocation without its
commit, a downgrade's statements kept after a failure) that TLC catches under
the same configuration. Mutants stand before the definition they change.

## Proofs

All theorems hold for every value of the constants: any number of rooms, requests,
Bookings, tokens, people, roles, files or hours, where a run has two or three. Each is
`Spec => []P`, or `Spec => P` for an action property, and nearly all of the properties are
those of the runs, by name. The others are the type invariants, which no run repeats, and
`NoCircleOfWaits`.

### The facility part

`FacilityBookingProofs`, and `LifecycleProofs` upon it.

* `TypeCorrect`; `RoomsNeverPromisedTwice` (`NoDoubleBooking`) and `EvaluationStaysTrue`
  (`EvaluationHolds`). The inductive invariant is `OccupancyInv`. `NoDoubleBooking` alone is not
  inductive: a commit keeps it only because what the request found under its locks
  is still all there is (`EvaluationHolds`), and that needs three more facts: an evaluated
  request holds all its rooms (`LocksCoverRooms`), so that no other commit has touched
  them; its transaction time is not ahead of the clock (`TransactionTimeIsPast`), so
  that what it saw as free, at a time when more holds were active, is free; and the
  history `lapsed` misses no expired hold (`LapsedIsComplete`), so that clearing a hold, by a
  confirmation, a cancellation or a Blackout, gives nobody back a room he had lost. The
  key lemma is `NothingBecomesHeld`: no step but a create's commit makes a Booking held.
* `DisplacementIsFinal`, `OverrideMailIsHonest`, `PaymentIsConsistent`, `SweepNeverEarly` and
  `CancelledSeriesKeepsNothing`. A transaction reads rows and rewrites them by id later, so the
  invariants say what a stale read is still good for. `RowsInv`: a row that somebody
  has in hand exists, and exists only after the commit of its request, so that no
  create brings back what others have read. `OverrideInv` adds that what an evaluated request is
  going to displace is a Rental in its way, and what it has displaced is in the log;
  `SweepInv` that whatever a sweep has listed, read or updated has run out, which `lapsed`
  remembers; `CancelInv` that a cancellation of a whole Series selected all that was ahead when
  it read, and that a Series row it has updated goes with all occurrences ahead. `PaymentIsConsistent`
  is inductive with `RowsInv` alone.
* `ServicesImplementLedger`: `Spec => RefinesLedger`. Initial states map to initial states; a commit of
  a create is one `Reserve` of the ledger, for which `EvaluationHolds` says that the displaced
  Bookings are all that was in the way; every other step releases held Bookings
  or maps to a stutter.
* `NobodyWaitsInACircle` is the part of `RequestsFinish` that is safety: of any finite set of
  requests one waits for no room of the others (`NoCircleOfWaits`). The invariant `LocksAreOrdered`
  says that a request has its rooms before all those it still asks for, since
  `lock_rooms` sorts them, and only while its transaction is open. In a circle each
  request would wait for a later room than the one before, and a finite set of rooms
  has a last one (`GreatestOf`). Row locks are not part of it: a writer of rows takes all of
  one statement's in a single step of the model.

### Requests and access

* `TokenProofs`. `CoreInv`: the rows are typed and belong to families that signed in, a request
  in flight carries a delivered token with its family, and the row a rotation has
  written is its own and seen by nobody before the commit. `NoTokenIsLost` and `ReuseIsFinal` rest on
  it; `RevocationIsComplete` needs in addition that a rotation in flight in a family with revoked
  rows has missed the revocation or is one of the `late` ones (`RevocationInv`), `FamilyHasOneEnd` that
  without overlapping rotations a family has one rotation, of its one live token
  (`OneEnd`), `AppIsOfTheLogin` that the binding of a family is its app or gone (`AppIsKept`).
* `AccessProofs`. `CacheInventsNothing` from `LoadInv`: what a sign-in carries to Redis, and what Redis holds,
  the account was entitled to at some time. `EditsAreExact` from `LinkInv`: unless it is lost or
  overtaken, what an edit in flight read is what the role has. `NewRolesTakeEffect` from `RebindInv`: unless
  its account is a crossed one, a sign-in that writes to Redis has listed its codes since the last
  rebinding; and a rebinding that has cleared the key and is crossed by none finds it empty, with
  nobody about to fill it, so that its commit leaves nothing old. `LinksAreOfRows`, the type invariant, says more than types: grants and accounts name only rows
  that exist and a key's expiry has a key. `ShapeInv` adds to the other invariants that a
  binding in flight wants only roles with a row.
  The proof of `EditsAreExact` failed at first, for a good reason: a code deleted for good and
  created again was one row to the model and is two to the database, which takes one
  edit more than the run allows. The model was corrected.
* `MinistryProofs`. `StewardsAreKept`, `RequestsCanBeDecided`, `DecisionMailIsAddressed` and the action property
  `DecisionsAreFinal` from `MinistryInv`: what each request read still holds when it writes, unless the
  Ministry or the position is gone, in which case its write does nothing or
  fails. `HeldHasIncumbent`: finitely many assignments have a latest one, which is
  what `_current_incumbent` picks. `RosterIsInOrder`, the type invariant: a user keeps one role in a
  Ministry although two lists are written at a time, members and requests are of Ministries that
  exist, assignments of positions that exist; `RosterInv` adds what a list or an assignment in
  flight is going to insert.

### Single services

* `ServiceProofs`. `CacheServesCommitted` (`CacheInv`: also the values readers are about to fill in were
  committed once); `MailIsAfterCommit` and `ErrorsWriteNothing` (`SessionInv`: a registered mail has its write in the open
  transaction, nothing is committed before the answer); `TableFollowsStore` (`StoreInv`: what the
  table and the store hold of a file that a request has put or deleted and not
  committed); `DraftsStayWhole` (`DraftInv`: what each statement of a request knows of the rows, and
  that no two requests hold the same row); `BinIsSafe` (`LegalInv`: an edit whose UPDATE found the
  document keeps it out of the bin); `SuitesCanBeUsed` (`MockInv`: what a command took from the files is still there
  when it commits, since one command runs at a time; the fixtures placed so far stand clear of each other
  and of the rows read, and no other rows have come but the missed ones); `SeedOpensRoutes` and
  `SeedKeepsHold` (`CatalogInv`: while nothing was switched off, withdrawn or purged since a seed, each
  seeded code has its row, is active and granted, and each seeded resource has its row and is
  hidden only if it was seeded so, none of which a soft deletion or a restoration undoes; hours
  in force are not zero).
* `OfferProofs`. `OfferIsHonest`: a span in shown cells that a create would refuse has a tick in
  common with a Booking or a Blackout, the tick lies in a cell (`TickHasCell`), and the cell
  shows it (`ShownHasNoConflict`); the invariant says only that booked lines lie in the
  day. `QuotesStaySound`: any choice `pick_rate_for_line` makes is a template in force, and rounding
  moves each amount by half a cent at most (`QuantizeIsNear`, `DiscountIsBounded`); the sum over the
  lines of a quote is unfolded for two lines. This proof failed at first as well: that
  a full discount leaves no more than the surcharge to pay is false for surcharges with a
  fraction of a cent, which the run did not have. The property now says what
  the code does keep, and the run has such a surcharge. `HoldsAreFair`: noon and midnight are
  never skipped or repeated by a change of the clock (`NoChangeAtHalfDay`), and a deadline grows
  with the clock on the wall. `OpeningIsAnnouncedHolds` rests on the arithmetic of years: a year
  begins on the day after the last of the one before (`YearsGrow`, `LeapYearsGrow`), so that `YearOf`
  finds the one year of a day (`YearFound`, `YearOrder`); the first openings a year ahead are far
  enough (`FarOpening`), so that there is a next one, the announced (`AnnouncedIsLeast`); and no
  change of the clock skips a midnight (`NextWall`, `LocalDays`), so that the window opens with that day.
* `TableProofs` is about tables that are written down in the source. What each table is like by
  itself is an assumption with a name, which TLC evaluates on the whole table in every
  run; what concurrent and failing actors make of it is proved.
  `OwnEndpointOwnConfigHolds` (`DispatchInv`): the middleware and the framework search the same table
  for the same request, one after the other; what a search finds has the request's method, so
  that a shadowed route does not turn a change of data into an open read.
  `VersionTellsTheSchemaHolds` (`MigrationInv`): a command that has run `k` statements of its script from
  a schema of the version has that prefix's result, a failure restores what it began with,
  and every revision leads from any schema of its version to one of the next
  (`RevisionsAssumption`); so the order, the number and the failures of commands do not matter.
  `HeadIsTheModelsHolds` follows with `HeadAssumption`: the last schema is that of the ORM classes.
  `AnswersAsTheTableHolds` (`LocaleInv`): each Redis key holds what one snapshot of the table has under it,
  whoever wrote it; two snapshots differ only in the order of the Chinese locales, a mix
  of keys of two snapshots is therefore one more snapshot, and the detector answers from it
  what it answers from the table.

### Assumptions

Those stated with the constants; the runs evaluate them on their instances. The
ones with content:

* `OccurrencesAssumption`: two occurrences of one Series do not overlap, since each
  combines its own date with the Series' local start and end times, and
  `_prepare_series` requires the end to be after the start.
* `TimetableAssumption`: a Blackout ends after it starts (`_validate_command`), templates are
  numbered by their start.
* `CalendarAssumption`: the clock changes at two in the morning, as in the facility's time zone.
* `WindowsAssumption`: a booking window is a positive number of days, weeks or months, as
  `_parse_recurring_booking_availability_window` requires. `YearsAssumption`: the years that `YearOf` looks at
  include those of the clock and the year after.
* `AccessConstants` asks for at least one set of verbs an environment may have, `PersonasAssumption` for
  at least one persona.
* `MinistryAssumption` says of member lists that they name a user once. A list that does not is
  refused by the unique key of `org.ministry_member`, and its transaction leaves nothing.
* Facts about tables without parameters, which TLC evaluates on the whole tables:
  `EndpointsAskForCodes` and `RoutersAssumption` (every administrative endpoint asks for a code, and only for
  codes of the seed data), `RouteTablesAssumption` (a route that is not shadowed is found by its own
  requests, and an administrative route that changes data has an AuthConfig with a code),
  `RevisionsAssumption` and `HeadAssumption` (each upgrade and downgrade alone, and the last schema),
  `SeedAssumption` (what the seeded locales look like in Redis).
* The others say that model values such as `NoRow` are not rows and that numbers are numbers.

### Only model-checked

* `RequestsFinish`, `ExpiredHoldIsSwept` and `WithdrawnLeavesCache` are liveness: fairness and `ENABLED` are beyond the
  prover. Of `RequestsFinish` the safety part is proved (`NobodyWaitsInACircle`).
* The facts about tables listed above. Proving them would be evaluating them, some by induction
  over sequences, which the provers cannot do.
* That the code disagrees with a sentence of the repository (the three runs with a
  counterexample).

## Not modelled

Mappers, serializers, command and result classes, containers and routers' bodies copy
fields; My Bookings and participant details are read-only projections; rooms are
single-row maintenance; the query builder of `aio_orm.py` builds SQL; `http_client.py` has no caller;
Microsoft Graph, SMTP, telemetry and the rate limiters are libraries and I/O, whose
failures are choices in the modules that call them. Within modelled parts: the edit of
a Series title; in `AccessControl` the menu, the role cache, creation, permanent deletion and
reordering of resources and an edit that gives a permission another code, resource or verb; passwords and
signatures; Blackouts that an Operator saves over mock fixtures; `--include-legacy-demo` of the mock data; column types, defaults, plain indexes and
check constraints of the schema; single steps inside a seed.

## Plan

Every safety property of the runs is proved. What a next step could add is breadth: the row
locks of a cancellation taken one by one, so that a circle of row waits and its abort become
visible (`recurring_booking_service.py:740`); the parts listed above as not modelled; and runs for
the sentences of `FacilityBooking` that the code does not keep.
