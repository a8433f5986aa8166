SPECIFICATION MCSpec
CONSTANTS
  Values = {v1, v2}
  Workers = {w1, w2}
  NoSetting = NoSetting
  Files = {f1, f2}
  Contents = {beach}
  Uploaders = {r1, r2}
  NoFile = NoFile
  AuditedCalls = {edit, upload}
  Mailing = {booking}
  PoolSize = 2
  FirstYear = 2024
  LastYear = 2031
  Summer <- MCSummer
  HoldDays = {1, 3}
  Windows <- MCWindows
  FirstHour = 21150
  LastHour = 28200
  Cells = 4
  CellTicks = 2
  Days = {0, 1}
  Today = 0
  Templates = {1, 2, 3}
  TemplateOf <- MCTemplateOf
  Closings <- MCClosings
  NoRoom = NoRoom
  Plans <- MCPlans
  NoMinistry = NoMinistry
  TemplateIds = {1, 2}
  PricedRooms = {hall}
  Forms <- MCForms
  NoRow = NoRow
  Hours = {50, 75, 400}
  Percents = {20, 33, 100}
  Surcharges = {0, 1210, 1250}
  Proposals = {p1, p2}
  DraftWorkers = {a, b, c}
  NoDraft = NoDraft
  Generations = {1, 2, 3}
  Minutes = {1, 2}
  Personas = {personal, owner}
  Window = 4
  RealRows <- MCRealRows
  NoCsv = NoCsv
  LegacyHours = {36, 48}
  HoldChoices = {1}
  MaxCommands = 2
  MaxChanges = 2
  LocaleWorkers = {x, y}
  Headers <- MCHeaders
  NoCode = NoCode
  Editors = {e1, e2}
  DocumentIds = {d1, d2}
  Edits <- MCEdits
  FirstDate = 1
  TextLocales = {"en", "zh"}
  NoDocument = NoDocument
  NoText = NoText
INVARIANTS
  CacheHoldsACommittedValue StoreAndTableAgree MailFollowsCommit ErrorChangesNothing
  OwnEndpointOwnConfig OfferedIsBookable QuotesAreSound VersionTellsTheSchema HeadIsTheModels
  DraftIsOneProposal  RoutesAreGrantable AnswersAsTheTable
PROPERTIES HoldLastsAsPromised OpeningIsAnnounced SeedKeepsHoldInForce BinnedKeepsItsText
CHECK_DEADLOCK FALSE
