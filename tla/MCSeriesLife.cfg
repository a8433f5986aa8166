SPECIFICATION Spec
CHECK_DEADLOCK FALSE
CONSTANTS
    Rooms = {1}
    OneTimeRequests = {"evening"}
    SeriesRequests = {"class"}
    Bookings = {"class1", "class2", "evening1"}
    RequestOf <- LifeRequestOf
    Lines <- LifeLines
    WeekOf <- LifeWeekOf
    Booker <- LifeBooker
    Ministries = {}
    MinistryOf <- RentalOnly
    NoMinistry = NoMinistry
    Edited = {}
    Blackouts = {}
    Shapes = {}
    Covers <- NothingCovered
    NoShape = NoShape
    NoHold = NoHold
    Writers = {"canceller", "worker"}
    MaxTime = 1
    MemberRequests = {"class", "evening"}
    MinOccurrences = 1
    HoldLength = 1
    OutsideHours = {}
    NoRequest = NoRequest
    Confirmers = {"treasurer"}
    Cancellers = {"canceller"}
    Operators = {}
    Workers = {"worker"}
    Clash = {}
    NoBlackout = NoBlackout
    NoSeries = NoSeries
    NoWorker = NoWorker
INVARIANTS
    OccurrenceMatchesPayment
    SweptOnlyAfterDeadline
