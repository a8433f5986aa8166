SPECIFICATION Spec
CHECK_DEADLOCK FALSE
CONSTANTS
    Rooms = {1, 2}
    OneTimeRequests = {"rental", "worship"}
    SeriesRequests = {"choir"}
    Bookings = {"hall", "worship1", "choir1", "choir2"}
    RequestOf <- RaceRequestOf
    Lines <- RaceLines
    WeekOf <- RaceWeekOf
    Booker <- RaceBooker
    Ministries = {"music"}
    MinistryOf <- RaceMinistryOf
    NoMinistry = NoMinistry
    Edited = {"music"}
    Blackouts = {}
    Shapes = {}
    Covers <- NothingCovered
    NoShape = NoShape
    NoHold = NoHold
    Writers = {}
    MaxTime = 1
    MemberRequests = {"rental", "worship", "choir"}
    MinOccurrences = 1
    HoldLength = 1
    OutsideHours = {}
    NoRequest = NoRequest
    Confirmers = {}
    Cancellers = {}
    Operators = {}
    Workers = {}
    Clash = {}
    NoBlackout = NoBlackout
    NoSeries = NoSeries
    NoWorker = NoWorker
INVARIANTS
    NoDoubleBooking
    EvaluationHolds
    OverrideMailIsTrue
