SPECIFICATION FairSpec
CHECK_DEADLOCK FALSE
CONSTANTS
    Rooms = {1, 2}
    OneTimeRequests = {"evening"}
    SeriesRequests = {"class"}
    Bookings = {"class1", "class2", "evening1"}
    RequestOf <- LifeRequestOf
    Lines <- TwoRoomLines
    WeekOf <- LifeWeekOf
    Booker <- LifeBooker
    Ministries = {}
    MinistryOf <- RentalOnly
    NoMinistry = NoMinistry
    Edited = {}
    Blackouts = {}
    Shapes = {}
    Covers <- NothingCovered
    NoShape = NoShape
    NoHold = NoHold
    Writers = {"worker", "standby"}
    MaxTime = 1
    MemberRequests = {"class", "evening"}
    MinOccurrences = 1
    HoldLength = 1
    OutsideHours = {}
    NoRequest = NoRequest
    Confirmers = {"treasurer"}
    Cancellers = {}
    Operators = {}
    Workers = {"worker", "standby"}
    Clash = {}
    NoBlackout = NoBlackout
    NoSeries = NoSeries
    NoWorker = NoWorker
PROPERTIES
    ExpiredHoldIsSwept
    RequestsFinish
