SPECIFICATION Spec
CHECK_DEADLOCK FALSE
CONSTANTS
    Rooms = {1}
    OneTimeRequests = {}
    SeriesRequests = {"class"}
    Bookings = {"class1", "class2"}
    RequestOf <- BlackoutRequestOf
    Lines <- BlackoutLines
    WeekOf <- BlackoutWeekOf
    Booker <- BlackoutBooker
    Ministries = {}
    MinistryOf <- RentalOnly
    NoMinistry = NoMinistry
    Edited = {}
    Blackouts = {"repair"}
    Shapes = {"second", "both"}
    Covers <- ClosedOn
    NoShape = NoShape
    NoHold = NoHold
    Writers = {"operator", "canceller"}
    MaxTime = 1
    MemberRequests = {"class"}
    MinOccurrences = 1
    HoldLength = 1
    OutsideHours = {}
    NoRequest = NoRequest
    Confirmers = {"treasurer"}
    Cancellers = {"canceller"}
    Operators = {"operator"}
    Workers = {}
    Clash <- SameKind
    NoBlackout = NoBlackout
    NoSeries = NoSeries
    NoWorker = NoWorker
INVARIANTS
    CancelledSeriesIsReleased
