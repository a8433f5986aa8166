SPECIFICATION Spec
CONSTANTS
  ann = ann
  bob = bob
  cyd = cyd
  dan = dan
  Ids = {"choir"}
  Positions = {"elder"}
  Users = {ann, bob, cyd, dan}
  Callers = {ann, cyd}
  Starts = {1}
  r1 = r1
  r2 = r2
  Requests = {r1, r2}
  None = None
  Gone = Gone
  MaxSubmissions = 2
  MemberLists <- MCMemberLists
INVARIANTS StewardsNeverMissing RequestHasApprover DecisionMailReachesApplicant
PROPERTIES DecidedRequestIsFinal
SYMMETRY Symmetric
CHECK_DEADLOCK FALSE
