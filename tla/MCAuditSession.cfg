SPECIFICATION SessionSpec
CONSTANTS
  AuditedCalls = {edit, upload}
  Mailing = {booking}
  PoolSize = 2
INVARIANTS HandledIsLogged
CHECK_DEADLOCK FALSE
