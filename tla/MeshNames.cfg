SPECIFICATION NamesSpec
CONSTANTS
  Devices = {d1, d2}
  Tenants = {t1, t2}
  Capacity = 4
  None = None
  MaxEnrolls = 3
INVARIANTS
  NamesTypeOK
  NoForeignPin
  NeverShared
  GrantsDurable
  OwnerIsInverse
  MemoryIsDurable
  NothingFreeBehindCursor
  FileLoads
PROPERTY TableSpec
CHECK_DEADLOCK FALSE
