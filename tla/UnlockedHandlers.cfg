CONSTANTS
  Request = {r1, r2}
  Nobody = nobody
  plain = plain
  denied = denied
  File = {plain, denied}
  Denied = {denied}
  Directory = {}
  Absent = absent
  Disk = disk
  InitialSize = 3
  BUF_SIZE = 2
  INT_MAX = 5
  Input <- Inputs
SPECIFICATION FairHandlers
INVARIANTS
  GetSendsPrefix
  UnitsInPlace
  AppendsKept
PROPERTIES
  GetsEndUnlessCut
  UploadsEndIfSent
