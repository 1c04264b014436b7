CONSTANTS
  Request = {r1, r2, r3}
  Main = main
  Nobody = nobody
  plain = plain
  other = other
  denied = denied
  File = {plain, other, denied}
  Denied = {denied}
  Directory = {}
  Absent = absent
  Disk = disk
  InitialSize = 1
  BUF_SIZE = 2
  INT_MAX = 3
  Input <- Uploads
SPECIFICATION ShutSpec
SYMMETRY Symmetry
INVARIANTS
  TypeOK
  NoTornUpload
  OneCreator
  AtMostOneTorn
  AtMostOneUnlogged
PROPERTY SerialLog
