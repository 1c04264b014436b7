CONSTANTS
  Request = {r1, r2}
  Nobody = nobody
  plain = plain
  denied = denied
  dir = dir
  File = {plain, denied, dir}
  Denied = {denied}
  Directory = {dir}
  Absent = absent
  Disk = disk
  InitialSize = 3
  BUF_SIZE = 2
  INT_MAX = 7
  Input <- GetAndPut
SPECIFICATION FairSpec
PROPERTY GetsEnd
